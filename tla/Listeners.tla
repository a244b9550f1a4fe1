------------------------------ MODULE Listeners ------------------------------
(***************************************************************************)
(* The client libraries that call an application back when the agent       *)
(* notifies them: the device tree (cfwk/devicetree/swi_devicetree.c), SMS  *)
(* (cfwk/sms/swi_sms.c) and updates (cfwk/update/swi_update.c).            *)
(*                                                                         *)
(* The first two keep the registrations in a linked list, cb_list, under a *)
(* mutex that most, but not all, of the functions take.  They are one      *)
(* model, "kind" says which library it is and where they differ.  The      *)
(* update library keeps one callback and no mutex.  swi_dt_Get and         *)
(* swi_dt_MultipleGet are functions of what the agent answers.             *)
(***************************************************************************)
EXTENDS Integers, Sequences, FiniteSets, SequencesExt

CONSTANTS Threads,      \* threads of the application
          Entries,      \* elements of cb_list, 1..n, allocated in this order
          Requests,     \* what swi_dt_MultipleGet is called with: nodes
          MaxMsgs,      \* notifications of the agent
          MaxRestarts,  \* restarts of the agent
          MaxFaults     \* requests that fail

VARIABLES lib,   \* [kind, lock, head, user_cb, data]
          ent,   \* the elements of cb_list: [mem, next, id, life]
          thr,   \* the threads: [pc, on, at]
          ag,    \* the agent: [reg, next, life, once, twice, msgs, faults]
          hist   \* invalid reads, and the windows met

vars == <<lib, ent, thr, ag, hist>>

None == 0
Callback == 1
Rereg == "empReregisterServices"
Hdlr == "thread_cmd_routine"
Everyone == Threads \cup {Rereg, Hdlr}
Idle == [pc |-> "idle", on |-> None, at |-> None]
Lists == {"dt", "sms"}

Init ==
  /\ \E kind \in Lists \cup {"update", "get"} :
       lib = [kind |-> kind, lock |-> "free", head |-> None, user_cb |-> None, data |-> <<>>]
  /\ ent = [e \in Entries |-> [mem |-> "none", next |-> None, id |-> 0, life |-> 0]]
  /\ thr = [t \in Everyone |-> Idle]
  /\ ag = [reg |-> {}, next |-> 1, life |-> 1, once |-> {}, twice |-> {}, msgs |-> 0, faults |-> 0]
  /\ hist = [bad |-> {}, overlap |-> FALSE, dropped |-> FALSE, unreg |-> {}]

Goes(t, pc, on, at) == thr' = [thr EXCEPT ![t] = [pc |-> pc, on |-> on, at |-> at]]
Ends(t) == thr' = [thr EXCEPT ![t] = Idle]
Bad(what) == hist' = [hist EXCEPT !.bad = @ \cup {what}]
Fails == ag.faults < MaxFaults /\ ag' = [ag EXCEPT !.faults = @ + 1]

\* The elements from e on, along next.
From(e) ==
  LET F[n \in 0..Cardinality(Entries), x \in Entries \cup {None}] ==
        IF n = 0 \/ x = None THEN <<>> ELSE <<x>> \o F[n - 1, ent[x].next]
  IN F[Cardinality(Entries), e]

cb_list == From(lib.head)
Listed == ToSet(cb_list)

(* ---------------------------------------------------------------------- *)
(* Registration                                                            *)
(* ---------------------------------------------------------------------- *)
swi_dt_Register(t, e) ==
  /\ lib.kind \in Lists /\ thr[t].pc = "idle" /\ ent[e].mem = "none"
  /\ \A u \in Threads : thr[u].on # e
  /\ \A x \in 1..(e - 1) : ent[x].mem # "none" \/ \E u \in Threads : thr[u].on = x
  /\ Goes(t, "registering", e, None)
  /\ UNCHANGED <<lib, ent, ag, hist>>

\* The agent numbers its registrations from 1, and forgets them all when it
\* restarts.
Registers(e) ==
  ag' = [ag EXCEPT !.reg = @ \cup {<<ag.next, e>>}, !.next = @ + 1,
                   !.once = @ \cup {e}, !.twice = @ \cup ({e} \cap ag.once)]

send_register_payload(t) ==
  LET e == thr[t].on IN
  /\ thr[t].pc = "registering"
  /\ \/ /\ Registers(e)
        /\ ent' = [ent EXCEPT ![e].id = ag.next, ![e].life = ag.life]
        /\ Goes(t, "adding", e, None)
     \/ Fails /\ Ends(t) /\ UNCHANGED ent
  /\ UNCHANGED <<lib, hist>>

RegisterAdd(t) ==
  LET e == thr[t].on IN
  /\ thr[t].pc = "adding" /\ lib.lock = "free"
  /\ IF lib.head = None
     THEN /\ lib' = [lib EXCEPT !.head = e]
          /\ ent' = [ent EXCEPT ![e].mem = "live"]
     ELSE /\ ent' = [ent EXCEPT ![e].mem = "live", ![Last(cb_list)].next = e]
          /\ UNCHANGED lib
  /\ Ends(t)
  /\ UNCHANGED <<ag, hist>>

\* swi_dt_Unregister looks for the element without the lock.
swi_dt_Unregister(t, e) ==
  /\ lib.kind \in Lists /\ thr[t].pc = "idle" /\ ent[e].mem = "live" /\ e \notin hist.unreg
  /\ IF lib.head = None THEN UNCHANGED thr ELSE Goes(t, "walking", e, lib.head)
  /\ hist' = [hist EXCEPT !.unreg = @ \cup {e}]
  /\ UNCHANGED <<lib, ent, ag>>

\* One element of the walk; at the element itself its id is read and sent.
UnregisterWalk(t) ==
  LET at == thr[t].at IN
  /\ thr[t].pc = "walking"
  /\ IF ent[at].mem = "freed" THEN Bad("freed") /\ Ends(t)
     ELSE IF at = thr[t].on /\ ent[at].id = 0 THEN Bad("id") /\ Ends(t)
     ELSE /\ IF at = thr[t].on THEN Goes(t, "unregistering", at, ent[at].id)
             ELSE IF ent[at].next = None THEN Ends(t)
             ELSE Goes(t, "walking", thr[t].on, ent[at].next)
          /\ UNCHANGED hist
  /\ UNCHANGED <<lib, ent, ag>>

UnregisterAnswer(t) ==
  LET e == thr[t].on IN
  /\ thr[t].pc = "unregistering"
  /\ \/ /\ ag' = [ag EXCEPT !.reg = {r \in @ : r[1] # thr[t].at}]
        /\ Goes(t, "removing", e, None)
        /\ UNCHANGED hist
     \/ Fails /\ Ends(t) /\ hist' = [hist EXCEPT !.unreg = @ \ {e}]
  /\ UNCHANGED <<lib, ent>>

\* Threads that hold an address of the list and no lock.
Walkers(t) ==
  {u \in Everyone \ {t} : \/ thr[u].pc = "walking"
                          \/ lib.kind = "sms" /\ u = Rereg /\ thr[u].pc # "idle"}

\* Mutant of RemoveHead: the list is emptied, in the device tree library too.
HeadOnly(e) == None

\* The head of the list once its first element is removed: SMS empties it.
RemoveHead(e) == IF lib.kind = "sms" THEN None ELSE ent[e].next

UnregisterRemove(t) ==
  LET e == thr[t].on
      before == {x \in Listed : ent[x].next = e} IN
  /\ thr[t].pc = "removing" /\ lib.lock = "free"
  /\ IF lib.head # e /\ before = {}
     THEN Bad("null") /\ UNCHANGED <<lib, ent>>
     ELSE /\ lib' = IF lib.head = e THEN [lib EXCEPT !.head = RemoveHead(e)] ELSE lib
          /\ ent' = [x \in Entries |-> IF x = e THEN [ent[e] EXCEPT !.mem = "freed"]
                                       ELSE IF lib.head # e /\ x \in before
                                       THEN [ent[x] EXCEPT !.next = ent[e].next] ELSE ent[x]]
          /\ hist' = [hist EXCEPT !.overlap = @ \/ Walkers(t) # {},
                                  !.dropped = @ \/ (lib.kind = "sms" /\ lib.head = e
                                                    /\ ent[e].next # None)]
  /\ Ends(t)
  /\ UNCHANGED ag

(* ---------------------------------------------------------------------- *)
(* Notifications, each in a thread of its own                              *)
(* ---------------------------------------------------------------------- *)
Notify(r) ==
  /\ lib.kind \in Lists /\ thr[Hdlr].pc = "idle" /\ ag.msgs < MaxMsgs /\ r \in ag.reg
  /\ ag' = [ag EXCEPT !.msgs = @ + 1]
  /\ Goes(Hdlr, "notified", <<r[2], ag.life>>, r[1])
  /\ UNCHANGED <<lib, ent, hist>>

\* The elements whose callbacks are called: all that have the id, or the first.
Matching(id) ==
  LET hits == SelectSeq(cb_list, LAMBDA e : ent[e].id = id)
  IN IF lib.kind = "sms" /\ hits # <<>> THEN <<Head(hits)>> ELSE hits

\* The callbacks run with the lock held.
empNotifyVariables ==
  /\ thr[Hdlr].pc = "notified" /\ lib.lock = "free"
  /\ lib' = [lib EXCEPT !.lock = Hdlr]
  /\ Goes(Hdlr, "calling", thr[Hdlr].on, Matching(thr[Hdlr].at))
  /\ IF \E e \in Listed : ent[e].id = 0 THEN Bad("id") ELSE UNCHANGED hist
  /\ UNCHANGED <<ent, ag>>

NotifyReturn ==
  /\ thr[Hdlr].pc = "calling"
  /\ lib' = [lib EXCEPT !.lock = "free"]
  /\ Ends(Hdlr)
  /\ UNCHANGED <<ent, ag, hist>>

(* ---------------------------------------------------------------------- *)
(* Restart of the agent: every registration is sent again.                 *)
(* ---------------------------------------------------------------------- *)
AgentRestart ==
  /\ lib.kind # "get" /\ ag.life <= MaxRestarts /\ thr[Rereg].pc = "idle"
  /\ ag' = [ag EXCEPT !.reg = {}, !.next = 1, !.once = {}, !.twice = {}, !.life = @ + 1]
  /\ Goes(Rereg, "restarted", None, None)
  /\ UNCHANGED <<lib, ent, hist>>

\* The device tree library holds the lock for the whole iteration, SMS never.
empReregisterServices ==
  /\ thr[Rereg].pc = "restarted" /\ lib.kind \in Lists
  /\ lib.kind = "dt" => lib.lock = "free"
  /\ IF lib.head = None THEN Ends(Rereg) /\ UNCHANGED lib
     ELSE /\ Goes(Rereg, "sending", None, lib.head)
          /\ lib' = IF lib.kind = "dt" THEN [lib EXCEPT !.lock = Rereg] ELSE lib
  /\ UNCHANGED <<ent, ag, hist>>

\* An element is read; in the device tree library its id is freed first.
ReregSend ==
  LET e == thr[Rereg].at IN
  /\ thr[Rereg].pc = "sending"
  /\ IF ent[e].mem = "freed" THEN Bad("freed") /\ Ends(Rereg) /\ UNCHANGED ent
     ELSE /\ Goes(Rereg, "waiting", None, e)
          /\ ent' = IF lib.kind = "dt" THEN [ent EXCEPT ![e].id = 0, ![e].life = 0] ELSE ent
          /\ UNCHANGED hist
  /\ UNCHANGED <<lib, ag>>

ReregAnswer ==
  LET e == thr[Rereg].at IN
  /\ thr[Rereg].pc = "waiting"
  /\ \/ Fails /\ UNCHANGED <<ent, hist>>
     \/ /\ Registers(e)
        /\ IF ent[e].mem = "freed" THEN Bad("freed") /\ UNCHANGED ent
           ELSE /\ ent' = [ent EXCEPT ![e].id = ag.next, ![e].life = ag.life]
                /\ UNCHANGED hist
  /\ IF ent[e].next = None
     THEN /\ Ends(Rereg)
          /\ lib' = IF lib.kind = "dt" THEN [lib EXCEPT !.lock = "free"] ELSE lib
     ELSE Goes(Rereg, "sending", None, ent[e].next) /\ UNCHANGED lib

(* ---------------------------------------------------------------------- *)
(* Updates: one callback, user_cb, and no lock.                            *)
(* ---------------------------------------------------------------------- *)
swi_update_RegisterStatusNotification(t, cb) ==
  /\ lib.kind = "update" /\ thr[t].pc = "idle"
  /\ Goes(t, "status", cb, None)
  /\ UNCHANGED <<lib, ent, ag, hist>>

\* The callback changes once the agent has answered.
StatusAnswer(t) ==
  /\ thr[t].pc = "status"
  /\ \/ /\ ag' = [ag EXCEPT !.reg = IF thr[t].on # None THEN {<<1, Hdlr>>} ELSE {}]
        /\ lib' = [lib EXCEPT !.user_cb = thr[t].on]
        /\ hist' = [hist EXCEPT !.overlap = @ \/ (thr[Hdlr].pc = "tested" /\ thr[t].on = None)]
     \/ Fails /\ UNCHANGED <<lib, hist>>
  /\ Ends(t)
  /\ UNCHANGED ent

newStatusNotification ==
  /\ lib.kind = "update" /\ thr[Hdlr].pc = "idle" /\ ag.msgs < MaxMsgs /\ ag.reg # {}
  /\ ag' = [ag EXCEPT !.msgs = @ + 1]
  /\ IF lib.user_cb # None THEN Goes(Hdlr, "tested", None, None) ELSE UNCHANGED thr
  /\ UNCHANGED <<lib, ent, hist>>

StatusCall ==
  /\ thr[Hdlr].pc = "tested"
  /\ IF lib.user_cb # None THEN UNCHANGED hist ELSE Bad("null")
  /\ Ends(Hdlr)
  /\ UNCHANGED <<lib, ent, ag>>

\* Registered again whether or not there is a callback.
ReregStatus ==
  /\ thr[Rereg].pc = "restarted" /\ lib.kind = "update"
  /\ \/ ag' = [ag EXCEPT !.reg = {<<1, Hdlr>>}]
     \/ Fails
  /\ Ends(Rereg)
  /\ UNCHANGED <<lib, ent, hist>>

(* ---------------------------------------------------------------------- *)
(* swi_dt_Get.  The answer of the agent has one element, a leaf of some type *)
(* or a null, or two, the second with the children of the node: none for a   *)
(* null whose node does not exist.  The type of a number is tested on the    *)
(* answer and not on the value in it, whose flags are never set there: a     *)
(* number is left out of the data set.                                       *)
(* ---------------------------------------------------------------------- *)
swi_dt_Get(node) ==
  CASE node.type = "null" -> [rc |-> "RC_NOT_FOUND", leaf |-> TRUE, data |-> <<>>]
    [] node.type \in {"number", "only null"} -> [rc |-> "RC_OK", leaf |-> TRUE, data |-> <<>>]
    [] node.type \in {"string", "bool"} -> [rc |-> "RC_OK", leaf |-> TRUE, data |-> <<node>>]
    [] node.type = "failed" -> [rc |-> "RC_TIMEOUT", leaf |-> TRUE, data |-> <<>>]
    [] OTHER -> [rc |-> "RC_OK", leaf |-> FALSE, data |-> node.children]

\* Interior nodes are skipped, an absent one ends the call, Booleans and nil
\* are not copied; the elements that failed otherwise are skipped as well.
swi_dt_MultipleGet(nodes) ==
  LET G[i \in 0..Len(nodes)] ==
        IF i = 0 THEN <<>>
        ELSE IF ~swi_dt_Get(nodes[i]).leaf THEN G[i - 1]
        ELSE G[i - 1] \o SelectSeq(swi_dt_Get(nodes[i]).data, LAMBDA d : d.type = "string")
      lost == \E i \in DOMAIN nodes : swi_dt_Get(nodes[i]).rc = "RC_NOT_FOUND"
  IN [rc |-> IF nodes = <<>> \/ lost THEN "RC_NOT_FOUND" ELSE "RC_OK",
      data |-> IF nodes = <<>> \/ lost THEN <<>> ELSE G[Len(nodes)]]

Get(nodes) ==
  /\ lib.kind = "get"
  /\ lib' = [lib EXCEPT !.data = [asked |-> nodes, got |-> swi_dt_MultipleGet(nodes)]]
  /\ UNCHANGED <<ent, thr, ag, hist>>

Next ==
  \/ \E t \in Threads :
       \/ \E e \in Entries : swi_dt_Register(t, e) \/ swi_dt_Unregister(t, e)
       \/ send_register_payload(t) \/ RegisterAdd(t)
       \/ UnregisterWalk(t) \/ UnregisterAnswer(t) \/ UnregisterRemove(t)
       \/ \E cb \in {None, Callback} : swi_update_RegisterStatusNotification(t, cb)
       \/ StatusAnswer(t)
  \/ \E r \in ag.reg : Notify(r)
  \/ empNotifyVariables \/ NotifyReturn
  \/ AgentRestart \/ empReregisterServices \/ ReregSend \/ ReregAnswer \/ ReregStatus
  \/ newStatusNotification \/ StatusCall
  \/ \E nodes \in Requests : Get(nodes)

Spec == Init /\ [][Next]_vars

(* ---------------------------------------------------------------------- *)
(* Properties                                                              *)
(* ---------------------------------------------------------------------- *)
\* A registration that was added stays in the list until it is unregistered
\* (in the SMS library: as long as the first of several was not), and the
\* list never holds a freed element.  Freed memory, or a null pointer, is only
\* read when an element was removed, or the callback cleared, while another
\* thread was using it without the lock; a freed id, only after a restart.
ListenersKept ==
  /\ \A e \in Listed : ent[e].mem = "live"
  /\ \A e \in Entries : ent[e].mem = "live" => e \in Listed \/ hist.dropped
  /\ {"freed", "null"} \cap hist.bad # {} => hist.overlap \/ hist.dropped
  /\ "id" \in hist.bad => ag.life > 1

RightOwner(h, called) ==
  \/ called = <<h.on[1]>>
  \/ called = <<>> /\ (h.on[1] \notin Listed \/ h.on[1] \in hist.unreg)
  \/ h.on[2] # ag.life
  \/ h.on[1] \in ag.twice
  \/ \E e \in Listed : ent[e].life # ag.life

\* A notification calls the callback it was sent for, and no other; unless the
\* list still holds an id given by an agent that has since restarted, or the
\* notification is one of that agent, or the registration reached the agent
\* both from Register and from the iteration after the restart.  It calls none
\* only when the registration is not in the list yet, or being unregistered.
DeliveredToOwner ==
  thr[Hdlr].pc = "notified" /\ thr'[Hdlr].pc = "calling"
    => RightOwner(thr[Hdlr], thr'[Hdlr].at)

Values == {"string", "number", "bool"}

\* "Only leaf paths will be retrieved, any node path will be silently
\* discarded.  Each leaf value will be put as an element in the
\* swi_dset_Iterator_t object" (swi_devicetree.h, swi_dt_MultipleGet): a call
\* that succeeds, all of its requests having been answered, has every value.
LeavesAreReturned ==
  lib.data # <<>> /\ lib.data.got.rc = "RC_OK" /\ (\A i \in DOMAIN lib.data.asked : lib.data.asked[i].type # "failed")
    => lib.data.got.data = SelectSeq(lib.data.asked, LAMBDA n : n.type \in Values)
=============================================================================
