-------------------------------- MODULE Emp ---------------------------------
(***************************************************************************)
(* The EMP client of the C framework (cfwk/racon/emp.c): threads of an     *)
(* application send commands to the agent and wait for the answer, which   *)
(* the reader thread hands over through the slot of the request id (rid).  *)
(*                                                                         *)
(* The slots are shared without a lock: a step is what a thread does       *)
(* between two accesses another thread can tell apart.  One word of        *)
(* ridBitfields is modelled.  The code has windows in which another thread *)
(* (or a signal) spoils a slot; `raced' records that one was hit, so that  *)
(* what holds as long as none was can be stated:                           *)
(*   - the word changes between its read and the compare-and-swap;         *)
(*   - the reader handles a slot whose caller is timing out;               *)
(*   - the connection's end is noticed between getrequestid() and send();  *)
(*   - sem_timedwait() is interrupted by a signal;                         *)
(*   - an answer to the agent cannot be sent, and frees the agent's rid.   *)
(***************************************************************************)
EXTENDS Naturals, FiniteSets

CONSTANTS Callers,     \* threads that call emp_send_and_wait_response()
          N,           \* number of slots, EMP_MAX_CMD in the code
          MaxReq,      \* bound: commands sent
          MaxBreak,    \* bound: disconnections
          MaxEvents    \* bound: commands the agent sends to the application, and
                       \* failures of malloc() or send() on a live connection

ASSUME EmpAssumption ==
  /\ N \in Nat \ {0} /\ MaxReq \in Nat /\ MaxBreak \in Nat /\ MaxEvents \in Nat

Rids == 0 .. N - 1

VARIABLES used,    \* ridBitfields: the rids whose bit is set
          ctx,     \* commandInProgress
          pc, rid, \* of each caller: where it is, its local variable rid
          seen,    \* the bitfield as a caller last read it
          req,     \* of each caller: the number of its command
          res,     \* of each caller: what emp_send_and_wait_response() returns
          reqs,    \* commands sent so far
          conn,    \* the socket: "up", "down" (closed by the peer), "dead" (-1)
          sent,    \* commands the agent has got and not answered
          rpc, rmsg, rseen,  \* the reader: where it is, the answer it handles
          slot,    \* loop variable of throw_and_broadcast_err()
          hpc, hrid, hseen,  \* the thread that answers a command of the agent
          breaks, events,    \* disconnections; agent's commands and failed sends so far
          raced    \* history: was one of the windows hit?

callers == <<pc, rid, seen, req, res, reqs>>
reader == <<rpc, rmsg, rseen, slot>>
handler == <<hpc, hrid, hseen, events>>
vars == <<used, ctx, callers, conn, sent, reader, handler, breaks, raced>>

\* respStatus and respPayload: nothing (0, which is RC_OK), the answer to a
\* command, or an error.
Zero == [kind |-> "zero", req |-> 0]
Answer(n) == [kind |-> "answer", req |-> n]
Error(e) == [kind |-> e, req |-> 0]
Responses == {Zero} \cup {Answer(n) : n \in 1 .. MaxReq}
             \cup {Error(e) : e \in {"TIMEOUT", "CLOSED", "BUSY", "COMMUNICATION"}}

\* A slot after bzero().
Available == [status |-> "AVAILABLE", resp |-> Zero, sem |-> 0]

Messages == [rid : Rids, req : 1 .. MaxReq]
NoMsg == [rid |-> 0, req |-> 0]

TypeOK ==
  /\ used \subseteq Rids
  /\ ctx \in [Rids -> [status : {"AVAILABLE", "ALLOCATED", "TIMEDOUT", "ERROR"},
                       resp : Responses, sem : Nat]]
  /\ pc \in [Callers -> {"idle", "lookup", "cas", "init", "send", "wait", "expired",
                         "return", "status", "free", "clear"}]
  /\ rid \in [Callers -> Rids] /\ seen \in [Callers -> SUBSET Rids]
  /\ req \in [Callers -> 0 .. MaxReq] /\ reqs \in 0 .. MaxReq
  /\ res \in [Callers -> Responses \cup {Error("none")}]
  /\ conn \in {"up", "down", "dead"}
  /\ sent \subseteq Messages
  /\ rpc \in {"recv", "check", "store", "post", "clear", "broadcast", "reconnect", "giveup",
            "exit"}
  /\ rmsg \in Messages \cup {NoMsg}
  /\ rseen \subseteq Rids /\ slot \in 0 .. N
  /\ hpc \in {"none", "send", "clear"} /\ hrid \in Rids /\ hseen \subseteq Rids
  /\ breaks \in 0 .. MaxBreak /\ events \in 0 .. MaxEvents /\ raced \in BOOLEAN

Init ==
  /\ used = {}
  /\ ctx = [r \in Rids |-> Available]
  /\ pc = [c \in Callers |-> "idle"]
  /\ rid = [c \in Callers |-> 0]
  /\ seen = [c \in Callers |-> {}]
  /\ req = [c \in Callers |-> 0]
  /\ res = [c \in Callers |-> Error("none")]
  /\ reqs = 0
  /\ conn = "up"
  /\ sent = {}
  /\ rpc = "recv" /\ rmsg = NoMsg /\ rseen = {} /\ slot = 0
  /\ hpc = "none" /\ hrid = 0 /\ hseen = {}
  /\ breaks = 0 /\ events = 0 /\ raced = FALSE

-----------------------------------------------------------------------------
\* A step that hits a window if hit is true.
Window(hit) == raced' = (raced \/ hit)

\* compare_and_swap(&word, old, new); a failure is not noticed.
Swap(old, new) ==
  /\ used' = IF used = old THEN new ELSE used
  /\ Window(used # old)

\* freerequestid(r), up to its compare_and_swap
Wipe(r) == ctx' = [ctx EXCEPT ![r] = Available]

\* A caller between its timeout and its exit.
Expiring(r) ==
  \E c \in Callers : pc[c] \in {"expired", "return", "status"} /\ rid[c] = r

\* The reader holds sockLock while it connects again.
SockLocked == rpc = "reconnect"

\* malloc() or send() fails, at any time.
SendFails ==
  /\ conn = "up" => events < MaxEvents
  /\ events' = IF conn = "up" THEN events + 1 ELSE events

-----------------------------------------------------------------------------
\* emp_send_and_wait_response().

Call(c) ==
  /\ pc[c] = "idle" /\ reqs < MaxReq
  /\ IF conn = "dead"
     THEN /\ res' = [res EXCEPT ![c] = Error("COMMUNICATION")]
          /\ UNCHANGED <<pc, rid, req, reqs>>
     ELSE /\ reqs' = reqs + 1
          /\ req' = [req EXCEPT ![c] = reqs + 1]
          /\ res' = [res EXCEPT ![c] = Error("none")]
          /\ rid' = [rid EXCEPT ![c] = 0]
          /\ pc' = [pc EXCEPT ![c] = "lookup"]
  /\ UNCHANGED <<used, ctx, seen, conn, sent, reader, handler, breaks, raced>>

\* atomic_rid_lookup(): one turn of the loop is a read and a swap.
LookupRead(c) ==
  /\ pc[c] = "lookup"
  /\ seen' = [seen EXCEPT ![c] = used]
  /\ pc' = [pc EXCEPT ![c] = "cas"]
  /\ UNCHANGED <<used, ctx, rid, req, res, reqs, conn, sent, reader, handler, breaks, raced>>

\* The rid is taken if its bit was clear in the value the swap found, whether
\* or not the swap was done.
LookupSwap(c) ==
  /\ pc[c] = "cas"
  /\ Swap(seen[c], seen[c] \cup {rid[c]})
  /\ \/ /\ rid[c] \notin used
        /\ pc' = [pc EXCEPT ![c] = "init"]
        /\ UNCHANGED <<rid, res>>
     \/ /\ rid[c] \in used /\ rid[c] + 1 \in Rids
        /\ rid' = [rid EXCEPT ![c] = @ + 1]
        /\ pc' = [pc EXCEPT ![c] = "lookup"]
        /\ UNCHANGED res
     \/ /\ rid[c] \in used /\ rid[c] + 1 \notin Rids
        /\ res' = [res EXCEPT ![c] = Error("BUSY")]
        /\ pc' = [pc EXCEPT ![c] = "idle"]
        /\ UNCHANGED rid
  /\ seen' = [seen EXCEPT ![c] = {}]
  /\ UNCHANGED <<ctx, req, reqs, conn, sent, reader, handler, breaks>>

\* getrequestid(): the slot is allocated and its semaphore is created.
InitSlot(c) ==
  /\ pc[c] = "init"
  /\ Window(rpc \in {"broadcast", "giveup"} \/ conn = "down")
  /\ ctx' = [ctx EXCEPT ![rid[c]].status = "ALLOCATED", ![rid[c]].sem = 0]
  /\ pc' = [pc EXCEPT ![c] = "send"]
  /\ UNCHANGED <<used, rid, seen, req, res, reqs, conn, sent, reader, handler, breaks>>

\* emp_sendmessage() and ipc_send(), which waits for sockLock: it fails, or works,
\* but on a connection the peer has closed the bytes are lost.
Send(c) ==
  /\ pc[c] = "send" /\ ~SockLocked
  /\ \/ /\ conn = "up"
        /\ sent' = sent \cup {[rid |-> rid[c], req |-> req[c]]}
        /\ pc' = [pc EXCEPT ![c] = "wait"]
        /\ UNCHANGED <<res, events>>
     \/ /\ conn = "down"
        /\ pc' = [pc EXCEPT ![c] = "wait"]
        /\ UNCHANGED <<sent, res, events>>
     \/ /\ SendFails
        /\ res' = [res EXCEPT ![c] = Error("CLOSED")]
        /\ pc' = [pc EXCEPT ![c] = "free"]
        /\ UNCHANGED sent
  /\ UNCHANGED <<used, ctx, rid, seen, req, reqs, conn, reader, hpc, hrid, hseen, breaks, raced>>

\* sem_timedwait() succeeds.
Wake(c) ==
  /\ pc[c] = "wait" /\ ctx[rid[c]].sem > 0
  /\ ctx' = [ctx EXCEPT ![rid[c]].sem = @ - 1]
  /\ pc' = [pc EXCEPT ![c] = "return"]
  /\ UNCHANGED <<used, rid, seen, req, res, reqs, conn, sent, reader, handler, breaks, raced>>

\* sem_timedwait() returns -1 with errno EINTR, which is not tested.
Interrupt(c) ==
  /\ pc[c] = "wait"
  /\ Window(TRUE)
  /\ pc' = [pc EXCEPT ![c] = "return"]
  /\ UNCHANGED <<used, ctx, rid, seen, req, res, reqs, conn, sent, reader, handler, breaks>>

\* Mutant of Expire: sem_wait() instead of sem_timedwait().
NeverExpire(c) ==
  /\ pc[c] = "expired"
  /\ UNCHANGED vars

\* sem_timedwait() returns -1 with errno ETIMEDOUT.
Expire(c) ==
  /\ pc[c] = "wait" /\ ctx[rid[c]].sem = 0
  /\ Window(rpc \in {"check", "store", "post"} /\ rmsg.rid = rid[c])
  /\ pc' = [pc EXCEPT ![c] = "expired"]
  /\ UNCHANGED <<used, ctx, rid, seen, req, res, reqs, conn, sent, reader, handler, breaks>>

MarkTimedOut(c) ==
  /\ pc[c] = "expired"
  /\ ctx' = [ctx EXCEPT ![rid[c]].status = "TIMEDOUT", ![rid[c]].resp = Error("TIMEOUT")]
  /\ pc' = [pc EXCEPT ![c] = "return"]
  /\ UNCHANGED <<used, rid, seen, req, res, reqs, conn, sent, reader, handler, breaks, raced>>

ReadResult(c) ==
  /\ pc[c] = "return"
  /\ res' = [res EXCEPT ![c] = ctx[rid[c]].resp]
  /\ pc' = [pc EXCEPT ![c] = "status"]
  /\ UNCHANGED <<used, ctx, rid, seen, req, reqs, conn, sent, reader, handler, breaks, raced>>

\* Mutant of Return: the rid of a command that timed out is freed at once.
ReturnFrees(c) ==
  /\ pc[c] = "status"
  /\ pc' = [pc EXCEPT ![c] = "free"]
  /\ UNCHANGED <<used, ctx, rid, seen, req, res, reqs, conn, sent, reader, handler, breaks, raced>>

\* The slot is left to the late answer if the command timed out.
Return(c) ==
  /\ pc[c] = "status"
  /\ pc' = [pc EXCEPT ![c] = IF ctx[rid[c]].status = "TIMEDOUT" THEN "idle" ELSE "free"]
  /\ UNCHANGED <<used, ctx, rid, seen, req, res, reqs, conn, sent, reader, handler, breaks, raced>>

\* freerequestid()
Free(c) ==
  /\ pc[c] = "free"
  /\ Wipe(rid[c])
  /\ seen' = [seen EXCEPT ![c] = used]
  /\ pc' = [pc EXCEPT ![c] = "clear"]
  /\ UNCHANGED <<used, rid, req, res, reqs, conn, sent, reader, handler, breaks, raced>>

FreeSwap(c) ==
  /\ pc[c] = "clear"
  /\ Swap(seen[c], seen[c] \ {rid[c]})
  /\ seen' = [seen EXCEPT ![c] = {}]
  /\ pc' = [pc EXCEPT ![c] = "idle"]
  /\ UNCHANGED <<ctx, rid, req, res, reqs, conn, sent, reader, handler, breaks>>

-----------------------------------------------------------------------------
\* The reader thread and the agent.

\* reader_emp_parse(): the agent's answer to one of the commands it got.
ReaderGets(m) ==
  /\ rpc = "recv" /\ m \in sent
  /\ sent' = sent \ {m}
  /\ rmsg' = m
  /\ rpc' = "check"
  /\ UNCHANGED <<used, ctx, callers, conn, rseen, slot, handler, breaks, raced>>

\* reader_dispatch_message(), for an answer: the state of the slot is tested...
ReaderChecks ==
  LET r == rmsg.rid IN
  /\ rpc = "check"
  /\ Window(Expiring(r))
  /\ \/ /\ ctx[r].status = "ALLOCATED"
        /\ rpc' = "store"
        /\ UNCHANGED <<ctx, rseen>>
     \/ /\ ctx[r].status = "TIMEDOUT"
        /\ Wipe(r)
        /\ rseen' = used
        /\ rpc' = "clear"
     \/ /\ ctx[r].status \in {"AVAILABLE", "ERROR"}
        /\ rpc' = "recv"
        /\ UNCHANGED <<ctx, rseen>>
  /\ UNCHANGED <<used, callers, conn, sent, rmsg, slot, handler, breaks>>

\* ... then the answer is stored...
ReaderStores ==
  /\ rpc = "store"
  /\ ctx' = [ctx EXCEPT ![rmsg.rid].resp = Answer(rmsg.req)]
  /\ rpc' = "post"
  /\ UNCHANGED <<used, callers, conn, sent, rmsg, rseen, slot, handler, breaks, raced>>

\* ... and the caller is woken up.
ReaderPosts ==
  /\ rpc = "post"
  /\ ctx' = [ctx EXCEPT ![rmsg.rid].sem = @ + 1]
  /\ rpc' = "recv"
  /\ UNCHANGED <<used, callers, conn, sent, rmsg, rseen, slot, handler, breaks, raced>>

ReaderClears ==
  /\ rpc = "clear"
  /\ Swap(rseen, rseen \ {rmsg.rid})
  /\ rseen' = {}
  /\ rpc' = "recv"
  /\ UNCHANGED <<ctx, callers, conn, sent, rmsg, slot, handler, breaks>>

\* The agent closes the connection; the answers it sent before can be read.
Break ==
  /\ conn = "up" /\ breaks < MaxBreak
  /\ conn' = "down"
  /\ sent' \in SUBSET sent
  /\ breaks' = breaks + 1
  /\ UNCHANGED <<used, ctx, callers, reader, handler, raced>>

\* ipc_read(): recv() returns 0 or an error.  A reset is broadcast before the
\* reconnection; with a stale errno the socket is given up.
Notice ==
  /\ rpc = "recv" /\ conn = "down" /\ sent = {}
  /\ Window(\E c \in Callers : pc[c] = "send")
  /\ rpc' \in {"broadcast", "giveup"}
  /\ slot' = 0
  /\ UNCHANGED <<used, ctx, callers, conn, sent, rmsg, rseen, handler, breaks>>

\* throw_and_broadcast_err(), one slot.
Broadcast ==
  /\ rpc \in {"broadcast", "giveup"} /\ slot < N
  /\ Window(Expiring(slot))
  /\ ctx' = IF ctx[slot].status = "ALLOCATED"
            THEN [ctx EXCEPT ![slot] = [status |-> "ERROR", resp |-> Error("CLOSED"), sem |-> @.sem + 1]]
            ELSE ctx
  /\ slot' = slot + 1
  /\ UNCHANGED <<used, callers, conn, sent, rpc, rmsg, rseen, handler, breaks>>

\* ipc_reconnect() takes sockLock; a socket that is given up is closed.
Closes ==
  /\ slot = N
  /\ \/ rpc = "broadcast" /\ rpc' = "reconnect" /\ UNCHANGED conn
     \/ rpc = "giveup" /\ rpc' = "exit" /\ conn' = "dead"
  /\ UNCHANGED <<used, ctx, callers, sent, rmsg, rseen, slot, handler, breaks, raced>>

\* connect() succeeds, or fails for the last time.  The tries are one: what a
\* caller finds between two of them it finds before the first.
Reconnect ==
  /\ rpc = "reconnect"
  /\ \/ rpc' = "recv" /\ conn' = "up" /\ UNCHANGED slot
     \/ rpc' = "giveup" /\ slot' = 0 /\ UNCHANGED conn
  /\ UNCHANGED <<used, ctx, callers, sent, rmsg, rseen, handler, breaks, raced>>

-----------------------------------------------------------------------------
\* A command of the agent: thread_cmd_routine() runs the handler and answers
\* with the agent's rid; if malloc() or send() fails, emp_sendmessage() frees that
\* rid.
AgentCommand(r) ==
  /\ conn = "up" /\ rpc = "recv" /\ hpc = "none" /\ events < MaxEvents
  /\ hpc' = "send" /\ hrid' = r /\ events' = events + 1
  /\ UNCHANGED <<used, ctx, callers, conn, sent, reader, hseen, breaks, raced>>

HandlerSends ==
  /\ hpc = "send" /\ ~SockLocked
  /\ \/ /\ hpc' = "none"
        /\ UNCHANGED <<ctx, hseen, events, raced>>
     \/ /\ conn # "dead" /\ SendFails
        /\ Wipe(hrid)
        /\ Window(hrid \in used)
        /\ hseen' = used
        /\ hpc' = "clear"
  /\ UNCHANGED <<used, callers, conn, sent, reader, hrid, breaks>>

HandlerClears ==
  /\ hpc = "clear"
  /\ Swap(hseen, hseen \ {hrid})
  /\ hseen' = {}
  /\ hpc' = "none"
  /\ UNCHANGED <<ctx, callers, conn, sent, reader, hrid, events, breaks>>

-----------------------------------------------------------------------------
CallerStep(c) ==
  \/ LookupRead(c) \/ LookupSwap(c) \/ InitSlot(c) \/ Send(c)
  \/ Wake(c) \/ Expire(c) \/ MarkTimedOut(c) \/ ReadResult(c) \/ Return(c)
  \/ Free(c) \/ FreeSwap(c)

ReaderStep ==
  ReaderChecks \/ ReaderStores \/ ReaderPosts \/ ReaderClears \/ Notice \/ Broadcast \/ Closes \/ Reconnect

HandlerStep == HandlerSends \/ HandlerClears

Next ==
  \/ \E c \in Callers : Call(c) \/ CallerStep(c) \/ Interrupt(c)
  \/ ReaderStep \/ HandlerStep \/ Break
  \/ \E m \in sent : ReaderGets(m)
  \/ \E r \in Rids : AgentCommand(r)

Spec == Init /\ [][Next]_vars

\* A thread that calls is scheduled, the timeout of sem_timedwait() elapses, and
\* connect() returns.  The agent may never answer, and the thread that reads its
\* answers may stall everywhere else.
Fairness == WF_vars(Reconnect) /\ \A c \in Callers : WF_vars(CallerStep(c))

FairSpec == Spec /\ Fairness

-----------------------------------------------------------------------------
\* Properties.

\* The callers that own a rid.
Holds(c, r) ==
  rid[c] = r /\ pc[c] \in {"init", "send", "wait", "expired", "return", "status", "free", "clear"}

\* As long as no window was hit, two threads never own the same request id: the
\* allocation of slots is as atomic as its comment says (atomic_rid_lookup,
\* freerequestid).  Nor is a rid whose command is still to be answered given to
\* another command, or the answer would go to the wrong caller.
RidExclusive ==
  /\ TypeOK
  /\ ~raced => /\ \A c, d \in Callers, r \in Rids : Holds(c, r) /\ Holds(d, r) => c = d
               /\ \A m \in sent : /\ m.rid \in used
                                  /\ \A c \in Callers : Holds(c, m.rid) => req[c] = m.req

\* As long as no window was hit, a call that returns a status of the agent, or
\* RC_OK, returns the one of the answer to its own command, however late the
\* other answers come and however the rids are used again
\* (emp_send_and_wait_response, reader_dispatch_message).
AnswerMatches ==
  ~raced => \A c \in Callers : res[c].kind \in {"zero", "answer"} => res[c] = Answer(req[c])

\* As long as no window was hit and the connection did not break, the slots are
\* not lost: one that is marked used has an owner, or waits for an answer that
\* can still come.
NoSlotLost ==
  ~raced /\ breaks = 0 => \A r \in used :
    \/ \E c \in Callers : Holds(c, r)
    \/ ctx[r].status = "TIMEDOUT"
         /\ \/ \E m \in sent : m.rid = r
            \/ rpc = "check" /\ rmsg.rid = r
    \/ rpc = "clear" /\ rmsg.rid = r

\* The three together: what a caller is told is about its own command.
AnswersAreOwn == RidExclusive /\ AnswerMatches /\ NoSlotLost

\* Every call returns, even if the agent never answers, the reader stalls where
\* it does not hold sockLock, the connection breaks in the middle and slots are
\* wiped under the caller's feet.
CallReturns == \A c \in Callers : pc[c] # "idle" ~> pc[c] = "idle"
=============================================================================
