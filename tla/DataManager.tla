---------------------------- MODULE DataManager ----------------------------
\* The way of an asset's data to the server: the tables of the data manager
\* (agent/asscon/datamanager.lua, StageDB), the queue and the sessions of the
\* server connector (agent/srvcon.lua), the network manager's second try
\* (agent/netman.lua) and the default M3DA session over TCP.  Everything a Lua
\* task does between two blocking calls is one step.  The tables belong to one
\* policy; a row is a number, a message is the set of the rows in it.
EXTENDS Naturals, Sequences, FiniteSets

CONSTANTS
  Tables,       \* tables filled by TableRow and by PData
  Records,      \* those of PData, P.records
  MaxRows,      \* maxrows of the tables that have one, 0 for the others
  RowBound,     \* bound: rows of a behaviour
  FailBound     \* bound: failures of the network or of the server

ASSUME DataManagerAssumption ==
  /\ Records \subseteq Tables
  /\ MaxRows \in [Tables -> Nat]
  /\ \A t \in Records : MaxRows[t] = 0
  /\ RowBound \in Nat /\ FailBound \in Nat

VARIABLES
  rows,        \* the content of each table
  ser,         \* tables in the state "serializing" of StageDB
  inprogress,  \* sdb_sendings_in_progress
  queue,       \* srvcon.sourcefactories and srvcon.pendingcallbacks
  sess,        \* the running dosession(), which holds the lock of srvcon
  waiter,      \* a task waits for that lock
  wire,        \* envelopes on their way to the server
  answers,     \* how many statuses are on their way back
  got,         \* rows the server has accepted
  last,        \* the last row an asset gave
  exposed,     \* history: rows that a known window may lose
  dups,        \* history: rows the server received again
  again,       \* history: rows that were sent without being removed
  fails        \* failures so far

vars == <<rows, ser, inprogress, queue, sess, waiter, wire, answers, got, last,
          exposed, dups, again, fails>>

Rows == 1 .. RowBound
Jobs == [t : Tables, keep : BOOLEAN]
Of(jobs) == {j.t : j \in jobs}
Stored == UNION {rows[t] : t \in Tables}

Sessions ==
  [st : {"none", "sending", "answer", "failed"}, jobs : SUBSET Jobs, todo : SUBSET Jobs,
   cur : SUBSET Tables, env : SUBSET Rows, try : 0 .. 2]

NoSession == [st |-> "none", jobs |-> {}, todo |-> {}, cur |-> {}, env |-> {}, try |-> 0]

\* One call of session.send: the factories are called, which cancel what is
\* left of an earlier serialization, then the envelope is sent.
Attempt(jobs, n) ==
  [st |-> "sending", jobs |-> jobs, todo |-> jobs, cur |-> {}, env |-> {}, try |-> n]

Init ==
  /\ rows = [t \in Tables |-> {}] /\ ser = {}
  /\ inprogress = {} /\ queue = {}
  /\ sess = NoSession /\ waiter = FALSE
  /\ wire = << >> /\ answers = 0
  /\ got = {} /\ last = 0
  /\ exposed = {} /\ dups = {} /\ again = {} /\ fails = 0

-----------------------------------------------------------------------------
\* srvcon.dosession with the queue q, up to its first wait: refused if a task
\* waits already, blocked if a session is running, else it takes the queue.
DoSession(q) ==
  \/ waiter /\ queue' = q /\ UNCHANGED <<sess, waiter, ser>>
  \/ ~waiter /\ sess.st # "none"
     /\ waiter' = TRUE /\ queue' = q /\ UNCHANGED <<sess, ser>>
  \/ ~waiter /\ sess.st = "none"
     /\ sess' = Attempt(q, 1) /\ queue' = {} /\ ser' = ser \ Of(q)
     /\ UNCHANGED waiter

\* The tables of ts that sdb2srv gives to the server connector.
Unsent(r, ts) == {t \in ts \ inprogress : r[t] # {}}

\* sdb2srv for the tables ts, which hold r, and a connection if it was needed.
Send(r, ts, keep) ==
  LET new == Unsent(r, ts)
      q   == queue \cup {[t |-> t, keep |-> keep] : t \in new}
  IN  /\ inprogress' = inprogress \cup new
      /\ IF new = {} THEN UNCHANGED <<queue, sess, waiter, ser>> ELSE DoSession(q)

\* A row for t: a table that is being serialized takes none.  A row that comes
\* after its table was put in the envelope is erased with the table when the
\* session ends well.
Taken(t) == IF t \in ser THEN rows ELSE [rows EXCEPT ![t] = @ \cup {last + 1}]

Give(t) ==
  /\ last < RowBound /\ last' = last + 1
  /\ rows' = Taken(t)
  /\ exposed' = IF t \in ser \/ t \in Of(sess.jobs) \ Of(sess.todo)
                THEN exposed \cup {last + 1} ELSE exposed
  /\ UNCHANGED <<wire, answers, got, dups, again, fails>>

\* The asset is told when its row was refused; a full table is flushed.
TableRow(t) ==
  /\ t \notin Records
  /\ Give(t)
  /\ IF MaxRows[t] > 0 /\ Cardinality(Taken(t)[t]) >= MaxRows[t]
     THEN Send(Taken(t), {t}, FALSE)
     ELSE UNCHANGED <<inprogress, queue, sess, waiter, ser>>

\* The asset is not told.
PData(t) ==
  /\ t \in Records
  /\ Give(t)
  /\ UNCHANGED <<inprogress, queue, sess, waiter, ser>>

\* PFlush and the timers of the policy: send_policy, then a connection.
Flush ==
  /\ Send(rows, Tables, FALSE)
  /\ UNCHANGED <<rows, wire, answers, got, last, exposed, dups, again, fails>>

\* SendTrigger, with or without dont_reset.
SendTrigger(t, keep) ==
  /\ t \notin Records
  /\ Send(rows, {t}, keep)
  /\ UNCHANGED <<rows, wire, answers, got, last, exposed, dups, again, fails>>

\* Mutant: a connection is made only while a session is running.
ConnectBusy ==
  /\ sess.st # "none" /\ DoSession(queue)
  /\ UNCHANGED <<rows, inprogress, wire, answers, got, last, exposed, dups, again, fails>>

\* ConnectToServer and the connections of config.server.autoconnect.
Connect ==
  /\ DoSession(queue)
  /\ UNCHANGED <<rows, inprogress, wire, answers, got, last, exposed, dups, again, fails>>

\* The task that waits for the lock gets it.
WaiterStarts ==
  /\ waiter /\ sess.st = "none"
  /\ waiter' = FALSE
  /\ sess' = Attempt(queue, 1) /\ queue' = {} /\ ser' = ser \ Of(queue)
  /\ UNCHANGED <<rows, inprogress, wire, answers, got, last, exposed, dups, again, fails>>

-----------------------------------------------------------------------------
\* The pump reads the first block of a table, which is locked until the last.
Serialize(j) ==
  /\ sess.st = "sending" /\ sess.cur = {} /\ j \in sess.todo
  /\ sess' = [sess EXCEPT !.todo = @ \ {j}, !.cur = {j.t}, !.env = @ \cup rows[j.t]]
  /\ ser' = ser \cup {j.t}
  /\ dups' = dups \cup (sess.env \cap rows[j.t])
  /\ again' = IF j.keep THEN again \cup rows[j.t] ELSE again
  /\ UNCHANGED <<rows, inprogress, queue, waiter, wire, answers, got, last, exposed, fails>>

Serialized ==
  /\ sess.st = "sending" /\ sess.cur # {}
  /\ sess' = [sess EXCEPT !.cur = {}]
  /\ ser' = ser \ sess.cur
  /\ UNCHANGED <<rows, inprogress, queue, waiter, wire, answers, got, last, exposed,
                 dups, again, fails>>

\* The envelope is closed; session.send waits for a status.
AllSent ==
  /\ sess.st = "sending" /\ sess.cur = {} /\ sess.todo = {}
  /\ sess' = [sess EXCEPT !.st = "answer"]
  /\ wire' = Append(wire, sess.env)
  /\ UNCHANGED <<rows, ser, inprogress, queue, waiter, answers, got, last, exposed,
                 dups, again, fails>>

\* The server accepts an envelope or answers with a status that is not 2xx.
ServerAnswers(ok) ==
  /\ wire # << >>
  /\ ok \/ fails < FailBound
  /\ fails' = IF ok THEN fails ELSE fails + 1
  /\ wire' = Tail(wire)
  /\ answers' = answers + 1
  /\ LET env == Head(wire)
     IN  IF ok THEN /\ got' = got \cup env
                    /\ dups' = dups \cup (env \cap got)
                    /\ UNCHANGED exposed
         ELSE /\ exposed' = exposed \cup env
              /\ UNCHANGED <<got, dups>>
  /\ UNCHANGED <<rows, ser, inprogress, queue, sess, waiter, last, again>>

\* The sink signals a status; the session that waits for one takes it for its
\* own, calls the callbacks of the sources it has sent and gives the lock back.
\* Without a session the signal is lost.  The session's own status comes last.
Answer ==
  /\ answers > 0 /\ answers' = answers - 1
  /\ IF sess.st = "answer"
     THEN /\ rows' = [t \in Tables |->
                        IF [t |-> t, keep |-> FALSE] \in sess.jobs THEN {} ELSE rows[t]]
          /\ inprogress' = inprogress \ Of(sess.jobs)
          /\ exposed' = IF answers > 1 \/ wire # << >> THEN exposed \cup sess.env ELSE exposed
          /\ sess' = NoSession
     ELSE UNCHANGED <<rows, inprogress, exposed, sess>>
  /\ UNCHANGED <<ser, queue, waiter, wire, got, last, dups, again, fails>>

-----------------------------------------------------------------------------
\* An attempt fails: no status within 60 s, or no connection.
Failed ==
  /\ fails < FailBound /\ fails' = fails + 1
  /\ sess' = [sess EXCEPT !.st = IF @ = "none" THEN @ ELSE "failed"]
  /\ again' = again \cup sess.env
  /\ exposed' = exposed \ Stored
  /\ UNCHANGED <<rows, ser, inprogress, queue, waiter, got, last, dups>>

NoAnswer ==
  /\ sess.st = "answer"
  /\ Failed
  /\ UNCHANGED <<wire, answers>>

ConnectionLost ==
  /\ sess.st \in {"sending", "answer"} \/ wire # << >> \/ answers > 0
  /\ Failed
  /\ wire' = << >> /\ answers' = 0

\* withnetwork: the bearer is mounted again and the action retried, once.
Retry ==
  /\ sess.st = "failed" /\ sess.try = 1
  /\ sess' = Attempt(sess.jobs, 2)
  /\ ser' = ser \ Of(sess.jobs)
  /\ UNCHANGED <<rows, inprogress, queue, waiter, wire, answers, got, last, exposed,
                 dups, again, fails>>

\* Mutant of GiveUp: the callbacks are called as after a success.
GiveUpResets ==
  /\ sess.st = "failed"
  /\ rows' = [t \in Tables |-> IF t \in Of(sess.jobs) THEN {} ELSE rows[t]]
  /\ inprogress' = inprogress \ Of(sess.jobs) /\ ser' = ser \ Of(sess.jobs)
  /\ sess' = NoSession
  /\ UNCHANGED <<queue, waiter, wire, answers, got, last, exposed, dups, again, fails>>

\* dosession: rollback_session, and the lock is given back.
GiveUp ==
  /\ sess.st = "failed"
  /\ queue' = queue \cup sess.jobs
  /\ sess' = NoSession
  /\ UNCHANGED <<rows, ser, inprogress, waiter, wire, answers, got, last, exposed,
                 dups, again, fails>>

-----------------------------------------------------------------------------
Next ==
  \/ \E t \in Tables : TableRow(t) \/ PData(t)
  \/ Flush
  \/ \E t \in Tables, keep \in BOOLEAN : SendTrigger(t, keep)
  \/ Connect \/ WaiterStarts
  \/ \E j \in Jobs : Serialize(j)
  \/ Serialized \/ AllSent
  \/ \E ok \in BOOLEAN : ServerAnswers(ok)
  \/ Answer \/ NoAnswer \/ ConnectionLost \/ Retry \/ GiveUp

\* The task of the session that runs.
SessionStep ==
  \/ \E j \in Jobs : Serialize(j)
  \/ Serialized \/ AllSent \/ Retry \/ GiveUp

\* What the scheduler, the network after its failures and the server do, and
\* the period of config.server.autoconnect, which connects again and again.
Fairness ==
  /\ WF_vars(WaiterStarts) /\ WF_vars(SessionStep) /\ WF_vars(Connect)
  /\ WF_vars(\E ok \in BOOLEAN : ServerAnswers(ok)) /\ WF_vars(Answer)

FairSpec == Init /\ [][Next]_vars /\ Fairness

-----------------------------------------------------------------------------
TypeOK ==
  /\ rows \in [Tables -> SUBSET Rows]
  /\ ser \subseteq Tables /\ inprogress \subseteq Tables /\ queue \subseteq Jobs
  /\ sess \in Sessions
  /\ waiter \in BOOLEAN /\ wire \in Seq(SUBSET Rows) /\ answers \in Nat
  /\ got \subseteq Rows /\ last \in 0 .. RowBound /\ fails \in 0 .. FailBound

\* A table whose flag in sdb_sendings_in_progress is set is in the queue or in
\* the running session, and only there, and so is a table that is locked by
\* its serialization: rollbacks, retries and callbacks never leave behind a
\* table that no session will send and that no flush can give again.
SendingHasOwner ==
  /\ TypeOK
  /\ inprogress = Of(queue) \cup Of(sess.jobs)
  /\ Of(queue) \cap Of(sess.jobs) = {}
  /\ ser \subseteq inprogress

\* A row that was stored is in its table until the server has accepted it,
\* whatever fails and is retried.  The code gives some rows up: a row stored
\* between the serialization of its table and the end of the session, a row
\* sent while the table was serialized, the rows of a session that ended with
\* an error status or with the late status of a session that had timed out.
NoRowLost == (1 .. last) \ exposed \subseteq got \cup Stored

\* The server gets a row twice only if an attempt that had sent it failed, or
\* if the asset asked to keep the table (dont_reset).
DuplicateMeansRetry == dups \subseteq again

\* The books are right at any time, whatever fails, times out or is retried: every
\* table on its way has one owner, no row is lost, none is sent twice unasked.
DataIsKept == SendingHasOwner /\ NoRowLost /\ DuplicateMeansRetry

\* A table that was given to the server connector is sent, and a task that
\* waits for the lock of a session gets it, provided that the network ends up
\* working and connections are made periodically.
FlushedIsSent ==
  /\ \A t \in Tables : t \in inprogress ~> t \notin inprogress
  /\ waiter ~> ~waiter
=============================================================================
