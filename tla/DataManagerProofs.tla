------------------------- MODULE DataManagerProofs -------------------------
\* That no table is left behind by the sessions of the server connector, for
\* any tables and rows.
EXTENDS DataManager, TLAPS

\* SendingHasOwner is not inductive: that a session without a lock has nothing
\* to send, that it sends only what it took, that the table it is reading is one
\* of them and that it has left no other table locked is needed when it ends,
\* fails or starts again.
IInv ==
  /\ SendingHasOwner
  /\ sess.todo \subseteq sess.jobs
  /\ sess.cur \subseteq Of(sess.jobs)
  /\ sess.st = "none" => sess.jobs = {}
  /\ sess.st = "sending" => ser \cap Of(sess.jobs) \subseteq sess.cur
  /\ sess.st = "answer" => ser \cap Of(sess.jobs) = {}

\* The tables of a set of jobs.
LEMMA OfFacts ==
  /\ Of({}) = {}
  /\ \A J, K : Of(J \cup K) = Of(J) \cup Of(K)
  /\ \A J, K : J \subseteq K => Of(J) \subseteq Of(K)
  /\ \A J : J \subseteq Jobs => Of(J) \subseteq Tables
  BY DEF Of, Jobs

\* The jobs that sdb2srv makes for the tables in new.
LEMMA NewJobs ==
  ASSUME NEW new \in SUBSET Tables, NEW keep \in BOOLEAN
  PROVE  /\ {[t |-> t, keep |-> keep] : t \in new} \subseteq Jobs
         /\ Of({[t |-> t, keep |-> keep] : t \in new}) = new
<1> DEFINE J == {[t |-> t, keep |-> keep] : t \in new}
<1>1. J \subseteq Jobs
  BY DEF Jobs
<1>2. \A x \in new : x \in Of(J)
  <2> SUFFICES ASSUME NEW x \in new PROVE x \in Of(J)
    OBVIOUS
  <2>1. [t |-> x, keep |-> keep] \in J /\ [t |-> x, keep |-> keep].t = x
    OBVIOUS
  <2> QED BY <2>1 DEF Of
<1>3. \A x \in Of(J) : x \in new
  BY DEF Of
<1> QED BY <1>1, <1>2, <1>3

\* The records that dosession() and session.send build are sessions.
LEMMA SessionTypes ==
  /\ NoSession \in Sessions
  /\ NoSession.jobs = {} /\ NoSession.todo = {} /\ NoSession.cur = {} /\ NoSession.st = "none"
  /\ \A J \in SUBSET Jobs, n \in 1 .. 2 :
       /\ Attempt(J, n) \in Sessions
       /\ Attempt(J, n).jobs = J /\ Attempt(J, n).todo = J /\ Attempt(J, n).cur = {}
       /\ Attempt(J, n).st = "sending"
<1>1. {} \in SUBSET Jobs /\ {} \in SUBSET Tables /\ {} \in SUBSET Rows
  OBVIOUS
<1>2. NoSession \in Sessions
  BY <1>1 DEF NoSession, Sessions
<1>3. \A J \in SUBSET Jobs, n \in 1 .. 2 : Attempt(J, n) \in Sessions
  BY <1>1 DEF Attempt, Sessions
<1> QED BY <1>2, <1>3 DEF NoSession, Attempt

\* Nothing is given to the server connector at first.
LEMMA InitIInv == Init => IInv
<1> SUFFICES ASSUME Init PROVE IInv
  OBVIOUS
<1>1. rows \in [Tables -> SUBSET Rows] /\ sess \in Sessions
  BY SessionTypes DEF Init
<1>2. wire \in Seq(SUBSET Rows) /\ last \in 0 .. RowBound /\ fails \in 0 .. FailBound
  BY DataManagerAssumption DEF Init
<1>3. TypeOK
  BY <1>1, <1>2, Zenon DEF Init, TypeOK
<1> QED BY <1>3, OfFacts DEF Init, IInv, SendingHasOwner, NoSession

\* dosession() keeps the queue and the sessions apart, whichever of its three
\* ways it takes.
LEMMA DoSessionKeeps ==
  ASSUME IInv, NEW new \in SUBSET (Tables \ inprogress), NEW keep \in BOOLEAN,
         DoSession(queue \cup {[t |-> t, keep |-> keep] : t \in new}),
         inprogress' = inprogress \cup new,
         rows' \in [Tables -> SUBSET Rows], last' \in 0 .. RowBound,
         UNCHANGED <<wire, answers, got, fails>>
  PROVE  IInv'
<1> DEFINE q == queue \cup {[t |-> t, keep |-> keep] : t \in new}
<1>0. new \subseteq Tables
  OBVIOUS
<1>1. q \subseteq Jobs /\ Of(q) = Of(queue) \cup new
  <2>1. queue \subseteq Jobs
    BY DEF IInv, SendingHasOwner, TypeOK
  <2>2. /\ {[t |-> t, keep |-> keep] : t \in new} \subseteq Jobs
        /\ Of({[t |-> t, keep |-> keep] : t \in new}) = new
    BY <1>0, NewJobs, Zenon
  <2>3. Of(q) = Of(queue) \cup Of({[t |-> t, keep |-> keep] : t \in new})
    BY OfFacts
  <2> QED BY <2>1, <2>2, <2>3, Zenon
<1>2. CASE waiter /\ queue' = q /\ UNCHANGED <<sess, waiter, ser>>
  BY <1>0, <1>1, <1>2 DEF IInv, SendingHasOwner, TypeOK
<1>3. CASE ~waiter /\ sess.st # "none" /\ waiter' = TRUE /\ queue' = q /\ UNCHANGED <<sess, ser>>
  BY <1>0, <1>1, <1>3 DEF IInv, SendingHasOwner, TypeOK
<1>4. CASE ~waiter /\ sess.st = "none" /\ sess' = Attempt(q, 1) /\ queue' = {}
           /\ ser' = ser \ Of(q) /\ UNCHANGED waiter
  BY <1>0, <1>1, <1>4, OfFacts, SessionTypes DEF IInv, SendingHasOwner, TypeOK
<1> QED BY <1>2, <1>3, <1>4, Zenon DEF DoSession

\* Rows, flushes and triggers: sdb2srv gives only tables that are not being sent.
LEMMA SendKeeps ==
  ASSUME IInv, NEW r, NEW ts \in SUBSET Tables, NEW keep \in BOOLEAN, Send(r, ts, keep),
         rows' \in [Tables -> SUBSET Rows], last' \in 0 .. RowBound,
         UNCHANGED <<wire, answers, got, fails>>
  PROVE  IInv'
<1>1. Unsent(r, ts) \in SUBSET (Tables \ inprogress)
  BY DEF Unsent
<1>2. CASE Unsent(r, ts) = {}
  BY <1>2 DEF Send, IInv, SendingHasOwner, TypeOK
<1>3. CASE Unsent(r, ts) # {}
  BY <1>1, <1>3, DoSessionKeeps DEF Send
<1> QED BY <1>2, <1>3

LEMMA GiveKeeps ==
  ASSUME IInv, NEW t \in Tables, Give(t)
  PROVE  /\ rows' \in [Tables -> SUBSET Rows] /\ last' \in 0 .. RowBound
         /\ UNCHANGED <<wire, answers, got, fails>>
  BY DataManagerAssumption DEF Give, Taken, IInv, SendingHasOwner, TypeOK, Rows

\* One step of anybody keeps the invariant.
LEMMA NextKeepsIInv == IInv /\ [Next]_vars => IInv'
<1> SUFFICES ASSUME IInv, [Next]_vars PROVE IInv'
  OBVIOUS
<1> USE DataManagerAssumption
<1>0. rows \in [Tables -> SUBSET Rows] /\ last \in 0 .. RowBound
  BY DEF IInv, SendingHasOwner, TypeOK
<1>1. ASSUME NEW t \in Tables, TableRow(t) PROVE IInv'
  <2>1. CASE Send(Taken(t), {t}, FALSE)
    BY <1>1, <2>1, GiveKeeps, SendKeeps, Zenon DEF TableRow
  <2>2. CASE UNCHANGED <<inprogress, queue, sess, waiter, ser>>
    BY <1>1, <2>2, GiveKeeps, Zenon DEF TableRow, IInv, SendingHasOwner, TypeOK
  <2> QED BY <1>1, <2>1, <2>2, Zenon DEF TableRow
<1>2. ASSUME NEW t \in Tables, PData(t) PROVE IInv'
  BY <1>2, GiveKeeps DEF PData, IInv, SendingHasOwner, TypeOK
<1>3. CASE Flush
  BY <1>0, <1>3, SendKeeps, Zenon DEF Flush
<1>4. ASSUME NEW t \in Tables, NEW keep \in BOOLEAN, SendTrigger(t, keep) PROVE IInv'
  BY <1>0, <1>4, SendKeeps DEF SendTrigger
<1>5. CASE Connect
  <2>1. queue \cup {[t |-> t, keep |-> TRUE] : t \in {}} = queue
    OBVIOUS
  <2>2. {} \in SUBSET (Tables \ inprogress) /\ TRUE \in BOOLEAN
    OBVIOUS
  <2>3. DoSession(queue \cup {[t |-> t, keep |-> TRUE] : t \in {}})
    BY <1>5, <2>1, Zenon DEF Connect
  <2>4. /\ inprogress' = inprogress \cup {} /\ UNCHANGED <<wire, answers, got, fails>>
        /\ rows' \in [Tables -> SUBSET Rows] /\ last' \in 0 .. RowBound
    BY <1>0, <1>5 DEF Connect
  <2> QED BY <2>2, <2>3, <2>4, DoSessionKeeps, Zenon
<1>6. CASE WaiterStarts
  <2>1. queue \in SUBSET Jobs /\ sess.jobs = {}
    BY <1>6 DEF WaiterStarts, IInv, SendingHasOwner, TypeOK
  <2>2. /\ sess' \in Sessions /\ sess'.jobs = queue /\ sess'.todo = queue
        /\ sess'.cur = {} /\ sess'.st = "sending"
    BY <1>6, <2>1, SessionTypes DEF WaiterStarts
  <2>3. TypeOK'
    BY <1>6, <2>2, Zenon DEF WaiterStarts, IInv, SendingHasOwner, TypeOK
  <2>4. SendingHasOwner'
    BY <1>6, <2>1, <2>2, <2>3, OfFacts DEF WaiterStarts, IInv, SendingHasOwner
  <2> QED BY <1>6, <2>2, <2>4, OfFacts DEF WaiterStarts, IInv
<1>7. ASSUME NEW j \in Jobs, Serialize(j) PROVE IInv'
  <2>1. j.t \in Of(sess.jobs) /\ j.t \in Tables /\ rows[j.t] \subseteq Rows
    BY <1>7 DEF Serialize, IInv, SendingHasOwner, TypeOK, Of, Jobs
  <2>2. /\ sess' \in Sessions /\ sess'.jobs = sess.jobs /\ sess'.todo \subseteq sess.todo
        /\ sess'.cur = {j.t} /\ sess'.st = sess.st
    BY <1>7, <2>1, Zenon DEF Serialize, IInv, SendingHasOwner, TypeOK, Sessions
  <2> QED BY <1>7, <2>1, <2>2 DEF Serialize, IInv, SendingHasOwner, TypeOK
<1>8. CASE Serialized
  <2>1. /\ sess' \in Sessions /\ sess'.jobs = sess.jobs /\ sess'.todo = sess.todo
        /\ sess'.cur = {} /\ sess'.st = sess.st
    BY <1>8, Zenon DEF Serialized, IInv, SendingHasOwner, TypeOK, Sessions
  <2> QED BY <1>8, <2>1 DEF Serialized, IInv, SendingHasOwner, TypeOK
<1>9. CASE AllSent
  <2>1. /\ sess' \in Sessions /\ sess'.jobs = sess.jobs /\ sess'.todo = sess.todo
        /\ sess'.cur = sess.cur /\ sess'.st = "answer"
    BY <1>9, Zenon DEF AllSent, IInv, SendingHasOwner, TypeOK, Sessions
  <2>2. wire' \in Seq(SUBSET Rows)
    BY <1>9 DEF AllSent, IInv, SendingHasOwner, TypeOK, Sessions
  <2> QED BY <1>9, <2>1, <2>2 DEF AllSent, IInv, SendingHasOwner, TypeOK
<1>10. ASSUME NEW ok \in BOOLEAN, ServerAnswers(ok) PROVE IInv'
  <2>1. wire \in Seq(SUBSET Rows) /\ wire # << >> /\ got \subseteq Rows /\ answers \in Nat
    BY <1>10 DEF ServerAnswers, IInv, SendingHasOwner, TypeOK
  <2>2. Head(wire) \subseteq Rows /\ wire' \in Seq(SUBSET Rows)
    BY <1>10, <2>1 DEF ServerAnswers
  <2>3. got' \subseteq Rows /\ answers' \in Nat
    BY <1>10, <2>1, <2>2 DEF ServerAnswers
  <2> QED BY <1>10, <2>2, <2>3 DEF ServerAnswers, IInv, SendingHasOwner, TypeOK
<1>11. CASE Answer
  <2>0. answers' \in Nat
    BY <1>11 DEF Answer, IInv, SendingHasOwner, TypeOK
  <2>1. rows' \in [Tables -> SUBSET Rows] /\ answers' \in Nat
    <3>1. CASE sess.st = "answer"
      <4>1. \A t \in Tables :
              (IF [t |-> t, keep |-> FALSE] \in sess.jobs THEN {} ELSE rows[t]) \in SUBSET Rows
        BY <1>0
      <4> QED BY <1>11, <2>0, <3>1, <4>1, Zenon DEF Answer
    <3>2. CASE sess.st # "answer"
      BY <1>0, <1>11, <2>0, <3>2 DEF Answer
    <3> QED BY <3>1, <3>2
  <2>2. CASE sess.st = "answer"
    <3>1. ser \subseteq Of(queue)
      BY <2>2 DEF IInv, SendingHasOwner
    <3> QED BY <1>11, <2>1, <2>2, <3>1, OfFacts, SessionTypes, SMTT(30)
            DEF Answer, IInv, SendingHasOwner, TypeOK
  <2>3. CASE sess.st # "answer"
    BY <1>11, <2>1, <2>3 DEF Answer, IInv, SendingHasOwner, TypeOK
  <2> QED BY <2>2, <2>3
<1>12. CASE NoAnswer \/ ConnectionLost
  <2>1. /\ sess' \in Sessions /\ sess'.jobs = sess.jobs /\ sess'.todo = sess.todo
        /\ sess'.cur = sess.cur /\ sess'.st \in {"none", "failed"}
        /\ (sess'.st = "none" <=> sess.st = "none")
    BY <1>12 DEF NoAnswer, ConnectionLost, Failed, IInv, SendingHasOwner, TypeOK, Sessions
  <2>2. fails' \in 0 .. FailBound /\ answers' \in Nat
    BY <1>12 DEF NoAnswer, ConnectionLost, Failed, IInv, SendingHasOwner, TypeOK
  <2>3. wire' \in Seq(SUBSET Rows)
    <3>1. << >> \in Seq(SUBSET Rows) /\ wire \in Seq(SUBSET Rows)
      BY DEF IInv, SendingHasOwner, TypeOK
    <3> QED BY <1>12, <3>1, Zenon DEF NoAnswer, ConnectionLost
  <2> QED BY <1>12, <2>1, <2>2, <2>3, Zenon
          DEF NoAnswer, ConnectionLost, Failed, IInv, SendingHasOwner, TypeOK
<1>13. CASE Retry
  <2>1. sess.jobs \in SUBSET Jobs
    BY DEF IInv, SendingHasOwner, TypeOK, Sessions
  <2> QED BY <1>13, <2>1, OfFacts, SessionTypes DEF Retry, IInv, SendingHasOwner, TypeOK
<1>14. CASE GiveUp
  <2>1. sess.jobs \in SUBSET Jobs
    BY DEF IInv, SendingHasOwner, TypeOK, Sessions
  <2> QED BY <1>14, <2>1, OfFacts, SessionTypes DEF GiveUp, IInv, SendingHasOwner, TypeOK
<1>15. CASE UNCHANGED vars
  BY <1>15 DEF vars, IInv, SendingHasOwner, TypeOK
<1> QED BY <1>1, <1>2, <1>3, <1>4, <1>5, <1>6, <1>7, <1>8, <1>9, <1>10, <1>11, <1>12,
           <1>13, <1>14, <1>15 DEF Next

-----------------------------------------------------------------------------
\* What the rows of the tables, of the envelopes and of the server have to do
\* with each other.  Rows have the number of their TableRow or PData.
Numbered ==
  /\ got \subseteq 1 .. last
  /\ \A i \in 1 .. Len(wire) : wire[i] \subseteq 1 .. last
  /\ \A t \in Tables : rows[t] \subseteq 1 .. last

\* A row is in one table, a table in one job.
Apart ==
  /\ \A t, u \in Tables : t # u => rows[t] \cap rows[u] = {}
  /\ \A j, k \in queue \cup sess.jobs : j.t = k.t => j = k

\* What a session has put in its envelope is in the tables, with what was stored
\* too late to be, and will be removed from them unless it was asked not to.
Read ==
  sess.st \in {"sending", "answer"} =>
    /\ \A r \in sess.env : \E t \in Tables : r \in rows[t]
    /\ \A t \in Of(sess.jobs) \ Of(sess.todo) : rows[t] \subseteq sess.env \cup exposed
    /\ \A t \in Tables : \A r \in sess.env \cap rows[t] :
         [t |-> t, keep |-> FALSE] \in sess.jobs \ sess.todo \/ r \in again

\* The envelope of a session that waits is the last one sent, or it is answered.
Awaited ==
  sess.st = "answer" =>
    /\ sess.todo = {}
    /\ wire = << >> => answers > 0 /\ sess.env \subseteq got \cup exposed
    /\ wire # << >> => wire[Len(wire)] = sess.env

\* A row in two envelopes, or in an envelope and still in its table, was to be
\* sent again, but for those of a session that waits for its status.
SentOnce ==
  /\ \A i \in 1 .. Len(wire) : wire[i] \cap got \subseteq again
  /\ \A i, k \in 1 .. Len(wire) : i # k => wire[i] \cap wire[k] \subseteq again
  /\ \A t \in Tables : \A r \in rows[t] :
       (r \in got \/ \E i \in 1 .. Len(wire) : r \in wire[i]) =>
         r \in again \/ (sess.st = "answer" /\ r \in sess.env)

Books == Numbered /\ Apart /\ Read /\ Awaited /\ SentOnce /\ NoRowLost /\ DuplicateMeansRetry

\* NoRowLost without UNION.
LEMMA Lost == NoRowLost <=> \A r \in 1 .. last : r \in exposed \/ r \in got \/ \E t \in Tables : r \in rows[t]
  BY DEF NoRowLost, Stored

\* The session stays as it is, ends without an answer, or starts.
Restarts ==
  \/ /\ sess'.st = sess.st /\ sess'.jobs = sess.jobs /\ sess'.todo = sess.todo /\ sess'.env = sess.env
  \/ /\ sess.st # "answer"
     /\ \/ sess'.st = "none"
        \/ sess'.st = "sending" /\ sess'.env = {} /\ sess'.todo = sess'.jobs

\* Steps that touch only the queue and the session.
LEMMA QuietStep ==
  ASSUME Books, Apart', Restarts, UNCHANGED <<rows, wire, answers, got, last, exposed, dups, again>>
  PROVE  Books'
<1>1. Numbered' /\ NoRowLost' /\ DuplicateMeansRetry'
  BY DEF Books, Numbered, NoRowLost, Stored, DuplicateMeansRetry
<1>2. Read'
  BY DEF Books, Read, Restarts
<1>3. Awaited'
  BY DEF Books, Awaited, Restarts
<1>4. SentOnce'
  BY DEF Books, SentOnce, Restarts
<1> QED BY <1>1, <1>2, <1>3, <1>4 DEF Books

\* A row comes.
LEMMA GiveStep ==
  ASSUME IInv, Books, NEW t \in Tables, Give(t), Restarts,
         \A j, k \in queue' \cup sess'.jobs : j.t = k.t => j = k
  PROVE  Books'
<1> DEFINE n == last + 1
<1>1. /\ last \in Nat /\ last' = n /\ n \notin 1 .. last /\ 1 .. n = (1 .. last) \cup {n}
      /\ UNCHANGED <<wire, answers, got, dups, again>>
  BY DataManagerAssumption DEF IInv, SendingHasOwner, TypeOK, Give
<1>2. /\ exposed \subseteq exposed'
      /\ t \in ser \/ t \in Of(sess.jobs) \ Of(sess.todo) => n \in exposed'
  BY Zenon DEF Give
<1>3. /\ \A u \in Tables : u # t => rows'[u] = rows[u]
      /\ rows[t] \subseteq rows'[t] /\ rows'[t] \subseteq rows[t] \cup {n}
      /\ t \notin ser => n \in rows'[t]
  BY DEF Give, Taken, IInv, SendingHasOwner, TypeOK
<1> HIDE DEF n
<1>4. \A r \in 1 .. last : r # n
  BY <1>1
<1>5. Numbered'
  BY <1>1, <1>3, Zenon DEF Books, Numbered
<1>6. Apart'
  <2>1. \A u, v \in Tables : u # v => rows'[u] \cap rows'[v] = {}
    BY <1>3, <1>4, Zenon DEF Books, Apart, Numbered
  <2> QED BY <2>1 DEF Apart
<1>7. Read'
  <2> SUFFICES ASSUME sess'.st = sess.st, sess'.jobs = sess.jobs, sess'.todo = sess.todo, sess'.env = sess.env,
                      sess.st \in {"sending", "answer"}
               PROVE  Read'
    BY Zenon DEF Restarts, Read
  <2>1. \A r \in sess.env : \E u \in Tables : r \in rows'[u]
    BY <1>3, Zenon DEF Books, Read
  <2>2. \A r \in sess.env : r # n
    BY <1>4, Zenon DEF Books, Read, Numbered
  <2>3. \A u \in Of(sess.jobs) \ Of(sess.todo) : rows'[u] \subseteq sess.env \cup exposed'
    <3>1. \A u \in Of(sess.jobs) \ Of(sess.todo) : u \in Tables /\ rows[u] \subseteq sess.env \cup exposed
      BY OfFacts DEF Books, Read, IInv, SendingHasOwner, TypeOK, Sessions
    <3> QED BY <1>2, <1>3, <3>1, Zenon
  <2>4. \A u \in Tables : sess.env \cap rows'[u] \subseteq rows[u]
    BY <1>3, <2>2, Zenon
  <2> QED BY <1>1, <2>1, <2>3, <2>4, Zenon DEF Books, Read
<1>8. Awaited'
  BY <1>1, <1>2, Zenon DEF Books, Awaited, Restarts
<1>9. SentOnce'
  <2>1. \A u \in Tables : \A r \in rows'[u] : r = n \/ r \in rows[u]
    BY <1>3
  <2>2. n \notin got /\ \A i \in 1 .. Len(wire) : n \notin wire[i]
    BY <1>4, Zenon DEF Books, Numbered
  <2>3. ASSUME NEW u \in Tables, NEW r \in rows'[u], r \in got \/ \E i \in 1 .. Len(wire) : r \in wire[i]
        PROVE  r \in again \/ (sess'.st = "answer" /\ r \in sess'.env)
    <3>1. r \in rows[u]
      BY <2>1, <2>2, <2>3
    <3> QED BY <2>3, <3>1 DEF Books, SentOnce, Restarts
  <2> QED BY <1>1, <2>3 DEF Books, SentOnce
<1>10. NoRowLost'
  <2>1. ASSUME NEW r \in 1 .. n
        PROVE  r \in exposed' \/ r \in got \/ \E u \in Tables : r \in rows'[u]
    <3>1. CASE r = n
      BY <1>2, <1>3, <3>1
    <3>2. CASE r \in 1 .. last
      <4>1. r \in exposed \/ r \in got \/ \E u \in Tables : r \in rows[u]
        BY <3>2, Lost DEF Books
      <4> QED BY <1>2, <1>3, <4>1
    <3> QED BY <1>1, <3>1, <3>2
  <2> QED BY <1>1, <2>1 DEF NoRowLost, Stored
<1>11. DuplicateMeansRetry'
  BY <1>1 DEF Books, DuplicateMeansRetry
<1> QED BY <1>5, <1>6, <1>7, <1>8, <1>9, <1>10, <1>11, Zenon DEF Books

\* A table is put in the envelope.
LEMMA SerializeStep ==
  ASSUME IInv, Books, NEW j \in Jobs, Serialize(j)
  PROVE  Books'
<1> DEFINE t == j.t
<1>1. /\ j \in sess.todo /\ j \in sess.jobs /\ t \in Tables /\ j = [t |-> t, keep |-> j.keep] /\ j.keep \in BOOLEAN
      /\ sess.st = "sending"
  BY DEF Serialize, IInv, Jobs
<1>2. /\ sess'.st = "sending" /\ sess'.jobs = sess.jobs /\ sess'.todo = sess.todo \ {j}
      /\ sess'.env = sess.env \cup rows[t]
  BY <1>1 DEF Serialize, IInv, SendingHasOwner, TypeOK, Sessions
<1>3. /\ UNCHANGED <<rows, queue, wire, answers, got, last, exposed>>
      /\ again \subseteq again' /\ (j.keep => rows[t] \subseteq again')
      /\ dups' = dups \cup (sess.env \cap rows[t])
  BY DEF Serialize
<1>4. \A k \in sess.todo : k.t = t => k = j
  BY <1>1 DEF Books, Apart, IInv
<1>5. Numbered' /\ Apart'
  BY <1>2, <1>3, Zenon DEF Books, Numbered, Apart
<1> HIDE DEF t
<1>6. Read'
  <2>1. \A r \in sess'.env : \E u \in Tables : r \in rows[u]
    BY <1>1, <1>2 DEF Books, Read
  <2>2. ASSUME NEW u \in Of(sess.jobs) \ Of(sess'.todo)
        PROVE  rows[u] \subseteq sess'.env \cup exposed
    <3>1. CASE u = t
      BY <1>2, <3>1
    <3>2. CASE u # t
      <4>1. u \notin Of(sess.todo)
        BY <1>2, <2>2, <3>2 DEF Of, t
      <4> QED BY <1>1, <1>2, <2>2, <4>1 DEF Books, Read
    <3> QED BY <3>1, <3>2
  <2>3. ASSUME NEW u \in Tables, NEW r \in sess'.env \cap rows[u]
        PROVE  [t |-> u, keep |-> FALSE] \in sess.jobs \ sess'.todo \/ r \in again'
    <3>1. CASE r \in sess.env
      BY <1>1, <1>2, <1>3, <3>1 DEF Books, Read
    <3>2. CASE r \in rows[t]
      <4>1. u = t
        BY <1>1, <3>2, Zenon DEF Books, Apart
      <4>2. CASE j.keep
        BY <1>3, <3>2, <4>2, Zenon
      <4>3. CASE ~ j.keep
        <5>1. j = [t |-> u, keep |-> FALSE]
          BY <1>1, <4>1, <4>3
        <5> QED BY <1>1, <1>2, <5>1
      <4> QED BY <4>2, <4>3
    <3> QED BY <1>2, <3>1, <3>2
  <2> QED BY <1>2, <1>3, <2>1, <2>2, <2>3, Zenon DEF Read
<1>7. Awaited'
  BY <1>2, Zenon DEF Awaited
<1>8. SentOnce'
  BY <1>1, <1>2, <1>3 DEF Books, SentOnce
<1>9. NoRowLost'
  BY <1>3 DEF Books, NoRowLost, Stored
<1>10. DuplicateMeansRetry'
  <2>1. ASSUME NEW r \in sess.env \cap rows[t] PROVE r \in again
    <3>1. [t |-> t, keep |-> FALSE] \in sess.jobs \ sess.todo \/ r \in again
      BY <1>1, <2>1 DEF Books, Read
    <3>2. [t |-> t, keep |-> FALSE] \in sess.jobs => j = [t |-> t, keep |-> FALSE]
      BY <1>1 DEF Books, Apart, t
    <3> QED BY <1>1, <3>1, <3>2, Zenon
  <2> QED BY <1>3, <2>1 DEF Books, DuplicateMeansRetry
<1> QED BY <1>5, <1>6, <1>7, <1>8, <1>9, <1>10 DEF Books

\* The envelope is on its way.
LEMMA AllSentStep ==
  ASSUME IInv, Books, AllSent
  PROVE  Books'
<1> DEFINE m == Len(wire)
<1>1. /\ wire \in Seq(SUBSET Rows) /\ m \in Nat
      /\ wire' = Append(wire, sess.env) /\ Len(wire') = m + 1 /\ wire' # << >>
      /\ wire'[m + 1] = sess.env /\ \A i \in 1 .. m : wire'[i] = wire[i]
  BY SMTT(30) DEF AllSent, IInv, SendingHasOwner, TypeOK, Sessions
<1>2. \A i \in 1 .. m + 1 : i \in 1 .. m \/ i = m + 1
  BY <1>1
<1>3. /\ sess.st = "sending" /\ sess'.st = "answer" /\ sess'.jobs = sess.jobs /\ sess'.todo = sess.todo
      /\ sess'.env = sess.env /\ sess.todo = {}
      /\ UNCHANGED <<rows, queue, got, last, exposed, dups, again>>
  BY DEF AllSent, IInv, SendingHasOwner, TypeOK, Sessions
<1>4. \A r \in sess.env : \E t \in Tables : r \in rows[t]
  BY <1>3 DEF Books, Read
<1>5. Apart' /\ NoRowLost' /\ DuplicateMeansRetry'
  BY <1>3 DEF Books, Apart, NoRowLost, Stored, DuplicateMeansRetry
<1>6. Read'
  BY <1>3 DEF Books, Read
<1>7. Awaited'
  BY <1>1, <1>3 DEF Awaited
<1> HIDE DEF m
<1>8. Numbered'
  <2>1. sess.env \subseteq 1 .. last
    BY <1>4 DEF Books, Numbered
  <2>2. \A i \in 1 .. m + 1 : wire'[i] \subseteq 1 .. last
    BY <1>1, <1>2, <2>1, Zenon DEF Books, Numbered, m
  <2> QED BY <1>1, <1>3, <2>2 DEF Books, Numbered
<1>9. SentOnce'
  <2>1. ASSUME NEW r \in sess.env, r \in got \/ \E i \in 1 .. m : r \in wire[i]
        PROVE  r \in again
    <3>1. PICK t \in Tables : r \in rows[t]
      BY <1>4
    <3> QED BY <1>3, <2>1, <3>1 DEF Books, SentOnce, m
  <2>2. \A i \in 1 .. m + 1 : wire'[i] \cap got \subseteq again
    BY <1>1, <1>2, <2>1 DEF Books, SentOnce, m
  <2>3. \A i, k \in 1 .. m + 1 : i # k => wire'[i] \cap wire'[k] \subseteq again
    <3> SUFFICES ASSUME NEW i \in 1 .. m + 1, NEW k \in 1 .. m + 1, i # k,
                        NEW r \in wire'[i] \cap wire'[k]
                 PROVE  r \in again
      OBVIOUS
    <3>1. CASE i = m + 1
      BY <1>1, <1>2, <2>1, <3>1
    <3>2. CASE k = m + 1
      BY <1>1, <1>2, <2>1, <3>2, Zenon
    <3>3. CASE i \in 1 .. m /\ k \in 1 .. m
      BY <1>1, <3>3, Zenon DEF Books, SentOnce, m
    <3> QED BY <1>2, <3>1, <3>2, <3>3
  <2>4. ASSUME NEW t \in Tables, NEW r \in rows[t], r \in got \/ \E i \in 1 .. m + 1 : r \in wire'[i]
        PROVE  r \in again \/ r \in sess.env
    BY <1>1, <1>2, <1>3, <2>4 DEF Books, SentOnce, m
  <2> QED BY <1>1, <1>3, <2>2, <2>3, <2>4 DEF SentOnce
<1> QED BY <1>5, <1>6, <1>7, <1>8, <1>9 DEF Books

\* The server accepts or refuses the oldest envelope.
LEMMA ServerAnswersStep ==
  ASSUME IInv, Books, NEW ok \in BOOLEAN, ServerAnswers(ok)
  PROVE  Books'
<1> DEFINE m == Len(wire)
           env == wire[1]
<1>1. /\ wire \in Seq(SUBSET Rows) /\ m \in Nat /\ m > 0 /\ wire # << >> /\ answers \in Nat
      /\ Len(wire') = m - 1 /\ \A i \in 1 .. m - 1 : wire'[i] = wire[i + 1] /\ i \in 1 .. m /\ i + 1 \in 1 .. m
      /\ answers' = answers + 1 /\ (wire' = << >> <=> m = 1) /\ 1 \in 1 .. m
  <2>1. wire \in Seq(SUBSET Rows) /\ wire # << >> /\ answers \in Nat /\ answers' = answers + 1 /\ wire' = Tail(wire)
    BY DEF ServerAnswers, IInv, SendingHasOwner, TypeOK
  <2>2. m \in Nat /\ m > 0 /\ 1 \in 1 .. m
    BY <2>1
  <2>3. wire' \in Seq(SUBSET Rows) /\ Len(wire') = m - 1 /\ \A i \in 1 .. m - 1 : wire'[i] = wire[i + 1]
    BY <2>1
  <2>4. wire' = << >> <=> m = 1
    BY <2>2, <2>3
  <2>5. \A i \in 1 .. m - 1 : i \in 1 .. m /\ i + 1 \in 1 .. m
    BY <2>2
  <2> QED BY <2>1, <2>2, <2>3, <2>4, <2>5, Zenon
<1>2. /\ got \subseteq got' /\ got' \subseteq got \cup env
      /\ exposed \subseteq exposed' /\ env \subseteq got' \cup exposed'
      /\ dups' \subseteq dups \cup (env \cap got)
      /\ UNCHANGED <<rows, queue, sess, last, again>>
  BY <1>1 DEF ServerAnswers
<1> HIDE DEF m, env
<1>3. Numbered'
  BY <1>1, <1>2, Zenon DEF Books, Numbered, m, env
<1>4. Apart'
  BY <1>2 DEF Books, Apart
<1>5. Read'
  BY <1>2 DEF Books, Read
<1>6. Awaited'
  <2> SUFFICES ASSUME sess.st = "answer" PROVE Awaited'
    BY <1>2 DEF Awaited
  <2>1. sess.todo = {} /\ wire[m] = sess.env
    BY <1>1 DEF Books, Awaited, m
  <2>2. CASE m = 1
    <3>1. wire' = << >> /\ answers' > 0
      BY <1>1, <2>2
    <3>2. sess.env \subseteq got' \cup exposed'
      BY <1>2, <2>1, <2>2 DEF env
    <3> QED BY <1>2, <2>1, <3>1, <3>2 DEF Awaited
  <2>3. CASE m # 1
    <3>1. m - 1 \in 1 .. m - 1 /\ (m - 1) + 1 = m
      BY <1>1, <2>3
    <3>2. wire'[Len(wire')] = sess.env
      BY <1>1, <2>1, <3>1, Zenon
    <3> QED BY <1>1, <1>2, <2>1, <2>3, <3>2 DEF Awaited
  <2> QED BY <2>2, <2>3
<1>7. SentOnce'
  <2>1. ASSUME NEW i \in 1 .. m - 1, NEW r \in wire'[i] \cap got'
        PROVE  r \in again
    <3>1. r \in wire[i + 1] /\ i + 1 \in 1 .. m /\ i + 1 # 1
      BY <1>1
    <3>2. CASE r \in got
      BY <3>1, <3>2, Zenon DEF Books, SentOnce, m
    <3>3. CASE r \in wire[1]
      BY <1>1, <3>1, <3>3, Zenon DEF Books, SentOnce, m
    <3> QED BY <1>2, <3>2, <3>3 DEF env
  <2>2. ASSUME NEW i \in 1 .. m - 1, NEW k \in 1 .. m - 1, i # k, NEW r \in wire'[i] \cap wire'[k]
        PROVE  r \in again
    <3>1. r \in wire[i + 1] /\ r \in wire[k + 1] /\ i + 1 \in 1 .. m /\ k + 1 \in 1 .. m /\ i + 1 # k + 1
      BY <1>1, <2>2
    <3> QED BY <3>1 DEF Books, SentOnce, m
  <2>3. ASSUME NEW t \in Tables, NEW r \in rows[t], r \in got' \/ \E i \in 1 .. m - 1 : r \in wire'[i]
        PROVE  r \in got \/ \E i \in 1 .. m : r \in wire[i]
    BY <1>1, <1>2, <2>3, Zenon DEF env
  <2> QED BY <1>1, <1>2, <2>1, <2>2, <2>3 DEF Books, SentOnce, m
<1>8. NoRowLost'
  BY <1>2 DEF Books, NoRowLost, Stored
<1>9. DuplicateMeansRetry'
  <2>1. env \cap got \subseteq again
    BY <1>1 DEF Books, SentOnce, m, env
  <2> QED BY <1>2, <2>1 DEF Books, DuplicateMeansRetry
<1> QED BY <1>3, <1>4, <1>5, <1>6, <1>7, <1>8, <1>9 DEF Books

\* A status ends the session that waits for one.
LEMMA AnswerStep ==
  ASSUME IInv, Books, Answer
  PROVE  Books'
<1>1. UNCHANGED <<queue, wire, got, last, dups, again>> /\ answers \in Nat /\ answers > 0
  BY DEF Answer, IInv, SendingHasOwner, TypeOK
<1>2. CASE sess.st # "answer"
  <2>1. UNCHANGED <<rows, exposed, sess>>
    BY <1>2, Zenon DEF Answer
  <2>2. Numbered' /\ Apart' /\ NoRowLost' /\ DuplicateMeansRetry'
    BY <1>1, <2>1 DEF Books, Numbered, Apart, NoRowLost, Stored, DuplicateMeansRetry
  <2>3. Read' /\ SentOnce'
    BY <1>1, <2>1 DEF Books, Read, SentOnce
  <2>4. Awaited'
    BY <1>2, <2>1 DEF Awaited
  <2> QED BY <2>2, <2>3, <2>4 DEF Books
<1>3. CASE sess.st = "answer"
  <2>1. /\ \A t \in Tables : rows'[t] = IF [t |-> t, keep |-> FALSE] \in sess.jobs THEN {} ELSE rows[t]
        /\ exposed \subseteq exposed' /\ (answers > 1 \/ wire # << >> => sess.env \subseteq exposed')
        /\ sess'.st = "none" /\ sess'.jobs = {}
    BY <1>3, SessionTypes DEF Answer
  <2>2. sess.env \subseteq got \cup exposed'
    BY <1>1, <1>3, <2>1, Zenon DEF Books, Awaited
  <2>3. \A t \in Of(sess.jobs) : rows[t] \subseteq got \cup exposed'
    <3>1. \A t \in Of(sess.jobs) : rows[t] \subseteq sess.env \cup exposed
      BY <1>3, OfFacts, Zenon DEF Books, Awaited, Read
    <3> QED BY <2>1, <2>2, <3>1, Zenon
  <2>4. \A t \in Tables : rows'[t] \subseteq rows[t]
    BY <2>1, Zenon
  <2>5. Numbered'
    BY <1>1, <2>4 DEF Books, Numbered
  <2>6. Apart'
    BY <1>1, <2>1, <2>4 DEF Books, Apart
  <2>7. Read' /\ Awaited'
    BY <2>1 DEF Read, Awaited
  <2>8. SentOnce'
    <3>1. ASSUME NEW t \in Tables, NEW r \in rows'[t], r \in got \/ \E i \in 1 .. Len(wire) : r \in wire[i]
          PROVE  r \in again
      <4>1. r \in rows[t] /\ [t |-> t, keep |-> FALSE] \notin sess.jobs
        BY <2>1, Zenon
      <4>2. r \in again \/ r \in sess.env
        BY <3>1, <4>1 DEF Books, SentOnce
      <4> QED BY <1>3, <4>1, <4>2 DEF Books, Read
    <3> QED BY <1>1, <3>1 DEF Books, SentOnce
  <2>9. NoRowLost'
    <3>1. ASSUME NEW r \in 1 .. last
          PROVE  r \in exposed' \/ r \in got \/ \E t \in Tables : r \in rows'[t]
      <4>1. r \in exposed \/ r \in got \/ \E t \in Tables : r \in rows[t]
        BY Lost DEF Books
      <4>2. ASSUME NEW t \in Tables, r \in rows[t]
            PROVE  r \in exposed' \/ r \in got \/ r \in rows'[t]
        <5>1. CASE [t |-> t, keep |-> FALSE] \in sess.jobs
          <6>1. t \in Of(sess.jobs)
            BY <5>1 DEF Of
          <6> QED BY <2>3, <4>2, <6>1
        <5>2. CASE [t |-> t, keep |-> FALSE] \notin sess.jobs
          BY <2>1, <4>2, <5>2
        <5> QED BY <5>1, <5>2
      <4> QED BY <2>1, <4>1, <4>2
    <3> QED BY <1>1, <3>1, Zenon DEF NoRowLost, Stored
  <2>10. DuplicateMeansRetry'
    BY <1>1 DEF Books, DuplicateMeansRetry
  <2> QED BY <2>5, <2>6, <2>7, <2>8, <2>9, <2>10, Zenon DEF Books
<1> QED BY <1>2, <1>3, Zenon

\* A timeout or the loss of the connection.
LEMMA FailedStep ==
  ASSUME IInv, Books, NoAnswer \/ ConnectionLost
  PROVE  Books'
<1>1. /\ sess'.st \in {"none", "failed"} /\ sess'.jobs = sess.jobs
      /\ UNCHANGED <<rows, queue, got, last, dups>>
      /\ again' = again \cup sess.env
      /\ exposed' = exposed \ Stored
  BY DEF NoAnswer, ConnectionLost, Failed, IInv, SendingHasOwner, TypeOK, Sessions
<1>2. wire' = wire \/ wire' = << >>
  BY DEF NoAnswer, ConnectionLost
<1>3. 1 .. Len(<< >>) = {}
  OBVIOUS
<1>4. Numbered' /\ Apart'
  BY <1>1, <1>2, <1>3, Zenon DEF Books, Numbered, Apart
<1>5. Read' /\ Awaited'
  BY <1>1, Zenon DEF Read, Awaited
<1>6. SentOnce'
  BY <1>1, <1>2, <1>3 DEF Books, SentOnce
<1>7. NoRowLost'
  BY <1>1, Zenon DEF Books, NoRowLost, Stored
<1>8. DuplicateMeansRetry'
  BY <1>1, Zenon DEF Books, DuplicateMeansRetry
<1> QED BY <1>4, <1>5, <1>6, <1>7, <1>8 DEF Books

\* dosession() and what calls it: one job for each table, and the session goes on
\* or starts.
LEMMA DoSessionRestarts ==
  ASSUME IInv, Apart, NEW new \in SUBSET (Tables \ inprogress), NEW keep \in BOOLEAN,
         DoSession(queue \cup {[t |-> t, keep |-> keep] : t \in new})
  PROVE  Restarts /\ \A j, k \in queue' \cup sess'.jobs : j.t = k.t => j = k
<1> DEFINE N == {[t |-> t, keep |-> keep] : t \in new}
           q == queue \cup N
<1>1. Restarts /\ queue' \cup sess'.jobs \subseteq q \cup sess.jobs
  <2>1. CASE waiter /\ queue' = q /\ UNCHANGED <<sess, waiter, ser>>
    BY <2>1 DEF Restarts
  <2>2. CASE ~waiter /\ sess.st # "none" /\ waiter' = TRUE /\ queue' = q /\ UNCHANGED <<sess, ser>>
    BY <2>2, Zenon DEF Restarts
  <2>3. CASE ~waiter /\ sess.st = "none" /\ sess' = Attempt(q, 1) /\ queue' = {}
             /\ ser' = ser \ Of(q) /\ UNCHANGED waiter
    BY <2>3 DEF Restarts, Attempt
  <2> QED BY <2>1, <2>2, <2>3, Zenon DEF DoSession
<1>2. ASSUME NEW j \in q \cup sess.jobs, NEW k \in q \cup sess.jobs, j.t = k.t
      PROVE  j = k
  <2>1. \A i \in N : i = [t |-> i.t, keep |-> keep] /\ i.t \notin inprogress
    OBVIOUS
  <2>2. \A i \in queue \cup sess.jobs : i.t \in inprogress
    BY DEF IInv, SendingHasOwner, Of
  <2>3. CASE j \in N /\ k \in N
    BY <1>2, <2>1, <2>3, Zenon
  <2>4. CASE j \notin N /\ k \notin N
    BY <1>2, <2>4, Zenon DEF Apart
  <2> HIDE DEF N
  <2> QED BY <1>2, <2>1, <2>2, <2>3, <2>4
<1> QED BY <1>1, <1>2, Zenon

LEMMA SendRestarts ==
  ASSUME IInv, Apart, NEW r, NEW ts \in SUBSET Tables, NEW keep \in BOOLEAN, Send(r, ts, keep)
  PROVE  Restarts /\ \A j, k \in queue' \cup sess'.jobs : j.t = k.t => j = k
<1>1. Unsent(r, ts) \in SUBSET (Tables \ inprogress)
  BY Zenon DEF Unsent
<1>2. CASE Unsent(r, ts) = {}
  BY <1>2, Zenon DEF Send, Restarts, Apart
<1>3. CASE Unsent(r, ts) # {}
  BY <1>1, <1>3, DoSessionRestarts DEF Send
<1> QED BY <1>2, <1>3, Zenon

\* One step of anybody keeps the books.
LEMMA NextKeepsBooks == IInv /\ Books /\ [Next]_vars => Books'
<1> SUFFICES ASSUME IInv, Books, [Next]_vars PROVE Books'
  BY Zenon
<1> DEFINE OneJob == \A j, k \in queue' \cup sess'.jobs : j.t = k.t => j = k
           Quiet == UNCHANGED <<rows, wire, answers, got, last, exposed, dups, again>>
<1>0. Apart /\ (OneJob /\ UNCHANGED rows => Apart')
  BY Zenon DEF Books, Apart
<1>1. ASSUME NEW t \in Tables, TableRow(t) PROVE Books'
  <2>1. Give(t)
    BY <1>1 DEF TableRow
  <2>2. CASE Send(Taken(t), {t}, FALSE)
    BY <1>0, <2>1, <2>2, SendRestarts, GiveStep, Zenon
  <2>3. CASE UNCHANGED <<inprogress, queue, sess, waiter, ser>>
    <3>1. Restarts /\ OneJob
      BY <1>0, <2>3 DEF Restarts, Apart
    <3> QED BY <2>1, <3>1, GiveStep
  <2> QED BY <1>1, <2>2, <2>3, Zenon DEF TableRow
<1>2. ASSUME NEW t \in Tables, PData(t) PROVE Books'
  <2>1. Give(t) /\ Restarts /\ OneJob
    BY <1>0, <1>2, Zenon DEF PData, Restarts, Apart
  <2> QED BY <2>1, GiveStep, Zenon
<1>3. CASE Flush
  <2>1. Restarts /\ OneJob /\ Quiet
    BY <1>0, <1>3, SendRestarts, Zenon DEF Flush
  <2> QED BY <1>0, <2>1, QuietStep, Zenon
<1>4. ASSUME NEW t \in Tables, NEW keep \in BOOLEAN, SendTrigger(t, keep) PROVE Books'
  <2>1. Restarts /\ OneJob /\ Quiet
    BY <1>0, <1>4, SendRestarts, Zenon DEF SendTrigger
  <2> QED BY <1>0, <2>1, QuietStep
<1>5. CASE Connect
  <2>1. queue \cup {[t |-> t, keep |-> TRUE] : t \in {}} = queue
    OBVIOUS
  <2>2. {} \in SUBSET (Tables \ inprogress) /\ TRUE \in BOOLEAN
    OBVIOUS
  <2>3. DoSession(queue \cup {[t |-> t, keep |-> TRUE] : t \in {}})
    BY <1>5, <2>1, Zenon DEF Connect
  <2>4. Restarts /\ OneJob /\ Quiet
    BY <1>0, <1>5, <2>2, <2>3, DoSessionRestarts, Zenon DEF Connect
  <2> QED BY <1>0, <2>4, QuietStep
<1>6. CASE WaiterStarts
  <2>1. Restarts /\ OneJob /\ Quiet
    BY <1>0, <1>6 DEF WaiterStarts, Restarts, Attempt, Apart
  <2> QED BY <1>0, <2>1, QuietStep
<1>7. ASSUME NEW j \in Jobs, Serialize(j) PROVE Books'
  BY <1>7, SerializeStep
<1>8. CASE Serialized
  <2>1. Restarts /\ OneJob /\ Quiet
    BY <1>0, <1>8 DEF Serialized, Restarts, Apart, IInv, SendingHasOwner, TypeOK, Sessions
  <2> QED BY <1>0, <2>1, QuietStep
<1>9. CASE AllSent
  BY <1>9, AllSentStep
<1>10. ASSUME NEW ok \in BOOLEAN, ServerAnswers(ok) PROVE Books'
  BY <1>10, ServerAnswersStep
<1>11. CASE Answer
  BY <1>11, AnswerStep
<1>12. CASE NoAnswer \/ ConnectionLost
  BY <1>12, FailedStep, Zenon
<1>13. CASE Retry
  <2>1. Restarts /\ OneJob /\ Quiet
    BY <1>0, <1>13, Zenon DEF Retry, Restarts, Attempt, Apart
  <2> QED BY <1>0, <2>1, QuietStep
<1>14. CASE GiveUp
  <2>1. Restarts /\ OneJob /\ Quiet
    BY <1>0, <1>14, Zenon DEF GiveUp, Restarts, NoSession, Apart
  <2> QED BY <1>0, <2>1, QuietStep
<1>15. CASE UNCHANGED vars
  <2>1. Restarts /\ OneJob /\ Quiet
    BY <1>0, <1>15, Zenon DEF vars, Restarts, Apart
  <2> QED BY <1>0, <2>1, QuietStep
<1> QED BY <1>1, <1>2, <1>3, <1>4, <1>5, <1>6, <1>7, <1>8, <1>9, <1>10, <1>11, <1>12,
           <1>13, <1>14, <1>15 DEF Next

LEMMA InitBooks == Init => Books
<1> SUFFICES ASSUME Init PROVE Books
  OBVIOUS
<1>1. 1 .. Len(wire) = {} /\ 1 .. last = {} /\ \A t \in Tables : rows[t] = {}
  BY DEF Init
<1> QED BY <1>1 DEF Init, Books, Numbered, Apart, Read, Awaited, SentOnce, NoRowLost,
                    DuplicateMeansRetry, NoSession

\* However sessions fail, are retried and rolled back, a table that is marked as
\* being sent, or locked by its serialization, is in the queue or in the running
\* session and in one of them only: the next session takes it.
THEOREM NoTableLeftBehind == FairSpec => []SendingHasOwner
<1>1. IInv => SendingHasOwner
  BY DEF IInv
<1> QED BY <1>1, InitIInv, NextKeepsIInv, PTL DEF FairSpec

\* More than that: whatever fails, times out or is retried, every row an asset gave
\* is in its table or with the server, but for the rows the code gives up, and the
\* server gets a row twice only after a failed attempt or dont_reset.
THEOREM DataIsKeptThm == FairSpec => []DataIsKept
<1>1. IInv /\ Books => DataIsKept
  BY DEF IInv, Books, DataIsKept
<1> QED BY <1>1, InitIInv, NextKeepsIInv, InitBooks, NextKeepsBooks, PTL DEF FairSpec
=============================================================================
