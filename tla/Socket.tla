------------------------------- MODULE Socket -------------------------------
(***************************************************************************)
(* Stream sockets of luafwk/luasocket: the buffered reads and writes of    *)
(* buffer.c, the system calls with timeouts of usocket.c and timeout.c,    *)
(* the objects of tcp.c and unix.c, and select.c.                          *)
(*                                                                         *)
(* One object is followed from its creation, as a client or as what accept *)
(* returns.  A call runs system call by system call; between two of them   *)
(* the peer sends, reads or closes and time goes by.  A byte received is   *)
(* "a", "r" (CR) or "n" (LF); bytes sent are numbered.                     *)
(***************************************************************************)
EXTENDS Integers, SequencesExt

CONSTANTS Streams,   \* what the peer may send over the connection
          Patterns,  \* a line, [kind |-> "l"], all, "a", or n bytes, "n"
          BUF_SIZE, STEPSIZE,
          Room,      \* bytes the kernel holds for the peer
          ToSend,    \* length of the data sent
          Blocks, Totals, \* timeouts set, -1 for none
          MaxTime, MaxCalls

VARIABLES so,    \* the socket object
          call,  \* the call in progress
          net,   \* the connection, as the kernel and the peer see it
          hist

vars == <<so, call, net, hist>>

Idle == [op |-> "idle"]

NoObject == [kind |-> "none", class |-> "none", fd |-> FALSE, block |-> -1, total |-> -1,
             start |-> 0, buf |-> <<>>, received |-> 0, sent |-> 0]

-----------------------------------------------------------------------------
(* timeout.c *)

timeout_markstart(s) == [s EXCEPT !.start = net.now]

Later(a, b) == IF a > b THEN a ELSE b

Sooner(a, b) == IF a < b THEN a ELSE b

\* The time left, -1 for no limit.  Only connect, accept and select mark the
\* start of an operation: for send and receive it is that of an earlier call.
timeout_getretry(s) ==
    LET left == Later(s.total - net.now + s.start, 0) IN
    IF s.block < 0 /\ s.total < 0 THEN -1
    ELSE IF s.block < 0 THEN left
    ELSE IF s.total < 0 THEN Later(s.block - net.now + s.start, 0)
    ELSE Sooner(s.block, left)

\* socket_waitfd: with a zero block timeout it does not even poll.
Deadline(s) ==
    LET t == timeout_getretry(s) IN IF t < 0 THEN MaxTime + 1 ELSE net.now + t

-----------------------------------------------------------------------------
(* Returning to Lua. *)

Returned(r) == call' = Idle /\ hist' = [hist EXCEPT !.ret = r]

\* The call waits in poll, or times out at once.
WaitOr(s, c, timedout) ==
    IF s.block = 0 THEN Returned(timedout)
    ELSE call' = [c EXCEPT !.st = "wait", !.deadline = Deadline(s)] /\ UNCHANGED hist

Failed(op, err, data) == [op |-> op, ok |-> FALSE, err |-> err, data |-> data]

Done(op, data) == [op |-> op, ok |-> TRUE, err |-> "", data |-> data]

Begin == call = Idle /\ hist.calls < MaxCalls

Counted == [hist EXCEPT !.calls = @ + 1, !.ret = Done("none", <<>>)]

-----------------------------------------------------------------------------
(* tcp.c, unix.c: objects. *)

\* global_create: never an error here; the socket is non-blocking.
Create ==
    /\ Begin /\ so.kind = "none"
    /\ \E k \in {"tcp", "unix"} :
          so' = [NoObject EXCEPT !.kind = k, !.class = "master", !.fd = TRUE]
    /\ hist' = Counted /\ UNCHANGED <<call, net>>

socket_destroy(s) == [s EXCEPT !.fd = FALSE]

\* inet_trybind, unix_trybind: an address that cannot be bound costs the socket,
\* a name that cannot be resolved does not.
meth_bind ==
    /\ Begin /\ so.class = "master" /\ so.fd
    /\ \/ net' = [net EXCEPT !.bound = TRUE] /\ ~net.bound /\ UNCHANGED so
       \/ so' \in {so, socket_destroy(so)} /\ UNCHANGED net
    /\ hist' = Counted /\ UNCHANGED call

meth_listen ==
    /\ Begin /\ so.class = "master" /\ so.fd
    /\ so' = [so EXCEPT !.class = "server"]
    /\ hist' = Counted /\ UNCHANGED <<call, net>>

meth_settimeout ==
    /\ Begin /\ so.kind # "none"
    /\ \/ \E t \in Blocks : so' = [so EXCEPT !.block = t]
       \/ \E t \in Totals : so' = [so EXCEPT !.total = t]
    /\ hist' = Counted /\ UNCHANGED <<call, net>>

meth_close ==
    /\ Begin /\ so.fd
    /\ so' = socket_destroy(so)
    /\ hist' = Counted /\ UNCHANGED <<call, net>>

\* The peer sees the end of what it reads; what it still sends can be lost.
meth_shutdown ==
    /\ Begin /\ so.class = "client" /\ so.fd /\ net.conn = "yes"
    /\ \E how \in {"send", "receive", "both"} :
          net' = [net EXCEPT !.shut = @ \cup (IF how = "both" THEN {"send", "receive"} ELSE {how})]
    /\ hist' = Counted /\ UNCHANGED <<so, call>>

\* The object of a connection accepted; its timeout has no start yet.
Accepted ==
    \E start \in {0, net.now} :
       so' = [NoObject EXCEPT !.kind = so.kind, !.class = "client", !.fd = TRUE, !.start = start]

meth_accept ==
    /\ Begin /\ so.class = "server" /\ so.fd
    /\ so' = timeout_markstart(so)
    /\ call' = [op |-> "accept", st |-> "run", deadline |-> 0]
    /\ hist' = Counted /\ UNCHANGED net

\* socket_accept: one turn of its loop.
AcceptStep ==
    /\ call.op = "accept" /\ call.st = "run"
    /\ IF net.conn = "asked"
       THEN Accepted /\ net' = [net EXCEPT !.conn = "yes"] /\ Returned(Done("accept", <<>>))
       ELSE UNCHANGED <<so, net>> /\ WaitOr(so, call, Failed("accept", "timeout", <<>>))

\* A tcp object becomes a client even if connecting fails or goes on.
inet_tryconnect(ok) == [so EXCEPT !.class = "client"]

\* A unix object only if it is connected; otherwise its socket is closed.
unix_tryconnect(ok) == IF ok THEN [so EXCEPT !.class = "client"] ELSE socket_destroy(so)

Connected(ok) == IF so.kind = "tcp" THEN inet_tryconnect(ok) ELSE unix_tryconnect(ok)

meth_connect ==
    /\ Begin /\ (so.class = "master" \/ (so.kind = "tcp" /\ so.class = "client"))
    /\ net.conn \in {"no", "trying"}
    /\ so' = timeout_markstart(so)
    /\ call' = [op |-> "connect", st |-> "run", deadline |-> 0]
    /\ hist' = Counted /\ UNCHANGED net

\* socket_connect: connected, refused, or under way in the kernel.
ConnectStep ==
    /\ call.op = "connect" /\ call.st = "run"
    /\ \/ /\ ~so.fd /\ so' = Connected(FALSE)
          /\ Returned(Failed("connect", "closed", <<>>)) /\ UNCHANGED net
       \/ /\ so.fd /\ net.conn \in {"no", "trying"} /\ so' = Connected(TRUE)
          /\ net' = [net EXCEPT !.conn = "yes"] /\ Returned(Done("connect", <<>>))
       \/ /\ so.fd /\ net.conn \in {"no", "trying"} /\ so' = Connected(FALSE)
          /\ Returned(Failed("connect", "refused", <<>>)) /\ UNCHANGED net
       \/ /\ so.fd /\ net.conn = "no" /\ net' = [net EXCEPT !.conn = "trying"]
          /\ IF so.block = 0 THEN so' = Connected(FALSE) ELSE UNCHANGED so
          /\ WaitOr(so, call, Failed("connect", "timeout", <<>>))

-----------------------------------------------------------------------------
(* buffer.c: receiving. *)

\* Mutant of Wanted: the bytes of the prefix are asked for again.
WantedAll(pat, prefix) == IF pat.kind = "n" THEN pat.n ELSE 0

\* A number of bytes counts what the caller got before; size_t arithmetic.
Wanted(pat, prefix) ==
    IF pat.kind # "n" THEN 0
    ELSE IF pat.n >= Len(prefix) THEN pat.n - Len(prefix) ELSE (pat.n - Len(prefix)) + (2^30)

Consumed == Len(net.stream) - Len(so.buf) - Len(net.in) - Len(net.todo)

\* A new read, or the same one again with what came before as a prefix.
buffer_meth_receive ==
    /\ Begin /\ so.class = "client"
    /\ \/ \E p \in Patterns :
            /\ call' = [op |-> "receive", st |-> "run", deadline |-> 0, pat |-> p,
                        acc |-> <<>>, want |-> Wanted(p, <<>>), total |-> 0]
            /\ hist' = [Counted EXCEPT !.pat = p, !.base = Consumed]
       \/ /\ hist.ret.op = "receive" /\ hist.ret.err = "timeout"
          /\ call' = [op |-> "receive", st |-> "run", deadline |-> 0, pat |-> hist.pat,
                      acc |-> hist.ret.data, want |-> Wanted(hist.pat, hist.ret.data),
                      total |-> 0]
          /\ hist' = Counted
    /\ UNCHANGED <<so, net>>

buffer_skip(s, n) == [s EXCEPT !.buf = SubSeq(@, n + 1, Len(@)), !.received = @ + n]

NotNewline(b) == b \notin {"r", "n"}

\* What one turn of recvline, recvraw or recvall does with a filled buffer.
Taken(s) ==
    LET b == s.buf
        lf == {i \in DOMAIN b : b[i] = "n"}
        upto == IF lf = {} THEN Len(b) ELSE CHOOSE i \in lf : \A j \in lf : i <= j
        count == Sooner(Len(b), call.want - call.total)
    IN  IF call.pat.kind = "l"
        THEN [n |-> upto, data |-> SelectSeq(SubSeq(b, 1, upto), NotNewline), done |-> lf # {}]
        ELSE IF call.pat.kind = "a" THEN [n |-> Len(b), data |-> b, done |-> FALSE]
        ELSE [n |-> count, data |-> SubSeq(b, 1, count), done |-> call.total + count >= call.want]

\* recvall: the end of the connection ends the data, if there was any.
Ended(err) ==
    IF call.pat.kind = "a" /\ err = "closed" /\ call.total > 0
    THEN Done("receive", call.acc) ELSE Failed("receive", err, call.acc)

\* buffer_get and the turn of the loop that follows it.
ReceiveStep ==
    /\ call.op = "receive" /\ call.st = "run"
    /\ LET got == SubSeq(net.in, 1, Sooner(BUF_SIZE, Len(net.in)))
           s == IF so.buf = <<>> THEN [so EXCEPT !.buf = got] ELSE so
           t == Taken(s)
           acc == call.acc \o t.data
       IN  \/ /\ so.buf # <<>> \/ (so.fd /\ net.conn = "yes" /\ net.in # <<>>)
              /\ so' = buffer_skip(s, t.n)
              /\ net' = IF so.buf = <<>> THEN [net EXCEPT !.in = SubSeq(@, Len(got) + 1, Len(@))]
                        ELSE net
              /\ IF t.done THEN Returned(Done("receive", acc))
                 ELSE /\ call' = [call EXCEPT !.acc = acc, !.total = @ + t.n]
                      /\ UNCHANGED hist
           \/ /\ so.buf = <<>> /\ UNCHANGED <<so, net>>
              /\ IF ~so.fd THEN Returned(Ended("closed"))
                 ELSE IF net.conn # "yes" THEN Returned(Ended("not connected"))
                 ELSE /\ net.in = <<>>
                      /\ IF net.fin \/ "receive" \in net.shut THEN Returned(Ended("closed"))
                         ELSE WaitOr(so, call, Ended("timeout"))

-----------------------------------------------------------------------------
(* buffer.c: sending. *)

\* Sends what the peer has not been sent yet: data, from the index the last
\* call returned.
buffer_meth_send ==
    /\ Begin /\ so.class = "client" /\ hist.index < ToSend
    /\ call' = [op |-> "send", st |-> "run", deadline |-> 0, start |-> hist.index + 1,
                total |-> 0]
    /\ hist' = Counted /\ UNCHANGED <<so, net>>

SendEnded(s, total, r) ==
    /\ so' = [s EXCEPT !.sent = @ + total]
    /\ call' = Idle
    /\ hist' = [hist EXCEPT !.ret = r, !.index = total + call.start - 1]

\* sendraw and socket_send: one system call, one turn of the loop.
SendStep ==
    /\ call.op = "send" /\ call.st = "run"
    /\ LET count == ToSend - call.start + 1
           left == Sooner(count - call.total, STEPSIZE)
           free == Room - Len(net.out)
           first == call.start + call.total
           Fail(err) == SendEnded(so, call.total, Failed("send", err, <<>>)) /\ UNCHANGED net
       IN  IF ~so.fd \/ "send" \in net.shut THEN Fail("closed")
           ELSE IF net.conn # "yes" THEN Fail("not connected")
           ELSE IF free > 0
           THEN LET put == Sooner(left, free) IN
                /\ net' = [net EXCEPT !.out = @ \o [i \in 1..put |-> first + i - 1]]
                /\ IF call.total + put = count
                   THEN SendEnded(so, count, Done("send", <<>>))
                   ELSE call' = [call EXCEPT !.total = @ + put] /\ UNCHANGED <<so, hist>>
           ELSE IF so.block = 0 THEN Fail("timeout")
           ELSE /\ call' = [call EXCEPT !.st = "wait", !.deadline = Deadline(so)]
                /\ UNCHANGED <<so, net, hist>>

-----------------------------------------------------------------------------
(* udp.c *)

CreateUdp ==
    /\ Begin /\ so.kind = "none"
    /\ so' = [NoObject EXCEPT !.kind = "udp", !.class = "unconnected", !.fd = TRUE]
    /\ hist' = Counted /\ UNCHANGED <<call, net>>

meth_setpeername ==
    /\ Begin /\ so.kind = "udp"
    /\ \/ so.fd /\ \E c \in {"connected", "unconnected"} : so' = [so EXCEPT !.class = c]
       \/ UNCHANGED so
    /\ hist' = Counted /\ UNCHANGED <<call, net>>

\* An empty datagram leaves, but a system call that returns 0 reads as closed.
meth_sendto ==
    /\ Begin /\ so.kind = "udp"
    /\ \E n \in 0..2 :
          hist' = [Counted EXCEPT !.ret = IF ~so.fd \/ n = 0 THEN Failed("sendto", "refused", <<>>)
                                         ELSE Done("sendto", <<>>)]
    /\ so' = timeout_markstart(so) /\ UNCHANGED <<call, net>>

meth_receivefrom ==
    /\ Begin /\ so.kind = "udp"
    /\ so' = timeout_markstart(so)
    /\ call' = [op |-> "receivefrom", st |-> "run", deadline |-> 0]
    /\ hist' = Counted /\ UNCHANGED net

\* socket_recvfrom: one turn of its loop.  An empty datagram reads as closed.
ReceivefromStep ==
    /\ call.op = "receivefrom" /\ call.st = "run" /\ UNCHANGED so
    /\ \/ ~so.fd /\ Returned(Failed("receivefrom", "refused", <<>>)) /\ UNCHANGED net
       \/ /\ so.fd /\ net.dgrams # <<>>
          /\ net' = [net EXCEPT !.dgrams = Tail(@)]
          /\ Returned(IF Head(net.dgrams) = 0 THEN Failed("receivefrom", "refused", <<>>)
                      ELSE Done("receivefrom", <<Head(net.dgrams)>>))
       \/ /\ so.fd /\ net.dgrams = <<>> /\ UNCHANGED net
          /\ WaitOr(so, call, Failed("receivefrom", "timeout", <<>>))

-----------------------------------------------------------------------------
(* socket_waitfd: poll returns. *)

Readable == net.conn = "yes" /\ (net.in # <<>> \/ net.fin \/ "receive" \in net.shut)

Writable == net.conn = "yes" /\ Len(net.out) < Room

Awaited ==
    CASE call.op = "receive" -> Readable
      [] call.op = "send" -> Writable \/ "send" \in net.shut
      [] call.op = "accept" -> net.conn = "asked"
      [] call.op = "connect" -> net.conn # "trying"
      [] call.op = "receivefrom" -> net.dgrams # <<>>
      [] call.op = "select" -> \/ ("r" \in call.sets /\ Readable)
                               \/ ("w" \in call.sets /\ Writable)
      [] OTHER -> FALSE

WaitDone ==
    /\ call # Idle /\ call.st = "wait" /\ Awaited
    /\ IF call.op = "connect"
       THEN /\ so' = Connected(net.conn = "yes")
            /\ Returned(IF net.conn = "yes" THEN Done("connect", <<>>)
                        ELSE Failed("connect", "refused", <<>>))
       ELSE call' = [call EXCEPT !.st = "run"] /\ UNCHANGED <<so, hist>>
    /\ UNCHANGED net

WaitTimeout ==
    /\ call # Idle /\ call.st = "wait" /\ ~Awaited /\ net.now >= call.deadline
    /\ CASE call.op = "receive" -> Returned(Ended("timeout")) /\ UNCHANGED so
         [] call.op = "send" -> SendEnded(so, call.total, Failed("send", "timeout", <<>>))
         [] call.op = "connect" -> so' = Connected(FALSE)
                                   /\ Returned(Failed("connect", "timeout", <<>>))
         [] OTHER -> Returned(Failed(call.op, "timeout", <<>>)) /\ UNCHANGED so
    /\ UNCHANGED net

-----------------------------------------------------------------------------
(* select.c *)

dirty == so.buf # <<>>

check_dirty(sets) == "r" \in sets /\ so.fd /\ dirty

\* A socket with buffered data is readable, whatever the kernel says, and
\* makes the system call a look that does not wait.
global_select ==
    /\ Begin /\ so.kind # "none" /\ net.conn = "yes"
    /\ \E sets \in {{"r"}, {"w"}, {"r", "w"}}, t \in Blocks :
          call' = [op |-> "select", st |-> "run", sets |-> sets,
                   deadline |-> IF check_dirty(sets) THEN net.now
                                ELSE IF t < 0 THEN MaxTime + 1 ELSE net.now + t]
    /\ hist' = Counted /\ UNCHANGED <<so, net>>

\* return_fd: the dirty sockets first, then those select reports.
SelectStep ==
    /\ call.op = "select" /\ call.st = "run"
    /\ LET isdirty == check_dirty(call.sets)
           r == isdirty \/ ("r" \in call.sets /\ so.fd /\ Readable)
           w == "w" \in call.sets /\ so.fd /\ Writable
       IN  IF r \/ w
           THEN Returned(Done("select", (IF r THEN <<"r">> ELSE <<>>) \o (IF w THEN <<"w">> ELSE <<>>)))
           ELSE IF net.now >= call.deadline THEN Returned(Failed("select", "timeout", <<>>))
           ELSE call' = [call EXCEPT !.st = "wait"] /\ UNCHANGED hist
    /\ UNCHANGED <<so, net>>

-----------------------------------------------------------------------------
(* The kernel and the peer. *)

PeerConnects ==
    /\ net.conn = "no" /\ so.class = "server" /\ so.fd
    /\ net' = [net EXCEPT !.conn = "asked"] /\ UNCHANGED <<so, call, hist>>

KernelConnects ==
    /\ net.conn = "trying" /\ so.fd
    /\ \E c \in {"yes", "no"} : net' = [net EXCEPT !.conn = c]
    /\ UNCHANGED <<so, call, hist>>

PeerSends ==
    /\ net.conn = "yes" /\ net.todo # <<>>
    /\ \E n \in 1..Len(net.todo) :
          net' = [net EXCEPT !.in = @ \o SubSeq(net.todo, 1, n),
                             !.todo = SubSeq(@, n + 1, Len(@))]
    /\ UNCHANGED <<so, call, hist>>

PeerReads ==
    /\ net.out # <<>>
    /\ net' = [net EXCEPT !.read = @ \o net.out, !.out = <<>>]
    /\ UNCHANGED <<so, call, hist>>

PeerCloses ==
    /\ net.conn = "yes" /\ net.todo = <<>> /\ ~net.fin
    /\ \E gone \in BOOLEAN :
          net' = [net EXCEPT !.fin = TRUE, !.shut = IF gone THEN @ \cup {"send"} ELSE @]
    /\ UNCHANGED <<so, call, hist>>

DatagramComes ==
    /\ so.kind = "udp" /\ Len(net.dgrams) < 2
    /\ \E n \in 0..2 : net' = [net EXCEPT !.dgrams = Append(@, n)]
    /\ UNCHANGED <<so, call, hist>>

Tick ==
    /\ net.now < MaxTime /\ call # Idle /\ call.st = "wait"
    /\ net' = [net EXCEPT !.now = @ + 1] /\ UNCHANGED <<so, call, hist>>

Init ==
    /\ so = NoObject /\ call = Idle
    /\ \E s \in Streams :
          net = [conn |-> "no", bound |-> FALSE, stream |-> s, todo |-> s, in |-> <<>>,
                 fin |-> FALSE, out |-> <<>>, read |-> <<>>, shut |-> {}, dgrams |-> <<>>, now |-> 0]
    /\ hist = [calls |-> 0, ret |-> Done("none", <<>>), pat |-> [kind |-> "l", n |-> 0], base |-> 0, index |-> 0]

Next ==
    \/ Create \/ meth_bind \/ meth_listen \/ meth_settimeout \/ meth_close \/ meth_shutdown
    \/ meth_accept \/ AcceptStep \/ meth_connect \/ ConnectStep
    \/ buffer_meth_receive \/ ReceiveStep \/ buffer_meth_send \/ SendStep
    \/ CreateUdp \/ meth_setpeername \/ meth_sendto \/ meth_receivefrom \/ ReceivefromStep
    \/ DatagramComes \/ WaitDone \/ WaitTimeout \/ global_select \/ SelectStep
    \/ PeerConnects \/ KernelConnects \/ PeerSends \/ PeerReads \/ PeerCloses \/ Tick

Spec == Init /\ [][Next]_vars

-----------------------------------------------------------------------------
(* Properties. *)

\* The data a receive returns, whole or partial, and however often it timed
\* out and was called again with its partial result, is exactly what the peer
\* sent from where the read began: a line without its end, the number of bytes
\* asked for, or everything up to the end (recvline, recvraw, recvall).
ReadIsStream ==
    hist.ret.op = "receive" =>
       LET s == SubSeq(net.stream, hist.base + 1, Consumed)
           line == hist.pat.kind = "l"
       IN  /\ hist.ret.data = IF line THEN SelectSeq(s, NotNewline) ELSE s
           /\ line => \A i \in DOMAIN s : s[i] = "n" <=> (hist.ret.ok /\ i = Len(s))
           /\ hist.pat.kind = "n" => Len(s) <= hist.pat.n /\ (hist.ret.ok <=> Len(s) = hist.pat.n)

\* The peer reads the bytes of the data in order, each once, and the index a
\* send returns is the last byte handed to the kernel, so that sending again
\* from the next one neither skips nor repeats any (sendraw, buffer_meth_send).
SentIsPrefix ==
    LET there == net.read \o net.out IN
    /\ there = [i \in 1..Len(there) |-> i]
    /\ call.op # "send" => Len(there) = hist.index

\* select reports a socket whose data is already in the buffer at once, and
\* never waits for the kernel to have more (check_dirty, global_select).
BufferedIsTold ==
    call.op = "select" /\ call.st = "wait" => ~("r" \in call.sets /\ so.fd /\ dirty)
=============================================================================
