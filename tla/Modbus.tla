------------------------------- MODULE Modbus --------------------------------
(***************************************************************************)
(* The Modbus master: the serializer (libs/SerialFramework/Modbus), its    *)
(* Lua binding and the two masters written on it, modbus.lua on a serial   *)
(* line (RTU and ASCII frames) and modbustcp.lua on a socket (TCP frames). *)
(*                                                                         *)
(* A master keeps its lock for a whole exchange, so one request is out at  *)
(* a time; but a device may answer after the master has given up, a frame  *)
(* may arrive in pieces, and the line may change or lose a byte.  The      *)
(* device is external: it decodes what the serializer built by the rules   *)
(* of the protocol and answers from its memory.                            *)
(***************************************************************************)
EXTENDS Integers, Sequences, FiniteSets, SequencesExt, Bitwise

CONSTANTS Modes,      \* subset of {"RTU", "ASCII", "TCP"}
          Calls,      \* requests of the application: [name, sid, addr, n, vals]
          MaxCalls,   \* requests made on a master
          MaxFaults   \* bytes the line changes or loses

VARIABLES mb,    \* Serializer and ModbusSpecifics: [mode, trId, isCustom, req, buf]
          call,  \* the exchange: [st, want, expected, res]
          line,  \* [todo: requests the device has to answer, air: bytes of
                 \*  its answers in transit, in: bytes received, last: the write done last]
          hist   \* [asked, late, faults]

vars == <<mb, call, line, hist>>

READ_COILS == 1
READ_DISCRETE_INPUTS == 2
READ_HOLDING_REGISTERS == 3
READ_INPUT_REGISTERS == 4
WRITE_SINGLE_COIL == 5
WRITE_SINGLE_REGISTER == 6
WRITE_MULTIPLE_COILS == 15
WRITE_MULTIPLE_REGISTERS == 16
MASK_ERROR == 128
ReadsBits == {READ_COILS, READ_DISCRETE_INPUTS}
ReadsWords == {READ_HOLDING_REGISTERS, READ_INPUT_REGISTERS}
WritesOne == {WRITE_SINGLE_COIL, WRITE_SINGLE_REGISTER}
WritesMany == {WRITE_MULTIPLE_COILS, WRITE_MULTIPLE_REGISTERS}

RTU_MAX_FRAME_SIZE == 256
TCP_MAX_FRAME_SIZE == 260
maxSize(mode) == CASE mode = "ASCII" -> 514 [] mode = "TCP" -> 260 [] OTHER -> 256
slaveAddrOffset(mode) == IF mode = "TCP" THEN 6 ELSE 0

Hi(w) == (w \div 256) % 256
Lo(w) == w % 256
Bytes(n) == (n \div 8) + (IF n % 8 # 0 THEN 1 ELSE 0)

(* ---------------------------------------------------------------------- *)
(* Checksums and frames                                                    *)
(* ---------------------------------------------------------------------- *)

\* The two 256-byte tables, as the one table of words they split: entry i is
\* what eight shifts by the polynomial 0xA001 make of the byte i.
CrcTable ==
  LET Shift(w) == IF w % 2 = 1 THEN (w \div 2) ^^ 40961 ELSE w \div 2
  IN [i \in 0..255 |-> Shift(Shift(Shift(Shift(Shift(Shift(Shift(Shift(i))))))))]

RTUComputeCRC(f) ==
  FoldLeft(LAMBDA crc, b: Hi(crc) ^^ CrcTable[Lo(crc) ^^ b], 65535, f)

ASCIIComputeLRC(f) == (256 - FoldLeft(LAMBDA s, b: (s + b) % 256, 0, f)) % 256

Digit(d) == IF d < 10 THEN 48 + d ELSE 55 + d

HexDigit2Dec(c) ==
  CASE c \in 65..70 -> c - 55 [] c \in 97..102 -> c - 87 [] c \in 48..57 -> c - 48 [] OTHER -> 0

RTUCreateRequest(pdu) == pdu \o <<Lo(RTUComputeCRC(pdu)), Hi(RTUComputeCRC(pdu))>>

ASCIICreateRequest(pdu) ==
  LET f == Append(pdu, ASCIIComputeLRC(pdu))
      hex == [k \in 1..2 * Len(f) |-> IF k % 2 = 1 THEN Digit(f[(k + 1) \div 2] \div 16)
                                                   ELSE Digit(f[k \div 2] % 16)]
  IN <<58>> \o hex \o <<13, 10>>

TCPCreateRequest(trId, pdu) == <<Hi(trId), Lo(trId), 0, 0, Hi(Len(pdu)), Lo(Len(pdu))>> \o pdu

NextTrId(trId) == (trId + 1) % 65535

Frame(mode, trId, pdu) ==
  CASE mode = "RTU" -> RTUCreateRequest(pdu)
    [] mode = "ASCII" -> ASCIICreateRequest(pdu)
    [] mode = "TCP" -> TCPCreateRequest(trId, pdu)

(* ---------------------------------------------------------------------- *)
(* Building a request                                                      *)
(* ---------------------------------------------------------------------- *)

Request(slave, fun, addr, n, bc, vals, buf) ==
  [slave |-> slave % 256, fun |-> fun, addr |-> addr % 65536, n |-> n % 65536,
   bc |-> bc % 65536, vals |-> vals, buf |-> buf]

\* A read allocates the buffer its answer goes to, unless it asks for nothing.
ReadRequest(c, fun) ==
  Request(c.sid, fun, c.addr, c.n, IF fun \in ReadsBits THEN Bytes(c.n) ELSE 2 * c.n, <<>>,
          IF c.n % 65536 > 0 THEN "live" ELSE "none")

\* One value, already a word.
WriteSingle(c, fun) == Request(c.sid, fun, c.addr, 1, 1, c.vals, "none")

WriteMultipleCoils(c) ==
  Request(c.sid, WRITE_MULTIPLE_COILS, c.addr, c.n, Len(c.vals), c.vals, "none")

WriteMultipleRegisters(c) ==
  Request(c.sid, WRITE_MULTIPLE_REGISTERS, c.addr, Len(c.vals) \div 2, Len(c.vals), c.vals, "none")

CustomRequest(c) == Request(c.sid, c.n, 0, 0, Len(c.vals), c.vals, "live")

ToRequest(c) ==
  CASE c.name = "readCoils" -> ReadRequest(c, READ_COILS)
    [] c.name = "readDiscreteInputs" -> ReadRequest(c, READ_DISCRETE_INPUTS)
    [] c.name = "readHoldingRegisters" -> ReadRequest(c, READ_HOLDING_REGISTERS)
    [] c.name = "readInputRegisters" -> ReadRequest(c, READ_INPUT_REGISTERS)
    [] c.name = "writeSingleCoil" -> WriteSingle(c, WRITE_SINGLE_COIL)
    [] c.name = "writeSingleRegister" -> WriteSingle(c, WRITE_SINGLE_REGISTER)
    [] c.name = "writeMultipleCoils" -> WriteMultipleCoils(c)
    [] c.name = "writeMultipleRegisters" -> WriteMultipleRegisters(c)
    [] c.name = "customRequest" -> CustomRequest(c)

Refused == <<>>

Address(r) == <<r.slave, r.fun, Hi(r.addr), Lo(r.addr)>>

\* A word buffer is in the byte order of the host, low byte first.
Swapped(vals) == [k \in 1..2 * (Len(vals) \div 2) |-> IF k % 2 = 1 THEN vals[k + 1] ELSE vals[k - 1]]

\* The PDU of a request, or Refused.
MODBUS_SER_CreateRequest(mode, r) ==
  CASE r.slave = 0 -> Refused
    [] r.fun \in ReadsBits \cup ReadsWords ->
         IF r.n \in 1..(IF r.fun \in ReadsBits THEN 2000 ELSE 125)
           THEN Address(r) \o <<Hi(r.n), Lo(r.n)>> ELSE Refused
    [] r.fun \in WritesOne -> Address(r) \o <<Hi(r.vals[1]), Lo(r.vals[1])>>
    [] r.fun = WRITE_MULTIPLE_COILS ->
         IF r.n \in 1..1968 /\ slaveAddrOffset(mode) + 7 + r.bc - 1 < maxSize(mode)
           THEN Address(r) \o <<Hi(r.n), Lo(r.n), Lo(r.bc)>> \o r.vals ELSE Refused
    [] r.fun = WRITE_MULTIPLE_REGISTERS ->
         IF r.n \in 1..123 /\ slaveAddrOffset(mode) + 7 + 2 * (r.n - 1) + 1 < maxSize(mode)
           THEN Address(r) \o <<0, Lo(r.n), Lo(2 * r.n)>> \o Swapped(r.vals) ELSE Refused
    [] OTHER -> Refused

MODBUS_SER_CreateCustomRequest(r) ==
  IF r.slave = 0 THEN Refused ELSE <<r.slave, r.fun>> \o r.vals

\* byteCount of the context once the request is built.
RequestBytes(r) ==
  CASE r.fun \in ReadsBits -> Bytes(r.n)
    [] r.fun \in ReadsWords \cup {WRITE_MULTIPLE_REGISTERS} -> 2 * r.n
    [] OTHER -> r.bc

MODBUS_SER_GetExpectedResponseLength(mode, isCustom, fun, bc) ==
  LET body == IF fun \in ReadsBits \cup ReadsWords THEN 3 + bc ELSE 6
  IN CASE isCustom -> maxSize(mode)
       [] mode = "RTU" -> body + 2
       [] mode = "ASCII" -> 1 + 2 * body + 2 + 2
       [] mode = "TCP" -> body + 6

(* ---------------------------------------------------------------------- *)
(* Checking and reading a response                                         *)
(* ---------------------------------------------------------------------- *)

\* Position of the first c at or after i, or 0.
Strstr(f, c, i) ==
  LET at == {k \in i..Len(f) - Len(c) + 1 : SubSeq(f, k, k + Len(c) - 1) = c}
  IN IF at = {} THEN 0 ELSE CHOOSE k \in at : \A j \in at : k <= j

\* The tests common to RTU and ASCII, on the bytes of a frame.
Related(req, f) ==
  CASE Len(f) < 4 -> "SHORT_FRAME"
    [] f[1] # req.slave -> "BAD_SLAVE"
    [] f[2] # req.fun /\ (f[2] ^^ MASK_ERROR) # req.fun -> "BAD_FUNCTION"
    [] Len(f) > RTU_MAX_FRAME_SIZE -> "INVALID_FRAME"
    [] OTHER -> "OK"

\* Mutant of RTUParseResponse: the checksum is not looked at.
RTUTrusted(req, f) == Related(req, f)

RTUParseResponse(req, f) ==
  IF Related(req, f) # "OK" THEN Related(req, f)
  ELSE IF RTUComputeCRC(SubSeq(f, 1, Len(f) - 2)) = 256 * f[Len(f)] + f[Len(f) - 1]
         THEN "OK" ELSE "BAD_CHECKSUM"

\* The bytes an ASCII frame stands for: the pairs of digits between the colon
\* and the end of line.
ASCIIDecoded(f) ==
  LET s == Strstr(f, <<58>>, 1)
      e == Strstr(f, <<13, 10>>, s)
      t == SubSeq(f, s + 1, e - 1)
  IN [k \in 1..Len(t) \div 2 |-> (16 * HexDigit2Dec(t[2 * k - 1]) + HexDigit2Dec(t[2 * k])) % 256]

\* A frame that decodes to nothing is checked on bytes outside the buffer.
ASCIIParseResponse(req, f) ==
  LET s == Strstr(f, <<58>>, 1)
      d == ASCIIDecoded(f)
  IN CASE s = 0 \/ (s # 0 /\ Strstr(f, <<13, 10>>, s) = 0) -> "INCOMPLETE_FRAME"
       [] Len(d) = 0 -> "UNDEFINED"
       [] ASCIIComputeLRC(Front(d)) # Last(d) -> "BAD_CHECKSUM"
       [] OTHER -> Related(req, d)

TCPParseResponse(req, trId, f) ==
  LET fun == f[8]
      same == fun = req.fun \/ (fun ^^ MASK_ERROR) = req.fun
  IN CASE 256 * f[1] + f[2] # trId \/ Len(f) # 256 * f[5] + f[6] + 6 -> "INVALID_FRAME"
       [] Len(f) < 8 -> "SHORT_FRAME"
       [] f[3] = 0 /\ f[4] = 0 /\ Len(f) <= TCP_MAX_FRAME_SIZE /\ same -> "OK"
       [] f[7] # req.slave -> "BAD_SLAVE"
       [] ~same -> "BAD_FUNCTION"
       [] OTHER -> "INVALID_FRAME"

MODBUS_SER_CheckResponse(m, f) ==
  CASE m.mode = "RTU" -> RTUParseResponse(m.req, f)
    [] m.mode = "ASCII" -> ASCIIParseResponse(m.req, f)
    [] m.mode = "TCP" -> TCPParseResponse(m.req, m.trId, f)

\* The response buffer once it is checked: an ASCII frame is decoded in place.
Checked(m, f) == IF m.mode = "ASCII" THEN ASCIIDecoded(f) ELSE f

Failed(why) == [st |-> why, data |-> <<>>]

\* Data go to the buffer of the request, where one is allocated.
Stored(m, data) == IF m.buf = "live" THEN [st |-> "OK", data |-> data] ELSE Failed("UNDEFINED")

\* The bytes announced; past the frame, the zeroes left in the buffer.
Values(g) == SubSeq(g \o [k \in 1..255 |-> 0], 4, 3 + g[3])

ParseReadInputs(m, g) ==
  IF g[3] # m.req.bc THEN Failed("UNEXPECTED_ERROR") ELSE Stored(m, Values(g))

ParseReadRegisters(m, g) ==
  IF g[3] # m.req.bc THEN Failed("UNEXPECTED_ERROR")
  ELSE Stored(m, Swapped(Values(g)))

ParseRawData(m, g) == Stored(m, g)

\* g: the response from the address of the slave on.
MODBUS_SER_AnalyzeResponse(m, status, g) ==
  CASE status # "OK" -> Failed(status)
    [] g[2] >= MASK_ERROR -> [st |-> "EXCEPTION", data |-> <<g[3]>>]
    [] m.isCustom -> ParseRawData(m, g)
    [] g[2] \in ReadsBits -> ParseReadInputs(m, g)
    [] g[2] \in ReadsWords -> ParseReadRegisters(m, g)
    [] g[2] \in WritesOne \cup WritesMany -> [st |-> "OK", data |-> <<>>]
    [] OTHER -> Failed("UNHANDLED")

ReceiveResponse(m, f) ==
  LET status == MODBUS_SER_CheckResponse(m, f)
      g == Checked(m, f)
  IN MODBUS_SER_AnalyzeResponse(m, status,
       IF status = "OK" THEN SubSeq(g, slaveAddrOffset(m.mode) + 1, Len(g)) ELSE <<>>)

(* ---------------------------------------------------------------------- *)
(* The device                                                              *)
(* ---------------------------------------------------------------------- *)

\* Its memory never changes: a bit and a word for each slave and address.
Coil(s, a) == (s + a) % 2
Reg(s, a) == 256 * (s + a) + 7 * a

\* The PDU a device reads in a frame, by the rules of the protocol.
Received(mode, f) ==
  CASE mode = "RTU" -> SubSeq(f, 1, Len(f) - 2)
    [] mode = "ASCII" -> Front(ASCIIDecoded(f))
    [] mode = "TCP" -> SubSeq(f, 7, Len(f))

BitsFrom(s, a, n) ==
  [k \in 1..Bytes(n) |->
     FoldLeft(LAMBDA acc, j: acc + (IF 8 * (k - 1) + j < n
                                      THEN Coil(s, a + 8 * (k - 1) + j) * 2 ^ j ELSE 0),
              0, <<0, 1, 2, 3, 4, 5, 6, 7>>)]
WordsFrom(s, a, n) ==
  [k \in 1..2 * n |-> IF k % 2 = 1 THEN Hi(Reg(s, a + (k - 1) \div 2)) ELSE Lo(Reg(s, a + (k - 2) \div 2))]

\* The answer of a device: an exception for what it does not serve.
Answer(p) ==
  LET a == 256 * p[3] + p[4]
      n == 256 * p[5] + p[6]
      wrong == <<p[1], p[2] + MASK_ERROR, 3>>
  IN CASE p[2] \in ReadsBits -> <<p[1], p[2], Bytes(n)>> \o BitsFrom(p[1], a, n)
       [] p[2] \in ReadsWords -> <<p[1], p[2], 2 * n>> \o WordsFrom(p[1], a, n)
       [] p[2] \in WritesOne -> SubSeq(p, 1, 6)
       [] p[2] = WRITE_MULTIPLE_COILS ->
            IF p[7] = Bytes(n) /\ Len(p) = 7 + p[7] THEN SubSeq(p, 1, 6) ELSE wrong
       [] p[2] = WRITE_MULTIPLE_REGISTERS ->
            IF p[7] = 2 * n /\ Len(p) = 7 + p[7] THEN SubSeq(p, 1, 6) ELSE wrong
       [] OTHER -> <<p[1], p[2]>> \o <<42>>

TrIdOf(mode, f) == IF mode = "TCP" THEN 256 * f[1] + f[2] ELSE 0

(* ---------------------------------------------------------------------- *)
(* The exchange                                                            *)
(* ---------------------------------------------------------------------- *)

Idle == [st |-> "idle", want |-> [name |-> "none"], expected |-> 0, res |-> Failed("none")]

Init ==
  /\ mb \in {[mode |-> m, trId |-> 0, isCustom |-> FALSE,
              req |-> [slave |-> 0, fun |-> MASK_ERROR, bc |-> 0], buf |-> "none"] : m \in Modes}
  /\ call = Idle
  /\ line = [todo |-> <<>>, air |-> <<>>, in |-> <<>>, last |-> <<>>]
  /\ hist = [asked |-> {}, n |-> 0, late |-> FALSE, faults |-> 0]

\* A request: the lock is taken, the frame built, the line flushed, the frame
\* written.  A refused request frees its buffer and returns.
Ask(c) ==
  LET r == ToRequest(c)
      isCustom == c.name = "customRequest"
      pdu == IF isCustom THEN MODBUS_SER_CreateCustomRequest(r) ELSE MODBUS_SER_CreateRequest(mb.mode, r)
      trId == IF mb.mode = "TCP" THEN NextTrId(mb.trId) ELSE 0
      bc == RequestBytes(r)
      late == line.todo # <<>> \/ line.air # <<>>
  IN /\ call.st = "idle" /\ hist.n < MaxCalls
     /\ IF pdu = Refused
          THEN /\ call' = [Idle EXCEPT !.want = c, !.res = Failed("REQUEST_PARAMETER_ERROR")]
               /\ mb' = [mb EXCEPT !.buf = "none"]
               /\ UNCHANGED line
          ELSE /\ mb' = [mb EXCEPT !.trId = trId, !.isCustom = isCustom, !.buf = r.buf,
                                   !.req = [slave |-> r.slave, fun |-> r.fun, bc |-> bc]]
               /\ call' = [st |-> "sent", want |-> c, res |-> Failed("none"),
                           expected |-> MODBUS_SER_GetExpectedResponseLength(mb.mode, isCustom, r.fun, bc)]
               /\ line' = [line EXCEPT !.todo = Append(@, Frame(mb.mode, trId, pdu)),
                                       !.in = IF mb.mode = "TCP" THEN @ ELSE <<>>]
     /\ hist' = [hist EXCEPT !.asked = @ \cup {c}, !.n = @ + 1, !.late = @ \/ late]

\* The device answers the oldest request, or never does.
Reply ==
  /\ line.todo # <<>>
  /\ LET f == Head(line.todo)
         p == Received(mb.mode, f)
     IN line' = [line EXCEPT !.todo = Tail(@),
                             !.air = @ \o Frame(mb.mode, TrIdOf(mb.mode, f), Answer(p)),
                             !.last = IF p[2] \in WritesOne \cup WritesMany THEN p ELSE @]
  /\ UNCHANGED <<mb, call, hist>>

Mute ==
  /\ line.todo # <<>> /\ line' = [line EXCEPT !.todo = Tail(@)]
  /\ UNCHANGED <<mb, call, hist>>

\* Bytes arrive, the first part of an answer or all of it.
Arrive ==
  /\ line.air # <<>>
  /\ \E k \in {(Len(line.air) + 1) \div 2, Len(line.air)} :
       line' = [line EXCEPT !.in = @ \o SubSeq(line.air, 1, k),
                            !.air = SubSeq(@, k + 1, Len(@))]
  /\ UNCHANGED <<mb, call, hist>>

\* A serial line changes a byte in transit or loses it.
Disturb ==
  /\ mb.mode # "TCP" /\ hist.faults < MaxFaults
  /\ \E k \in DOMAIN line.air :
       \E piece \in {<<>>, <<line.air[k] ^^ 4>>} :
         line' = [line EXCEPT !.air = SubSeq(@, 1, k - 1) \o piece \o SubSeq(@, k + 1, Len(@))]
  /\ hist' = [hist EXCEPT !.faults = @ + 1]
  /\ UNCHANGED <<mb, call>>

\* Nothing came in time, or the socket fails: the link is closed, the buffer
\* of the request stays allocated until the next request.
Fail(why) ==
  /\ call' = [call EXCEPT !.st = "idle", !.res = Failed(why)]
  /\ line' = [line EXCEPT !.in = <<>>, !.todo = IF mb.mode = "TCP" THEN <<>> ELSE @,
                          !.air = IF mb.mode = "TCP" THEN <<>> ELSE @]
  /\ UNCHANGED <<mb, hist>>

Finish(res, rest) ==
  /\ call' = [call EXCEPT !.st = "idle", !.res = res]
  /\ mb' = [mb EXCEPT !.buf = "none"]
  /\ line' = [line EXCEPT !.in = rest]
  /\ UNCHANGED hist

\* modbus.lua: read(expected) returns that many bytes, or at the timeout what
\* is there.
SerialRead ==
  /\ call.st = "sent" /\ mb.mode # "TCP"
  /\ LET k == IF Len(line.in) < call.expected THEN Len(line.in) ELSE call.expected
     IN IF k = 0 THEN Fail("timeout")
        ELSE Finish(ReceiveResponse(mb, SubSeq(line.in, 1, k)), SubSeq(line.in, k + 1, Len(line.in)))

\* modbustcp.lua: the header, then as many bytes as it announces; any error
\* but an exception of the device closes the socket.
TcpRead ==
  /\ call.st = "sent" /\ mb.mode = "TCP"
  /\ IF Len(line.in) < 6 THEN Fail("timeout")
     ELSE LET k == 256 * line.in[5] + line.in[6]
              whole == Len(line.in) >= 6 + k
              res == ReceiveResponse(mb, SubSeq(line.in, 1, IF whole THEN 6 + k ELSE 6))
          IN IF res.st \notin {"OK", "EXCEPTION"} THEN Fail(res.st)
             ELSE Finish(res, SubSeq(line.in, 7 + k, Len(line.in)))

Next ==
  \/ \E c \in Calls : Ask(c)
  \/ Reply \/ Mute \/ Arrive \/ Disturb \/ SerialRead \/ TcpRead

Spec == Init /\ [][Next]_vars

(* ---------------------------------------------------------------------- *)
(* Property                                                                *)
(* ---------------------------------------------------------------------- *)

\* What the application should get for c.
RightData(c) ==
  CASE c.name \in {"readCoils", "readDiscreteInputs"} -> BitsFrom(c.sid, c.addr, c.n)
    [] c.name \in {"readHoldingRegisters", "readInputRegisters"} ->
         Swapped(WordsFrom(c.sid, c.addr, c.n))
    [] OTHER -> <<>>

\* The write the device did is the one c asks for.
Done(c) ==
  LET p == line.last
  IN /\ p # <<>> /\ p[1] = c.sid /\ 256 * p[3] + p[4] = c.addr
     /\ CASE c.name \in {"writeSingleCoil", "writeSingleRegister"} -> 256 * p[5] + p[6] = c.vals[1]
          [] c.name = "writeMultipleCoils" -> SubSeq(p, 8, Len(p)) = c.vals
          [] c.name = "writeMultipleRegisters" -> SubSeq(p, 8, Len(p)) = Swapped(c.vals)
          [] OTHER -> FALSE

Right(c) ==
  CASE c.name \in {"readCoils", "readDiscreteInputs", "readHoldingRegisters", "readInputRegisters"} ->
         call.res.data = RightData(c)
    [] c.name = "customRequest" -> TRUE
    [] OTHER -> Done(c)

\* A request that succeeds returns the values the device holds at the address
\* asked for, or has made the device do the write asked for, whatever byte
\* the line changed or lost and however the answer was cut.  When an earlier
\* exchange of a serial master was given up while its answer was still to
\* come, the answer may be the earlier one's: RTU and ASCII frames carry no
\* number, only the slave and the function are compared.  With TCP it never
\* is.  Data are never stored where no buffer is allocated.
AnswerIsRight ==
  /\ call.res.st # "UNDEFINED"
  /\ call.res.st = "OK" =>
       \/ Right(call.want)
       \/ /\ hist.late /\ mb.mode # "TCP"
          /\ \E c \in hist.asked : c.name = call.want.name /\ c.sid = call.want.sid
                                   /\ call.res.data = RightData(c)

=============================================================================
