------------------------------ MODULE MCCodecs ------------------------------
(***************************************************************************)
(* The components that turn values into bytes and bytes into values, which *)
(* come in pieces, checked in one run.  They are independent: an initial   *)
(* state chooses one of those in CheckedParts, which then has the          *)
(* variables to itself.                                                    *)
(***************************************************************************)
EXTENDS Integers, Sequences

CONSTANT CheckedParts  \* the components that are checked

VARIABLES part, v1, v2, v3, v4, v5

vars == <<part, v1, v2, v3, v4, v5>>

-----------------------------------------------------------------------------
(* Yajl: values to write and read back, texts to read, among them every    *)
(* kind of invalid one, and sequences of calls of the generator.           *)

JNumber(t) == [t |-> "number", v |-> t]
JString(t) == [t |-> "string", v |-> t]
JBool(b) == [t |-> "boolean", v |-> b]
JTable(kv) == [t |-> "table", v |-> kv]
JOther(t) == [t |-> t, v |-> <<>>]
JNil == JOther("nil")
Key(t, v, n, whole) == [t |-> t, v |-> v, n |-> n, whole |-> whole]
SKey(t) == Key("string", t, -1, FALSE)
NKey(n) == Key("number", <<48 + n>>, n, TRUE)
JArray(s) == JTable([i \in DOMAIN s |-> <<NKey(i), s[i]>>])
One == JNumber(<<49>>)
JValues ==
  {JNil, One, JNumber(<<45, 49, 46, 53, 101, 43, 50>>), JOther("huge"), JOther("minushuge"), JOther("nan"),
   JBool(TRUE), JString(<<>>), JString(<<97, 34, 92, 10, 9, 13, 8, 12, 1, 31, 47>>),
   JString(<<195, 169, 226, 130, 172, 240, 159, 152, 128>>), JString(<<195, 40>>), JTable(<<>>),
   JArray(<<One, JNil, JBool(FALSE), JString(<<97>>)>>), JArray(<<JOther("function"), One>>),
   JTable(<< <<NKey(3), One>>, <<Key("number", <<45, 49>>, -1, TRUE), One>>, <<NKey(1), JTable(<<>>)>> >>),
   JTable(<< <<SKey(<<97>>), One>>, <<SKey(<<10>>), JArray(<<JString(<<97>>)>>)>>, <<NKey(2), JNil>>,
             <<Key("boolean", <<116, 114, 117, 101>>, 0, FALSE), JBool(TRUE)>>,
             <<Key("number", <<48, 46, 53>>, 0, FALSE), JTable(<< <<SKey(<<97>>), JNumber(<<48>>)>> >>)>> >>),
   JTable(<< <<SKey(<<97>>), JOther("function")>>, <<SKey(<<98>>), JString(<<99>>)>> >>),
   JTable(<< <<SKey(<<97>>), JOther("function")>>, <<SKey(<<98>>), One>> >>),
   JArray(<<JArray(<<JArray(<<One>>)>>)>>), JArray(<<JArray(<<JArray(<<JArray(<<One>>)>>)>>)>>)}

JText(t, comments, utf8) == [text |-> t, comments |-> comments, utf8 |-> utf8]
JTexts ==
  {JText(<<47, 42, 42, 42, 32, 42, 47, 123, 34, 97, 34, 58, 47, 42, 47, 42, 47, 49, 50, 125, 47, 47, 32, 10>>,
         TRUE, TRUE),
   JText(<<47, 120>>, TRUE, TRUE), JText(<<34, 195, 40, 34>>, FALSE, FALSE)} \cup
  {JText(t, FALSE, TRUE) : t \in
    {<<91, 49, 44, 45, 50, 93, 32>>, <<47, 42>>, <<91, 49, 46, 93>>, <<45, 120>>, <<49, 101, 43, 93>>,
     <<34, 92, 117, 48, 48, 101, 57, 92, 117, 68, 56, 51, 68, 92, 117, 68, 69, 48, 48, 34>>,
     <<34, 92, 117, 68, 56, 51, 68, 97, 98, 34>>, <<34, 92, 117, 48, 103>>, <<34, 92, 120>>,
     <<34, 1, 34>>, <<34, 240, 159, 40, 34>>, <<34, 128, 34>>,
     <<123, 34, 97, 34, 58, 49, 44, 34, 97, 34, 58, 50, 125, 32>>, <<123, 49>>, <<123, 34, 97, 34, 44>>,
     <<123, 34, 97, 34, 58, 49, 93>>, <<91, 49, 125>>, <<49, 32, 50>>, <<91, 44>>, <<116, 114, 120>>,
     <<120>>, <<123, 34, 97, 34, 58, 125>>, <<123, 34, 97, 34, 58, 49, 44, 125>>}}
JCalls == {[call |-> c, v |-> JNil] : c \in {"open_object", "open_array", "close", "value"}}
          \cup {[call |-> "value", v |-> JString(<<97>>)], [call |-> "value", v |-> JOther("function")]}

Y == INSTANCE Yajl WITH
  Values <- JValues, Texts <- JTexts, Calls <- JCalls, MaxCalls <- 5,
  MaxDepth <- 4, Gulps <- {1, 2, 5, 99},
  job <- v1, gen <- v2, hand <- v3, fed <- v4

-----------------------------------------------------------------------------
(* Bysant: documents with the integers at the bounds of each encoding, all *)
(* the kinds of containers and contexts, classes, and too deep a nesting.  *)

BList(sized, ctxid, items) == [k |-> "list", sized |-> sized, ctxid |-> ctxid, items |-> items]
BMap(sized, ctxid, items) == [k |-> "map", sized |-> sized, ctxid |-> ctxid, items |-> items]
BInt(x) == [k |-> "int", x |-> x]
BStr(n) == [k |-> "str", len |-> n]
BBool(b) == [k |-> "bool", b |-> b]
BDbl(v) == [k |-> "dbl", v |-> v]
BNull == [k |-> "null"]
BChunked(lens) == [k |-> "chunked", lens |-> lens]
BObject(cls, items) == [k |-> "object", cls |-> cls, items |-> items]
Empty == BList(TRUE, 0, <<>>)

(* Contexts: 0 global, 1 unsigned or string, 2 number, 3 int32, 4 float,   *)
(* 5 double, 6 list or map.                                                *)
Point == [id |-> 0, name |-> <<80>>,
          fields |-> <<[name |-> <<88>>, ctxid |-> 2], [name |-> <<89>>, ctxid |-> 6]>>]
Anonymous == [id |-> 20, name |-> <<>>,
              fields |-> <<[name |-> <<>>, ctxid |-> 1], [name |-> <<>>, ctxid |-> 0]>>]
Def(c, internal) == [def |-> c, internal |-> internal]

MinInt == -2147483647 - 1
Bounds == {0, 64, 65, -31, -32, 2112, 2113, -2079, -2080, 264256, 264257, -264223, -264224,
           33818688, 33818689, -33818656, 2147483647, MinInt}
Trees ==
  {BList(TRUE, 0, <<BInt(x), BInt(-5)>>) : x \in Bounds} \cup
  {BList(FALSE, 2, <<BInt(97), BInt(-98), BInt(528482), BDbl("f32"), BDbl("f64")>>),
   BList(TRUE, 3, <<BInt(MinInt), BNull, BInt(-2)>>),
   BList(FALSE, 4, <<BDbl("ones"), BDbl("f32")>>),
   BList(TRUE, 5, <<BDbl("ones"), BNull, BDbl("f64")>>),
   BList(TRUE, 0, <<BStr(0), BStr(32), BStr(33), BBool(TRUE), BNull>>),
   BList(TRUE, 0, [i \in 1 .. 10 |-> BBool(i = 1)]),
   BList(TRUE, 6, <<BList(FALSE, 1, <<BInt(139), BInt(140), BStr(1)>>),
                    BMap(TRUE, 2, << <<BStr(1), BInt(3)>>, <<BInt(9000), BDbl("f64")>> >>), Empty, BNull>>),
   BMap(FALSE, 0, << <<BStr(1), BList(TRUE, 0, <<BBool(FALSE)>>)>>, <<BInt(2), BChunked(<<2, 3>>)>>,
                     <<BChunked(<<1, 1>>), BNull>> >>),
   BList(TRUE, 0, <<BList(TRUE, 0, <<BList(TRUE, 0, <<Empty>>)>>)>>)}
Documents ==
  {[classes |-> <<>>, val |-> t] : t \in Trees} \cup
  {[classes |-> <<Def(Point, FALSE)>>, val |-> BObject(Point, <<BInt(5), Empty>>)],
   [classes |-> <<Def(Anonymous, TRUE)>>,
    val |-> BList(TRUE, 0, <<BObject(Anonymous, <<BStr(2), BNull>>),
                             BObject(Anonymous, <<BInt(1100000), BBool(TRUE)>>)>>)]}

B == INSTANCE Bysant WITH
  Docs <- Documents, Depth <- 4, Rooms <- {0, 1, 2, 3, 5, 99}, MaxOver <- 2,
  Gulps <- {1, 2, 3, 7, 99},
  job <- v1, ser <- v2, out <- v3, des <- v4, lua <- v5

-----------------------------------------------------------------------------
(* StageDB: tables of every storage method, and consolidations.  Chunks    *)
(* have eight bytes, so that cells lie across them; once with a serializer *)
(* that overflows, once with writes that fail.                             *)

Num(n) == <<"int", n>>
Col(method, arg, values) == [method |-> method, arg |-> arg, values |-> values]
To(method, src) == [method |-> method, src |-> src]
Tables ==
  {[columns |-> <<Col("smallest", 0, {Num(6), Num(200)}), Col("list", 0, {Num(1), <<"str", 4>>})>>, dst |-> <<>>],
   [columns |-> <<Col("deltasvector", 10, {Num(15), Num(27), Num(-200)})>>, dst |-> <<>>],
   [columns |-> <<Col("quasiperiodicvector", 6, {Num(3), Num(9), Num(20), <<"str", 0>>})>>, dst |-> <<>>],
   [columns |-> <<Col("smallest", 10, {Num(1000), Num(1015), Num(1030)})>>, dst |-> <<>>],
   [columns |-> <<Col("smallest", 0, {Num(-4000), Num(-4002)})>>, dst |-> <<>>],
   [columns |-> <<Col("list", 0, {Num(6), Num(200)}), Col("list", 0, {Num(1), <<"str", 4>>})>>,
    dst |-> <<To("last", 2), To("median", 1), To("mean", 2)>>],
   [columns |-> <<Col("list", 0, {Num(3), Num(90), <<"str", 0>>})>>,
    dst |-> <<To("sum", 1), To("middle", 1), To("first", 1), To("max", 1), To("min", 1)>>]}

DO == INSTANCE StageDB WITH
  ChunkSize <- 8, MinChunk <- 2, MaxRows <- 3, MaxResets <- 1, MaxOver <- 1,
  MaxFaults <- 0,
  tbl <- v1, out <- v2, dst <- v3, cache <- v4, hist <- v5

DF == INSTANCE StageDB WITH
  ChunkSize <- 8, MinChunk <- 2, MaxRows <- 3, MaxResets <- 0, MaxOver <- 0,
  MaxFaults <- 1,
  tbl <- v1, out <- v2, dst <- v3, cache <- v4, hist <- v5

-----------------------------------------------------------------------------
(* The filters of the mail encodings and the digests, over short texts.    *)

Over(f, letters, n) == {[filter |-> f, text |-> t] : t \in UNION {[1 .. k -> letters] : k \in 0 .. n}}
Filters ==
  Over("b64", {0, 77, 255}, 4) \cup Over("qp", {65, 32, 13, 10, 61, 200}, 3)
  \cup Over("wrp", {65, 13, 10}, 6) \cup Over("eol", {65, 13, 10}, 5) \cup Over("dot", {46, 13, 10}, 5)
  \cup Over("unqp", {61, 65, 13, 10}, 5) \cup Over("unb64", {0, 63, 64, 99}, 5) \cup Over("qpwrp", {61, 65, 10}, 5)

M == INSTANCE Mime WITH
  Jobs <- Filters, Gulps <- {1, 2, 3}, length <- 4,
  job <- v1, st <- v2, out <- v3

\* A block of eight bytes, two of them for the length.
H == INSTANCE Digest WITH
  Block <- 8, LenB <- 2, DIGEST_LEN <- 3, Sizes <- {0, 1, 2, 5, 8, 17},
  MaxBytes <- 26, MaxCalls <- 7,
  ctx <- v1, fed <- v2, ans <- v3, hist <- v4

-----------------------------------------------------------------------------
(* SMS: binary messages of one to three parts, texts with escapes and      *)
(* headers, the kinds of addresses; parts come in any order, and twice.    *)

Address(kind, val) == [kind |-> kind, val |-> val]
Abroad == Address("+", <<3, 3, 6>>)
Binary == {[address |-> Address("", <<0, 6, 2, 2>>), from |-> Abroad, message |-> [k \in 1 .. n |-> (37 * k) % 256]] :
             n \in {0, 140, 141}}
          \cup {[address |-> Abroad, from |-> Address("", <<1, 2, 3, 4, 5>>),
                 message |-> [k \in 1 .. 267 |-> (37 * k) % 256]]}
Text(from, header, text, dcs) == [from |-> from, header |-> header, text |-> text, dcs |-> dcs]
Hello == <<72, 101, 108, 108, 111, 33, 32, 64, 36>>
Short == Address("", <<1, 2>>)
Sept == <<65, 66, 67, 68, 69, 70, 71>>
SmsTexts ==
  {Text(Abroad, <<>>, Hello, 0), Text(Address("name", Sept), <<5, 4, 11, 132, 11, 132>>, Hello, 0),
   Text(Address("name", Append(Sept, 72)), <<7, 1, 0>>, <<94, 91, 123, 124, 228, 12>>, 0),
   Text(Short, <<>>, <<>>, 0), Text(Short, <<>>, <<65>>, 8), Text(Short, <<>>, <<65>>, 64)}

S == INSTANCE Sms WITH
  Texts <- SmsTexts, Refs <- {<<1, 2>>, <<200, 3>>}, MaxSends <- 2,
  MaxDups <- 1,
  net <- v1, concatsms <- v2, got <- v3, hist <- v4

-----------------------------------------------------------------------------
(* Modbus: reads, writes, a refused and a custom request in each mode, two *)
(* calls, a fault.                                                         *)

Request(name, sid, addr, n, vals) == [name |-> name, sid |-> sid, addr |-> addr, n |-> n, vals |-> vals]
Requests ==
  {Request("readCoils", 1, 2, 9, <<>>), Request("readHoldingRegisters", 1, 2, 1, <<>>),
   Request("readHoldingRegisters", 1, 300, 1, <<>>), Request("readInputRegisters", 2, 1, 126, <<>>),
   Request("writeSingleRegister", 2, 258, 0, <<4660>>),
   Request("writeMultipleRegisters", 1, 1, 0, <<10, 0, 2, 1>>), Request("customRequest", 1, 0, 17, <<5>>)}

R == INSTANCE Modbus WITH
  Modes <- {"RTU", "ASCII", "TCP"}, Calls <- Requests, MaxCalls <- 2,
  MaxFaults <- 1,
  mb <- v1, call <- v2, line <- v3, hist <- v4

-----------------------------------------------------------------------------
(* The console: telnet commands cut anywhere, and keys of a line editor in *)
(* narrow windows.                                                         *)

TelnetMessages ==
  {<<120>>, <<10>>, <<13, 0>>, <<13, 120>>, <<255, 253, 6>>, <<255, 251, 1>>, <<255, 251, 34>>,
   <<255, 250, 31, 0, 255, 255, 0, 24, 255, 240>>, <<255, 250, 34, 120>>, <<255, 244>>, <<255, 237>>,
   <<255, 236>>, <<4>>, <<255, 255>>, <<255, 241>>, <<19>>}

T == INSTANCE Telnet WITH
  Messages <- TelnetMessages, MaxMsgs <- 2,
  ts <- v1, wire <- v2, seen <- v3, got <- v4, hist <- v5

Keys == {<<8>>, <<27, 91, 51, 126>>, <<27, 127>>, <<27, 91, 51, 59, 51, 126>>, <<27, 10>>, <<27, 91, 65>>,
         <<27, 91, 66>>, <<9>>, <<27, 91, 68>>, <<27, 91, 67>>, <<27, 91, 49, 59, 51, 68>>,
         <<27, 91, 49, 59, 51, 67>>, <<1>>, <<5>>, <<97>>, <<32>>, <<13, 10>>, <<27, 91, 50, 126>>}

E == INSTANCE Teel WITH
  Inputs <- Keys, Prompt <- <<62>>, Lines <- << <<117, 118, 32, 119, 120>>,
  <<117, 118, 119, 120, 121, 10, 122>> >>, Proposals <- {<<>>, << <<97, 98,
  99, 100, 101, 102, 103, 104>> >>, << <<97, 98, 99>>, <<97, 99>> >>},
  Widths <- {5, 7}, HistorySize <- 2, MaxInputs <- 4,
  ed <- v1, ti <- v2, ref <- v3, hist <- v4

-----------------------------------------------------------------------------
Init ==
  /\ part \in CheckedParts
  /\ \/ part = "bysant" /\ B!Init
     \/ part = "stagedb" /\ DO!Init
     \/ part = "stagefault" /\ DF!Init
     \/ part = "yajl" /\ Y!Init /\ v5 = 0
     \/ part = "mime" /\ M!Init /\ v4 = 0 /\ v5 = 0
     \/ part = "digest" /\ H!Init /\ v5 = 0
     \/ part = "sms" /\ S!Init /\ v5 = 0
     \/ part = "modbus" /\ R!Init /\ v5 = 0
     \/ part = "telnet" /\ T!Init
     \/ part = "teel" /\ E!Init /\ v5 = 0

Next ==
  /\ UNCHANGED part
  /\ \/ part = "bysant" /\ B!Next
     \/ part = "stagedb" /\ DO!Next
     \/ part = "stagefault" /\ DF!Next
     \/ part = "yajl" /\ Y!Next /\ UNCHANGED v5
     \/ part = "mime" /\ M!Next /\ UNCHANGED <<v4, v5>>
     \/ part = "digest" /\ H!Next /\ UNCHANGED v5
     \/ part = "sms" /\ S!Next /\ UNCHANGED v5
     \/ part = "modbus" /\ R!Next /\ UNCHANGED v5
     \/ part = "telnet" /\ T!Next
     \/ part = "teel" /\ E!Next /\ UNCHANGED v5

Spec == Init /\ [][Next]_vars

-----------------------------------------------------------------------------
\* A document is rebuilt as the value it came from, wherever the writer
\* overflowed and however the bytes arrive; no overflow outside the header of a
\* container makes a later call fail (bysants.c, bysantd.c).
BysantRebuilds == part = "bysant" => B!RebuiltAsWritten /\ B!OverflowIsHarmless

\* "Therefore, once the overflow is over, the same serialization operation must
\* be retried" (bysants.h, bss_writer_t): the retried operation is accepted,
\* whichever it is.
RetriedIsAccepted == part = "bysant" => B!RetriedIsAccepted

\* A serialization of a table sends the values its rows were given, however
\* often the output overflows and whichever container is picked; a consolidated
\* row holds the reduction of each column, unless a cell was copied through what
\* copy_data_ram remembers of another (sdb_serialize.c, sdb_read.c, sdb_write.c,
\* sdb_consolidate.c).
TablesAreFaithful ==
  [][/\ part = "stagedb" => DO!SerializedIsStored' /\ DO!ConsolidatedIsRight
     /\ part = "stagefault" => DF!SerializedIsStored' /\ DF!ConsolidatedIsRight]_vars

\* The events of a JSON text do not depend on the pieces it is read in, and what
\* the generator accepted is read back as the value it was given (yajl.c).
JsonIsReadBack == part = "yajl" => Y!PiecesDoNotMatter /\ Y!ReadAsWritten

\* A filter gives the same text whatever the pieces, and the decoder of an
\* encoding gives back what was encoded (mime.c).
FilteredIsWhole == part = "mime" => M!FilteredIsWhole

\* A digest of MD5, or of HMAC with either, is the one of all the bytes given
\* since the context was made, in whatever pieces (md5.c, sha1.c, hmac.c).
DigestIsOfAll == part = "digest" => H!DigestIsOfAll

\* "Streaming implementation of SHA1 for Lua" (luafwk/crypto/sha1.c).
Sha1IsComputed == part = "digest" => H!Sha1IsComputed

\* A message in several SMS is signalled whole, with its address, whatever the
\* order and the repetition of its parts, and only when none is missing
\* (smspdu.c, messaging.lua).
MessageIsWhole == part = "sms" => S!MessageIsWhole

\* A Modbus call that succeeds returns the values the device answered to that
\* request, whatever is late, lost or damaged on the line (modbus.c).
AnswerIsRight == part = "modbus" => R!AnswerIsRight

\* The lines and the commands of a telnet session do not depend on where the
\* stream is cut, and the edited line is the text the user sees (telnet.c,
\* teel.c).
ConsoleIsFaithful == /\ part = "telnet" => T!CutsDoNotMatter
                     /\ part = "teel" => E!EditIsText
=============================================================================
