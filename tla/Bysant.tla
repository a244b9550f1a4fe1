------------------------------- MODULE Bysant -------------------------------
(***************************************************************************)
(* Bysant, the binary encoding of M3DA: the streaming serializer           *)
(* (libs/bysant/bysants.c), the deserializer (bysantd.c), the collection   *)
(* of classes they share (bysant_class.c) and the Lua bindings that walk   *)
(* them (luafwk/m3da/bysant).                                              *)
(*                                                                         *)
(* A writer that overflows makes the current call return BSS_EAGAIN; the   *)
(* caller repeats it and the bytes already written are skipped.  A reader  *)
(* that lacks bytes hibernates and is called again with a longer buffer.   *)
(* A document is a tree; its calls are those the Lua serializer makes.     *)
(* The payload of a string is its length; a number that is not an integer  *)
(* is one of three classes of doubles.                                     *)
(***************************************************************************)
EXTENDS Integers, Sequences, FiniteSets, SequencesExt

CONSTANTS Docs,        \* the documents: [classes, val]
          Depth,       \* BSS_STACK_SIZE and BSD_STACK_SIZE
          Rooms,       \* bytes a writer may take before it overflows
          MaxOver,     \* overflows of the writer in one run
          Gulps        \* bytes that may arrive between two calls of the reader

VARIABLES job,         \* the document, its calls, the next one, the last status
          ser,         \* bss_ctx_t
          out,         \* the bytes the writer took
          des,         \* bsd_ctx_t, the offset and the bytes that arrived
          lua          \* the Lua stack of the deserializer, its outcome

vars == <<job, ser, out, des, lua>>

GLOBAL == 0
UIS == 1
NUMBER == 2
INT32 == 3
FLOAT == 4
DOUBLE == 5
LISTMAP == 6
LAST == 7
CHUNKED == 256
OBJECT == 257

None == [id |-> -1, name |-> <<>>, fields |-> <<>>]
Low(a, b) == IF a < b THEN a ELSE b

-----------------------------------------------------------------------------
(* The encodings, bysant_common.c.                                         *)

Coll(empty, varT, varU, limit, smallT, smallU, longT, longU, fixed, var) ==
    [empty |-> empty, varT |-> varT, varU |-> varU, limit |-> limit,
     smallT |-> smallT, smallU |-> smallU, longT |-> longT, longU |-> longU,
     fixed |-> fixed, var |-> var]

GlobalList == Coll(42, 64, 53, 9, 54, 43, 63, 52, "LIST", "ZLIST")
GlobalMap == Coll(65, 87, 76, 9, 77, 66, 86, 75, "MAP", "ZMAP")
ListMapList == Coll(1, 125, 63, 60, 64, 2, 124, 62, "LIST", "ZLIST")
ListMapMap == Coll(131, 255, 193, 60, 194, 132, 254, 192, "MAP", "ZMAP")

GlobalString == [small |-> 32, sop |-> 3, medium |-> 1056, mop |-> 36,
                 large |-> 66592, lop |-> 40, cop |-> 41]
UisString == [small |-> 47, sop |-> 1, medium |-> 2095, mop |-> 49,
              large |-> 67631, lop |-> 57, cop |-> 58]

(* A level of an integer encoding: its bounds and its two opcodes.         *)
Level(lo, hi, pos, neg) == [lo |-> lo, hi |-> hi, pos |-> pos, neg |-> neg]

GlobalInteger == [zero |-> 159, lv |-> << Level(-31, 64, 0, 0), Level(-2079, 2112, 224, 232),
    Level(-264223, 264256, 240, 244), Level(-33818655, 33818688, 248, 250) >>, last |-> 251]
NumberInteger == [zero |-> 98, lv |-> << Level(-97, 97, 0, 0), Level(-4193, 4193, 196, 212),
    Level(-528481, 528481, 228, 236), Level(-67637345, 67637345, 244, 248) >>, last |-> 251]

-----------------------------------------------------------------------------
(* What each primitive of the serializer writes.                           *)

BigEndian(x, n) == [i \in 1..n |-> (x \div (256 ^ (n - i))) % 256]

(* The opcode carries the high bits of the offset, n bytes the others.     *)
WithOpcode(op, off, n) == << op + (off \div (256 ^ n)) >> \o BigEndian(off, n)

WriteInteger(x, enc) ==
    LET fits == {l \in 1..4 : enc.lv[l].lo <= x /\ x <= enc.lv[l].hi}
        l    == CHOOSE i \in fits : \A j \in fits : i <= j
        off  == IF x < 0 THEN enc.lv[l - 1].lo - 1 - x ELSE x - enc.lv[l - 1].hi - 1
    IN  CASE fits = {} -> <<252>> \o BigEndian(x, 4)
          [] fits # {} /\ l = 1 -> << enc.zero + x >>
          [] OTHER -> WithOpcode(IF x < 0 THEN enc.lv[l].neg ELSE enc.lv[l].pos, off, l - 1)

WriteUnsignedInteger(x) ==
    CASE x <= 139 -> << x + 59 >>
      [] 139 < x /\ x <= 8331 -> WithOpcode(199, x - 140, 1)
      [] 8331 < x /\ x <= 1056907 -> WithOpcode(231, x - 8332, 2)
      [] 1056907 < x /\ x <= 135274635 -> WithOpcode(247, x - 1056908, 3)
      [] OTHER -> <<255>> \o BigEndian(x, 4)

(* Three doubles: one that is a float, one that is not, and the NaN whose  *)
(* bits are all ones, which is also the null of its context.               *)
Float32Bytes(v) == IF v = "ones" THEN <<255, 255, 255, 255>> ELSE <<64, 96, 0, 0>>
Float64Bytes(v) == CASE v = "ones" -> [i \in 1..8 |-> 255]
                     [] v = "f32" -> <<64, 12, 0, 0, 0, 0, 0, 0>>
                     [] OTHER -> <<63, 241, 153, 153, 153, 153, 153, 154>>
WriteFloat(v) == IF v = "f32" THEN <<254>> \o Float32Bytes(v) ELSE <<255>> \o Float64Bytes(v)

Payload(n) == [i \in 1..n |-> 120]
WriteString(s, enc) ==
    LET n == Len(s)
    IN  (CASE n <= enc.small -> << enc.sop + n >>
           [] enc.small < n /\ n <= enc.medium -> WithOpcode(enc.mop, n - enc.small - 1, 1)
           [] OTHER -> << enc.lop >> \o BigEndian(n - enc.medium - 1, 2)) \o s
WriteChunk(n) == BigEndian(n, 2) \o Payload(n)

CollectionHeader(len, ctxid, enc) ==
    LET typed == ctxid # GLOBAL
        op    == IF len < 0 THEN << IF typed THEN enc.varT ELSE enc.varU >>
                 ELSE IF len = 0 THEN << enc.empty >>
                 ELSE IF len <= enc.limit
                 THEN << len - 1 + IF typed THEN enc.smallT ELSE enc.smallU >>
                 ELSE << IF typed THEN enc.longT ELSE enc.longU >>
                      \o WriteUnsignedInteger(len - enc.limit - 1)
    IN  op \o (IF len # 0 /\ typed THEN << ctxid >> ELSE <<>>)

NullToken(ctxid) == CASE ctxid = INT32 -> <<128, 0, 0, 0, 0>>
                      [] ctxid = FLOAT -> <<255, 255, 255, 255, 0>>
                      [] ctxid = DOUBLE -> [i \in 1..8 |-> 255] \o <<0>>
                      [] OTHER -> <<0>>

ClassBytes(k) ==
    LET named == k.name # <<>>
        Name(s) == IF named THEN WriteString(s, UisString) ELSE <<>>
        Field(f) == Name(f.name) \o << f.ctxid >>
    IN  << IF named THEN 113 ELSE 114 >> \o WriteUnsignedInteger(k.id) \o Name(k.name)
        \o WriteUnsignedInteger(Len(k.fields)) \o FlattenSeq([i \in DOMAIN k.fields |-> Field(k.fields[i])])

-----------------------------------------------------------------------------
(* The serialization context.  Frames above the top keep what an earlier   *)
(* container left there.                                                   *)

Frame(kind, ctxid, missing) ==
    [kind |-> kind, ctxid |-> ctxid, missing |-> missing, even |-> FALSE, cls |-> None]

bss_init == [stack |-> [i \in 0..Depth - 1 |-> Frame("TOP", GLOBAL, -1)], size |-> 0, asize |-> 0,
             written |-> 0, ack |-> 0, skipped |-> 0, broken |-> FALSE, classes |-> {}]

Top(c) == c.stack[c.size]
ClassOf(c, id) == IF \E k \in c.classes : k.id = id
                  THEN CHOOSE k \in c.classes : k.id = id ELSE None
bs_classcoll_set(classes, k) == {x \in classes : x.id # k.id} \union {k}

getctxid(f) ==
    IF f.kind \in {"MAP", "ZMAP"} /\ f.even THEN UIS
    ELSE IF f.kind = "OBJECT"
    THEN LET i == Len(f.cls.fields) - f.missing + 1
         IN  IF i \in DOMAIN f.cls.fields THEN f.cls.fields[i].ctxid ELSE LAST
    ELSE f.ctxid

(* What a call checks before it starts its transaction.                    *)
Refused(c, o) ==
    LET f == Top(c)
        x == getctxid(f)
        ok == CASE o.op \in {"list", "map"} -> x \in {GLOBAL, LISTMAP}
                [] o.op = "object" -> x = GLOBAL /\ ClassOf(c, o.id) # None
                [] o.op = "class" -> o.internal \/ x = GLOBAL
                [] o.op \in {"chunked", "string"} -> x \in {GLOBAL, UIS}
                [] o.op = "chunk" -> f.ctxid = CHUNKED /\ o.len > 0
                [] o.op = "int" -> x \in {GLOBAL, NUMBER, INT32} \/ (x = UIS /\ o.x >= 0)
                [] o.op = "bool" -> x = GLOBAL
                [] o.op = "double" -> x \in {GLOBAL, NUMBER, FLOAT, DOUBLE}
                [] o.op = "null" -> f.kind # "ZLIST" /\ ~(f.kind \in {"MAP", "ZMAP"} /\ f.even)
                [] o.op = "close" -> /\ f.kind # "TOP"
                                     /\ f.kind \in {"OBJECT", "LIST", "MAP"} => f.missing = 0
                                     /\ f.kind = "ZMAP" => f.even
    IN  ~ok

(* The bytes of a call in the context it is made in.                       *)
Bytes(c, o) ==
    LET f == Top(c)
        x == getctxid(f)
    IN CASE o.op = "list" ->
              CollectionHeader(o.len, o.ctxid, IF x = GLOBAL THEN GlobalList ELSE ListMapList)
         [] o.op = "map" ->
              CollectionHeader(o.len, o.ctxid, IF x = GLOBAL THEN GlobalMap ELSE ListMapMap)
         [] o.op = "object" -> IF o.id < 16 THEN << 96 + o.id >>
                               ELSE <<112>> \o WriteUnsignedInteger(o.id - 16)
         [] o.op = "class" -> ClassBytes(o.def)
         [] o.op = "chunked" -> << IF x = GLOBAL THEN GlobalString.cop ELSE UisString.cop >>
         [] o.op = "chunk" -> WriteChunk(o.len)
         [] o.op = "int" -> (CASE x = GLOBAL -> WriteInteger(o.x, GlobalInteger)
                               [] x = NUMBER -> WriteInteger(o.x, NumberInteger)
                               [] x = UIS -> WriteUnsignedInteger(o.x)
                               [] OTHER -> BigEndian(o.x, 4)
                                           \o IF o.x = -2147483647 - 1 THEN <<1>> ELSE <<>>)
         [] o.op = "bool" -> << IF o.b THEN 1 ELSE 2 >>
         [] o.op = "double" -> (CASE x = FLOAT -> Float32Bytes(o.v)
                                  [] x = DOUBLE -> Float64Bytes(o.v)
                                  [] OTHER -> WriteFloat(o.v))
                               \o IF x \in {FLOAT, DOUBLE} /\ o.v = "ones" THEN <<1>> ELSE <<>>
         [] o.op = "string" -> WriteString(o.s, IF x = GLOBAL THEN GlobalString ELSE UisString)
         [] o.op = "null" -> NullToken(x)
         [] o.op = "close" -> (CASE f.kind = "ZMAP" -> NullToken(UIS)
                                 [] f.kind = "ZLIST" -> NullToken(f.ctxid)
                                 [] f.kind = "CHUNKED" -> <<0, 0>>
                                 [] OTHER -> <<>>)

Opens(o) == o.op \in {"list", "map", "object", "chunked"}

(* openContainer: the new frame gets a kind and a context before a byte is *)
(* written; its counters are set only once the header is.                  *)
openContainer(c, o) ==
    LET kind == CASE o.op = "list" -> IF o.len < 0 THEN "ZLIST" ELSE "LIST"
                  [] o.op = "map" -> IF o.len < 0 THEN "ZMAP" ELSE "MAP"
                  [] o.op = "object" -> "OBJECT"
                  [] OTHER -> "CHUNKED"
        ctxid == CASE o.op = "object" -> OBJECT
                   [] o.op = "chunked" -> CHUNKED
                   [] OTHER -> o.ctxid
    IN  [c EXCEPT !.size = @ + 1, !.stack[c.size + 1].kind = kind, !.stack[c.size + 1].ctxid = ctxid]

(* What a call does to the stack once its bytes are out: a new container   *)
(* counts one more than its items, for the commit that follows.            *)
Settle(c, o) ==
    CASE o.op = "list" /\ o.len >= 0 -> [c EXCEPT !.stack[c.size].missing = o.len + 1]
      [] o.op = "map" -> [c EXCEPT !.stack[c.size].even = FALSE,
                                   !.stack[c.size].missing = IF o.len >= 0 THEN 2 * o.len + 1 ELSE @]
      [] o.op = "object" ->
           [c EXCEPT !.stack[c.size].missing = Len(ClassOf(c, o.id).fields) + 1,
                     !.stack[c.size].cls = ClassOf(c, o.id)]
      [] o.op = "close" -> [c EXCEPT !.size = @ - 1]
      [] o.op = "class" ->
           [c EXCEPT !.classes = bs_classcoll_set(@, o.def),
                     !.stack[c.size].even = IF Top(c).kind \in {"MAP", "ZMAP"} THEN ~@ ELSE @,
                     !.stack[c.size].missing =
                         IF Top(c).kind \in {"MAP", "LIST", "OBJECT"} THEN @ + 1 ELSE @]
      [] OTHER -> c

\* Mutant of startTransaction: the count of skipped bytes is not reset.
startWithSkips(c) ==
    LET f == Top(c)
        d == [c EXCEPT !.size = c.asize]
    IN  IF c.broken THEN [st |-> "EBROKEN", c |-> d]
        ELSE IF f.kind \in {"LIST", "MAP", "OBJECT"} /\ f.missing = 0 THEN [st |-> "ESIZE", c |-> d]
        ELSE [st |-> "EOK", c |-> d]

(* startTransaction looks at the top frame before it drops the frames of   *)
(* an unfinished call.                                                     *)
startTransaction(c) ==
    LET f == Top(c)
        d == [c EXCEPT !.size = c.asize]
    IN  IF c.broken THEN [st |-> "EBROKEN", c |-> d]
        ELSE IF f.kind \in {"LIST", "MAP", "OBJECT"} /\ f.missing = 0 THEN [st |-> "ESIZE", c |-> d]
        ELSE [st |-> "EOK", c |-> [d EXCEPT !.skipped = 0]]

commitTransaction(c) ==
    LET f == Top(c)
        d == [c EXCEPT !.stack[c.size].even = IF f.kind \in {"MAP", "ZMAP"} THEN ~@ ELSE @,
                       !.stack[c.size].missing = IF f.kind \in {"MAP", "LIST", "OBJECT"} THEN @ - 1 ELSE @,
                       !.ack = c.written, !.asize = c.size]
    IN  IF f.kind \in {"MAP", "LIST", "OBJECT"} /\ f.missing = 0
        THEN [st |-> "ESIZE", c |-> c] ELSE [st |-> "EOK", c |-> d]

(* writeData: skip what an earlier attempt wrote, hand the rest over.      *)
writeData(c, b, room) ==
    LET ahead  == c.written - c.ack - c.skipped
        toskip == IF ahead > 0 THEN ahead ELSE 0
        rest   == SubSeq(b, toskip + 1, Len(b))
        n      == Low(room, Len(rest))
    IN  IF toskip > 0 /\ toskip >= Len(b)
        THEN [st |-> "EOK", c |-> [c EXCEPT !.skipped = @ + Len(b)], bytes |-> <<>>]
        ELSE [st |-> IF n = Len(rest) THEN "EOK" ELSE "EAGAIN",
              c  |-> [c EXCEPT !.written = @ + n, !.skipped = @ + toskip + n],
              bytes |-> SubSeq(rest, 1, n)]

(* One call of the API: checks, transaction (s), stack (p), bytes (w),     *)
(* commit (t).  When the writer fails instead of overflowing, what was     *)
(* written is lost.                                                        *)
Written(p, w, t, fails) ==
    IF w.st = "EAGAIN" /\ fails
    THEN [st |-> "EWRITER", c |-> [p EXCEPT !.broken = p.written # p.ack], bytes |-> <<>>]
    ELSE IF w.st = "EAGAIN" THEN w
    ELSE [st |-> t.st, c |-> t.c, bytes |-> w.bytes]

Committed(p, w, o, fails) == Written(p, w, commitTransaction(Settle(w.c, o)), fails)

Started(s, o, room, fails) ==
    LET c == s.c
        p == IF Opens(o) THEN openContainer(c, o) ELSE c
    IN  IF s.st # "EOK" THEN [st |-> s.st, c |-> c, bytes |-> <<>>]
        ELSE IF Opens(o) /\ c.size = Depth - 1
        THEN [st |-> "ETOODEEP", c |-> [c EXCEPT !.broken = c.written # c.ack], bytes |-> <<>>]
        ELSE IF o.op = "class" /\ o.internal
        THEN [st |-> "EOK", c |-> [c EXCEPT !.classes = bs_classcoll_set(@, o.def)], bytes |-> <<>>]
        ELSE Committed(p, writeData(p, Bytes(c, o), room), o, fails)

Call(c, o, room, fails) ==
    LET plain == \/ o.op = "close" /\ Top(c).kind \in {"LIST", "MAP", "OBJECT"}
                 \/ o.op = "class" /\ o.internal
    IN  IF Refused(c, o) THEN [st |-> "EREFUSED", c |-> c, bytes |-> <<>>]
        ELSE Started(IF plain THEN [st |-> "EOK", c |-> c] ELSE startTransaction(c), o, room, fails)

-----------------------------------------------------------------------------
(* The deserializer.  A decoder returns n, the bytes it consumed, or minus *)
(* the bytes it needs, or 0 when the opcode is not its own; the type t and *)
(* the value v of what it read; and the context.                           *)

bsd_init == [stack |-> [i \in 0..Depth - 1 |-> Frame("TOP", GLOBAL, -1)], size |-> 0,
             classes |-> {}]

Got(d, n, t, v) == [n |-> n, t |-> t, v |-> v, d |-> d]
Short(d, n) == Got(d, -n, "SHORT", <<>>)
NotMine(d) == Got(d, 0, "NOTMINE", <<>>)
Error(d, why) == Got(d, 0, "ERROR", why)

FromBytes(b, first, n) == FoldLeft(LAMBDA acc, x : 256 * acc + x, 0, SubSeq(b, first, first + n - 1))
(* Four bytes as a signed integer, kept within the integers of the model.  *)
Signed32(b, first) == (IF b[first] >= 128 THEN b[first] - 256 ELSE b[first]) * 16777216
                      + FromBytes(b, first + 1, 3)

decodeInteger(d, b, enc) ==
    LET op   == b[1]
        Pos(l) == enc.lv[l].pos <= op /\ op < enc.lv[l].neg
        Neg(l) == enc.lv[l].neg <= op /\ op < IF l = 4 THEN enc.last + 1 ELSE enc.lv[l + 1].pos
        lvls == {l \in 2..4 : Pos(l) \/ Neg(l)}
        l    == CHOOSE i \in lvls : TRUE
        off  == (op - IF Pos(l) THEN enc.lv[l].pos ELSE enc.lv[l].neg) * 256 ^ (l - 1)
                + FromBytes(b, 2, l - 1)
    IN  IF enc.zero + enc.lv[1].lo <= op /\ op <= enc.zero + enc.lv[1].hi
        THEN Got(d, 1, "INT", op - enc.zero)
        ELSE IF lvls # {}
        THEN IF Len(b) < l THEN Short(d, l)
             ELSE Got(d, l, "INT", IF Pos(l) THEN off + enc.lv[l - 1].hi + 1
                                              ELSE enc.lv[l - 1].lo - 1 - off)
        ELSE IF op = 252
        THEN IF Len(b) < 5 THEN Short(d, 5) ELSE Got(d, 5, "INT", Signed32(b, 2))
        ELSE NotMine(d)

bsd_open(d, kind, ctxid, missing) ==
    LET map == kind \in {"MAP", "ZMAP"}
    IN  [d EXCEPT !.size = @ + 1,
                  !.stack[d.size + 1] = [Frame(kind, ctxid, IF map THEN 2 * missing ELSE missing)
                                            EXCEPT !.even = map]]

(* Opens a container, unless the stack is full.                            *)
Opened(d, n, kind, ctxid, missing, v) ==
    IF d.size = Depth - 1 THEN Error(d, "ETOODEEP")
    ELSE Got(bsd_open(d, kind, ctxid, missing), n, kind, v)

Str(d, b, hdr, len) == IF Len(b) < hdr + len THEN Short(d, hdr + len)
                       ELSE Got(d, hdr + len, "STRING", SubSeq(b, hdr + 1, hdr + len))

decodeString(d, b, enc) ==
    LET op == b[1]
    IN  CASE enc.sop <= op /\ op < enc.mop -> Str(d, b, 1, op - enc.sop)
          [] enc.mop <= op /\ op < enc.lop ->
               IF Len(b) < 2 THEN Short(d, 2) ELSE Str(d, b, 2, (op - enc.mop) * 256 + b[2] + enc.small + 1)
          [] op = enc.lop ->
               IF Len(b) < 3 THEN Short(d, 3) ELSE Str(d, b, 3, FromBytes(b, 2, 2) + enc.medium + 1)
          [] op = enc.cop -> Opened(d, 1, "CHUNKED", CHUNKED, -1, <<>>)
          [] OTHER -> NotMine(d)

(* The null of a variable container closes it.                             *)
decodeNull(d, n) ==
    LET f == d.stack[d.size]
    IN  IF f.kind = "ZLIST" \/ (f.kind = "ZMAP" /\ f.even)
        THEN Got([d EXCEPT !.size = @ - 1], n, "CLOSE", f.kind)
        ELSE Got(d, n, "NULL", <<>>)

(* CHECK_DECODE: a cut header that adds up to nothing read falls through   *)
(* to the next decoder, and to the error at the end.                       *)
CheckDecode(g, next) == IF g.t = "NOTMINE" THEN next
                        ELSE IF g.t = "CUT" /\ g.n = 0 THEN [next EXCEPT !.v = "CUT"] ELSE g

UisNumber(d, b) ==
    LET op == b[1]
        Num(k, base, lo) == IF Len(b) < k + 1 THEN Short(d, k + 1)
                            ELSE Got(d, k + 1, "INT", (op - base) * 256 ^ k + FromBytes(b, 2, k) + lo)
    IN  CASE 59 <= op /\ op <= 198 -> Num(0, 59, 0)
          [] 199 <= op /\ op <= 230 -> Num(1, 199, 140)
          [] 231 <= op /\ op <= 246 -> Num(2, 231, 8332)
          [] 247 <= op /\ op <= 254 -> Num(3, 247, 1056908)
          [] op = 255 -> Num(4, 255, 0)
          [] OTHER -> decodeNull(d, 1)

bsd_uis(d, b) ==
    IF b = <<>> THEN Short(d, 1) ELSE CheckDecode(decodeString(d, b, UisString), UisNumber(d, b))

(* CHECK_SUBDECODE after n bytes: when the part it needs is not all there  *)
(* it adds the count of missing bytes with the wrong sign, so the caller   *)
(* takes a cut header for one that was read; "CUT" stands for what it      *)
(* then reports (a long collection even reads past the buffer there).      *)
Cut(d, n, sub) == Got(d, -n - sub.n, "CUT", <<>>)
Sub(d, b, n) == bsd_uis(d, SubSeq(b, n + 1, Len(b)))

(* sub is the length behind the opcode of a long collection.               *)
CollectionOf(d, b, enc, sub) ==
    LET op   == b[1]
        long == sub.v + enc.limit + 1
        hdr  == 1 + sub.n
    IN  CASE op = enc.empty -> Opened(d, 1, enc.fixed, GLOBAL, 0, 0)
          [] enc.smallU <= op /\ op <= enc.smallU + enc.limit - 1 ->
               Opened(d, 1, enc.fixed, GLOBAL, op - enc.smallU + 1, op - enc.smallU + 1)
          [] op = enc.varU -> Opened(d, 1, enc.var, GLOBAL, -1, 0)
          [] enc.smallT <= op /\ op <= enc.smallT + enc.limit - 1 ->
               IF Len(b) < 2 THEN Short(d, 2)
               ELSE Opened(d, 2, enc.fixed, b[2], op - enc.smallT + 1, op - enc.smallT + 1)
          [] op = enc.varT -> IF Len(b) < 2 THEN Short(d, 2) ELSE Opened(d, 2, enc.var, b[2], -1, 0)
          [] op \in {enc.longU, enc.longT} /\ sub.n <= 0 -> Cut(d, 1, sub)
          [] op = enc.longU /\ sub.n > 0 -> Opened(d, hdr, enc.fixed, GLOBAL, long, long)
          [] op = enc.longT /\ sub.n > 0 ->
               IF Len(b) < hdr + 1 THEN Short(d, hdr + 1)
               ELSE Opened(d, hdr + 1, enc.fixed, b[hdr + 1], long, long)
          [] OTHER -> NotMine(d)

decodeCollection(d, b, enc) == CollectionOf(d, b, enc, Sub(d, b, 1))

(* A class definition is read part by part: p.n bytes so far.              *)
PartOf(p, s, Use(_, _)) == IF p.bad THEN p
                           ELSE IF s.n <= 0 THEN [p EXCEPT !.bad = TRUE, !.n = -p.n - s.n]
                           ELSE Use([p EXCEPT !.n = @ + s.n], s.v)
Part(d, b, p, Use(_, _)) == PartOf(p, Sub(d, b, p.n), Use)

ClassName(d, b, p) == IF b[1] = 113 THEN Part(d, b, p, LAMBDA q, v : [q EXCEPT !.k.name = v]) ELSE p

ClassField(d, b, p) ==
    LET Ctx(q, s) == IF q.bad \/ Len(b) < q.n + 1
                     THEN [q EXCEPT !.bad = TRUE, !.n = IF q.bad THEN @ ELSE -@ - 1]
                     ELSE [q EXCEPT !.n = @ + 1,
                                    !.k.fields = Append(@, [name |-> s, ctxid |-> b[q.n + 1]])]
    IN  IF b[1] = 113 /\ ~p.bad THEN Part(d, b, p, Ctx) ELSE Ctx(p, <<>>)

ClassFields(d, b, p) == IF p.bad THEN p
                        ELSE FoldLeft(LAMBDA q, i : ClassField(d, b, q), p, [i \in 1..p.todo |-> i])

ClassRead(d, p) == IF p.bad THEN Got(d, p.n, "CUT", <<>>)
                   ELSE Got([d EXCEPT !.classes = bs_classcoll_set(@, p.k)], p.n, "CLASSDEF", p.k)

decodeClass(d, b) ==
    LET start == [n |-> 1, bad |-> FALSE, k |-> None, todo |-> 0]
    IN  IF b[1] \notin {113, 114} THEN NotMine(d)
        ELSE ClassRead(d, ClassFields(d, b,
                 Part(d, b, ClassName(d, b, Part(d, b, start, LAMBDA p, v : [p EXCEPT !.k.id = v])),
                      LAMBDA p, v : [p EXCEPT !.todo = v])))

bsd_object(d, n, id) ==
    LET k == ClassOf(d, id)
        g == Opened(d, n, "OBJECT", GLOBAL, Len(k.fields), k)
    IN  IF k = None THEN Error(d, "EBADCLASSID")
        ELSE IF g.t = "ERROR" THEN g
        ELSE [g EXCEPT !.d.stack[d.size + 1].cls = k]

(* A double read back; b holds the opcode.                                 *)
FloatOf(d, b) ==
    LET n == IF b[1] = 254 THEN 5 ELSE 9
    IN  IF Len(b) < n THEN Short(d, n)
        ELSE Got(d, n, "DOUBLE", CHOOSE v \in {"f32", "f64", "ones"} : WriteFloat(v) = SubSeq(b, 1, n))

GlobalRest(d, b, sub) ==
    LET op == b[1]
    IN  CASE 96 <= op /\ op <= 111 -> bsd_object(d, 1, op - 96)
          [] op = 0 -> decodeNull(d, 1)
          [] op \in {1, 2} -> Got(d, 1, "BOOL", op = 1)
          [] op = 112 -> IF sub.n <= 0 THEN Cut(d, 1, sub) ELSE bsd_object(d, 1 + sub.n, sub.v + 16)
          [] op \in {254, 255} -> FloatOf(d, b)
          [] OTHER -> Error(d, "EINVALID")

bsd_global(d, b) ==
    CheckDecode(decodeInteger(d, b, GlobalInteger),
    CheckDecode(decodeString(d, b, GlobalString),
    CheckDecode(decodeCollection(d, b, GlobalList),
    CheckDecode(decodeCollection(d, b, GlobalMap),
    CheckDecode(decodeClass(d, b), GlobalRest(d, b, Sub(d, b, 1)))))))

bsd_number(d, b) ==
    CheckDecode(decodeInteger(d, b, NumberInteger),
        IF b[1] = 0 THEN decodeNull(d, 1)
        ELSE IF b[1] \in {254, 255} THEN FloatOf(d, b) ELSE Error(d, "EINVALID"))

(* Contexts of fixed width: one pattern of the value is followed by a byte *)
(* that tells the value from null.                                         *)
Escaped(d, b, n, esc, t, Val(_)) ==
    IF Len(b) < n THEN Short(d, n)
    ELSE IF SubSeq(b, 1, n) # esc THEN Got(d, n, t, Val(SubSeq(b, 1, n)))
    ELSE IF Len(b) < n + 1 THEN Short(d, n + 1)
    ELSE CASE b[n + 1] = 0 -> decodeNull(d, n + 1)
           [] b[n + 1] = 1 -> Got(d, n + 1, t, Val(esc))
           [] OTHER -> Error(d, "EINVALID")

bsd_int32(d, b) == Escaped(d, b, 4, <<128, 0, 0, 0>>, "INT", LAMBDA s : Signed32(s, 1))
bsd_float(d, b) == Escaped(d, b, 4, Float32Bytes("ones"), "DOUBLE",
    LAMBDA s : CHOOSE v \in {"f32", "ones"} : Float32Bytes(v) = s)
bsd_double(d, b) == Escaped(d, b, 8, Float64Bytes("ones"), "DOUBLE",
    LAMBDA s : CHOOSE v \in {"f32", "f64", "ones"} : Float64Bytes(v) = s)

bsd_listmap(d, b) ==
    CheckDecode(decodeCollection(d, b, ListMapList),
    CheckDecode(decodeCollection(d, b, ListMapMap),
        IF b[1] = 0 THEN decodeNull(d, 1) ELSE Error(d, "EINVALID")))

bsd_chunked(d, b) ==
    LET n == FromBytes(b, 1, 2)
    IN  IF Len(b) < 2 THEN Short(d, 2)
        ELSE IF n = 0 THEN Got([d EXCEPT !.size = @ - 1], 2, "CLOSE", "CHUNKED")
        ELSE IF Len(b) < n + 2 THEN Short(d, n + 2)
        ELSE Got(d, n + 2, "CHUNK", SubSeq(b, 3, n + 2))

bsd_getFrameDataKind(f) ==
    CASE f.kind = "TOP" -> "KTOPLEVEL"
      [] f.kind \in {"MAP", "ZMAP"} -> IF f.even THEN "KMAPVALUE" ELSE "KMAPKEY"
      [] f.kind = "OBJECT" -> "KOBJFIELD"
      [] f.kind \in {"LIST", "ZLIST"} -> "KLISTITEM"
      [] OTHER -> "KCHUNK"

(* bsd_read: close a full container, or read one element and count it.     *)
(* The result also has the kind of the element and the name of its field.  *)
Element(d, b) ==
    LET x == getctxid(d.stack[d.size])
    IN  CASE b = <<>> -> Short(d, 1)
          [] b # <<>> /\ x = GLOBAL -> bsd_global(d, b)
          [] b # <<>> /\ x = UIS -> bsd_uis(d, b)
          [] b # <<>> /\ x = NUMBER -> bsd_number(d, b)
          [] b # <<>> /\ x = INT32 -> bsd_int32(d, b)
          [] b # <<>> /\ x = FLOAT -> bsd_float(d, b)
          [] b # <<>> /\ x = DOUBLE -> bsd_double(d, b)
          [] b # <<>> /\ x = LISTMAP -> bsd_listmap(d, b)
          [] b # <<>> /\ x = CHUNKED -> bsd_chunked(d, b)
          [] OTHER -> Error(d, "EBADCONTEXT")

Placed(d, g) ==
    LET top == g.d.stack[g.d.size]
        kind == IF g.d.size > d.size THEN "KNEWCONTAINER" ELSE bsd_getFrameDataKind(top)
    IN  [n |-> g.n, t |-> g.t, v |-> g.v, d |-> g.d, kind |-> kind,
         field |-> IF kind = "KOBJFIELD"
                   THEN top.cls.fields[Len(top.cls.fields) - top.missing].name ELSE <<>>]

Counted(d, g) ==
    IF g.n < 0 \/ g.t \in {"ERROR", "CUT"}
    THEN [n |-> g.n, t |-> g.t, v |-> g.v, d |-> g.d, kind |-> "NONE", field |-> <<>>]
    ELSE IF g.t = "CLASSDEF" THEN Placed(d, g)
    ELSE Placed(d, [g EXCEPT !.d.stack[d.size].missing = IF @ > 0 THEN @ - 1 ELSE @,
                             !.d.stack[d.size].even =
                                 IF d.stack[d.size].kind \in {"MAP", "ZMAP"} THEN ~@ ELSE @])

bsd_read(d, b) ==
    LET f == d.stack[d.size]
    IN  IF f.missing = 0 THEN Placed(d, Got([d EXCEPT !.size = @ - 1], 0, "CLOSE", f.kind))
        ELSE Counted(d, Element(d, b))

-----------------------------------------------------------------------------
(* The Lua side.  A Lua value is a tagged tuple; a table is the set of its *)
(* pairs; a list or an object under construction has the index of its last *)
(* item below it on the stack.                                             *)

Pop(L, n) == SubSeq(L, 1, Len(L) - n)
SetTable(t, k, v) == <<"tbl", {p \in t[2] : p[1] # k} \union {<<k, v>>}>>

(* Step 1 of bysant2lua: what an element pushes.                           *)
PushElement(L, x) ==
    LET top == L[Len(L)]
    IN CASE x.t = "INT" -> Append(L, <<"num", x.v>>)
         [] x.t = "NULL" -> Append(L, <<"niltoken">>)
         [] x.t = "BOOL" -> Append(L, <<"bool", x.v>>)
         [] x.t = "DOUBLE" -> Append(L, <<"dbl", x.v>>)
         [] x.t = "STRING" -> Append(L, <<"str", x.v>>)
         [] x.t = "CHUNK" -> Append(Pop(L, 1), <<"buf", top[2] \o x.v>>)
         [] x.t \in {"MAP", "ZMAP"} -> Append(L, <<"tbl", {}>>)
         [] x.t \in {"LIST", "ZLIST"} -> L \o << <<"idx", 0>>, <<"tbl", {}>> >>
         [] x.t = "OBJECT" ->
              L \o << <<"idx", 0>>, <<"tbl", { << <<"__class">>,
                         IF x.v.name = <<>> THEN <<"num", x.v.id>> ELSE <<"str", x.v.name>> >> }>> >>
         [] x.t = "CHUNKED" -> Append(L, <<"buf", <<>>>>)
         [] x.t = "CLOSE" ->
              CASE x.v = "CHUNKED" -> Append(Pop(L, 1), <<"str", top[2]>>)
                [] x.v \in {"OBJECT", "LIST", "ZLIST"} -> Append(Pop(L, 2), top)
                [] OTHER -> L

(* Step 2: where it goes.                                                  *)
PlaceElement(M, x) ==
    LET n == Len(M)
        i == M[n - 2][2] + 1
    IN CASE x.kind = "KOBJFIELD" /\ x.field # <<>> ->
              Append(Pop(M, 2), SetTable(M[n - 1], <<"str", x.field>>, M[n]))
         [] x.kind = "KLISTITEM" \/ (x.kind = "KOBJFIELD" /\ x.field = <<>>) ->
              Pop(M, 3) \o << <<"idx", i>>, SetTable(M[n - 1], <<"num", i>>, M[n]) >>
         [] x.kind = "KMAPVALUE" -> Append(Pop(M, 3), SetTable(M[n - 2], M[n - 1], M[n]))
         [] OTHER -> M

bysant2lua(L, x) == IF x.t = "CLASSDEF" THEN L ELSE PlaceElement(PushElement(L, x), x)

(* The loop of deserialize_or_skip over the bytes b that arrived; p has    *)
(* the context, the offset, the Lua stack and the outcome.                 *)
Received(p, x) ==
    IF x.n < 0 THEN [p EXCEPT !.st = "partial"]
    ELSE IF x.t = "CUT" THEN [p EXCEPT !.st = "cut"]
    ELSE IF x.t = "ERROR" THEN [p EXCEPT !.d = [bsd_init EXCEPT !.classes = p.d.classes],
                                         !.st = IF x.v = "CUT" THEN "cut" ELSE "error"]
    ELSE [p EXCEPT !.d = x.d, !.off = @ + x.n, !.L = bysant2lua(@, x),
                   !.st = IF x.d.size > 0 \/ x.t = "CLASSDEF" THEN "idle" ELSE "done"]

RECURSIVE deserialize(_, _)
deserialize(p, b) ==
    IF p.st # "idle" THEN p
    ELSE deserialize(Received(p, bsd_read(p.d, SubSeq(b, p.off + 1, Len(b)))), b)

-----------------------------------------------------------------------------
(* The calls that serialize a tree, and the Lua value it stands for.       *)

RECURSIVE Calls(_)
Calls(t) ==
    LET Each(s) == FlattenSeq([i \in DOMAIN s |-> Calls(s[i])])
        Close == << [op |-> "close"] >>
        Sized(op) == << [op |-> op, len |-> IF t.sized THEN Len(t.items) ELSE -1, ctxid |-> t.ctxid] >>
    IN CASE t.k = "list" -> Sized("list") \o Each(t.items) \o Close
         [] t.k = "map" -> Sized("map") \o Each(FlattenSeq(t.items)) \o Close
         [] t.k = "object" -> << [op |-> "object", id |-> t.cls.id] >> \o Each(t.items) \o Close
         [] t.k = "chunked" -> << [op |-> "chunked"] >>
                               \o [i \in DOMAIN t.lens |-> [op |-> "chunk", len |-> t.lens[i]]] \o Close
         [] t.k = "str" -> << [op |-> "string", s |-> Payload(t.len)] >>
         [] t.k = "int" -> << [op |-> "int", x |-> t.x] >>
         [] t.k = "bool" -> << [op |-> "bool", b |-> t.b] >>
         [] t.k = "dbl" -> << [op |-> "double", v |-> t.v] >>
         [] t.k = "null" -> << [op |-> "null"] >>

RECURSIVE ToLua(_)
ToLua(t) ==
    LET Items == {<< <<"num", i>>, ToLua(t.items[i]) >> : i \in DOMAIN t.items}
    IN CASE t.k = "list" -> <<"tbl", Items>>
         [] t.k = "map" -> <<"tbl", {<< ToLua(t.items[i][1]), ToLua(t.items[i][2]) >> : i \in DOMAIN t.items}>>
         [] t.k = "object" ->
              IF t.cls.name = <<>>
              THEN <<"tbl", Items \union {<< <<"__class">>, <<"num", t.cls.id>> >>}>>
              ELSE <<"tbl", {<< <<"str", t.cls.fields[i].name>>, ToLua(t.items[i]) >> : i \in DOMAIN t.items}
                            \union {<< <<"__class">>, <<"str", t.cls.name>> >>}>>
         [] t.k = "chunked" -> <<"str", Payload(FoldLeft(LAMBDA a, b : a + b, 0, t.lens))>>
         [] t.k = "str" -> <<"str", Payload(t.len)>>
         [] t.k = "int" -> <<"num", t.x>>
         [] t.k = "bool" -> <<"bool", t.b>>
         [] t.k = "dbl" -> <<"dbl", t.v>>
         [] t.k = "null" -> <<"niltoken">>

-----------------------------------------------------------------------------
Internal(doc) == {doc.classes[i].def : i \in {j \in DOMAIN doc.classes : doc.classes[j].internal}}

Init ==
    /\ \E doc \in Docs :
          job = [val |-> doc.val, i |-> 1, st |-> "EOK", over |-> 0, opening |-> FALSE,
                 calls |-> [j \in DOMAIN doc.classes |-> [op |-> "class", def |-> doc.classes[j].def,
                                                         internal |-> doc.classes[j].internal]]
                           \o Calls(doc.val),
                 known |-> Internal(doc)]
    /\ ser = bss_init
    /\ out = <<>>
    /\ des = [d |-> [bsd_init EXCEPT !.classes = job.known], off |-> 0, have |-> 0]
    /\ lua = [L |-> <<>>, st |-> "idle"]

(* One call of the serializer; after BSS_EAGAIN the same call is repeated. *)
(* opening records that a writer overflowed in the header of a container,  *)
(* whose frame is then already on the stack.                               *)
Serialize(room, fails) ==
    /\ job.i <= Len(job.calls) /\ job.st \in {"EOK", "EAGAIN"}
    /\ \E r \in {Call(ser, job.calls[job.i], room, fails)} :
        /\ r.st \in {"EAGAIN", "EWRITER"} => job.over < MaxOver
        /\ ser' = r.c
        /\ out' = out \o r.bytes
        /\ job' = [job EXCEPT !.st = r.st, !.i = IF r.st = "EOK" THEN @ + 1 ELSE @,
                              !.over = IF r.st \in {"EAGAIN", "EWRITER"} THEN @ + 1 ELSE @,
                              !.opening = @ \/ (r.st = "EAGAIN" /\ Opens(job.calls[job.i]))]
    /\ UNCHANGED <<des, lua>>

(* k more bytes arrive and the deserializer is called again with the whole *)
(* buffer; it resumes the Lua stack it put away, or raises an error when   *)
(* that was put away before any container was opened.                      *)
Deserialize(k) ==
    LET have == Low(des.have + k, Len(out))
        empty == lua.st = "partial" /\ des.d.size = 0
        start == [d |-> des.d, off |-> des.off, L |-> lua.L, st |-> IF empty THEN "refused" ELSE "idle"]
    IN  /\ job.i > Len(job.calls)
        /\ lua.st \in {"idle", "partial"}
        /\ have > des.have
        /\ \E r \in {deserialize(start, SubSeq(out, 1, have))} :
              /\ des' = [d |-> r.d, off |-> r.off, have |-> have]
              /\ lua' = [L |-> r.L, st |-> r.st]
        /\ UNCHANGED <<job, ser, out>>

Next == \/ \E room \in Rooms, fails \in BOOLEAN : Serialize(room, fails)
        \/ \E k \in Gulps : Deserialize(k)

Spec == Init /\ [][Next]_vars

-----------------------------------------------------------------------------
(* Whatever the places where the writer overflowed and the caller repeated *)
(* its call (bysants.c, writeData), and however the bytes arrive           *)
(* (bysant_core_deserialize.c, hibernate), a document that was serialized  *)
(* is rebuilt as the value it came from, with no byte left over; a buffer  *)
(* cut inside the header of a class, an object or a long collection is the *)
(* exception, since there a decoder reports success.  The deserializer     *)
(* refuses to go on only where nothing of the value has been built yet.    *)
RebuiltAsWritten ==
    /\ lua.st # "error"
    /\ lua.st = "refused" => lua.L = <<>>
    /\ lua.st = "done" => lua.L = << ToLua(job.val) >> /\ des.off = Len(out)
    /\ lua.st = "partial" => des.have < Len(out)

(* A call on a well-formed document is only refused after a failure of the *)
(* writer or for want of stack (bysants.c, startTransaction): no overflow, *)
(* outside the header of a container, makes a later call fail.             *)
OverflowIsHarmless ==
    job.st \in {"EREFUSED", "ESIZE", "EBROKEN"} => job.opening

(* "once the overflow is over, the same serialization operation must be    *)
(* retried": the retried operation is accepted, headers of containers      *)
(* included.                                                               *)
RetriedIsAccepted == job.st \notin {"EREFUSED", "ESIZE"}
=============================================================================
