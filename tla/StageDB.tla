------------------------------ MODULE StageDB ------------------------------
(* The staging tables of libs/bysant (sdb_*.c): rows of cells serialized   *)
(* one after the other in a chain of memory chunks, read back column by    *)
(* column by a serialization that can be suspended at every write, or      *)
(* reduced into a row of another table.  A value is <<kind, number>>: an   *)
(* integer, or a string by its length; the i-th byte of its Bysant         *)
(* encoding is <<kind, number, i>>.                                        *)
EXTENDS Integers, Sequences, SequencesExt, FiniteSetsExt

CONSTANTS Tables,    \* the tables: their columns, sequences of [method, arg,
                     \* values]; the [method, src] of the columns made of them,
                     \* none for a table that is only serialized
          ChunkSize, \* SDB_CHUNK_SIZE
          MinChunk,  \* SDB_MIN_CHUNK_SIZE
          MaxRows,   \* bound on the rows written between two resets
          MaxResets, \* bound on the number of resets
          MaxFaults, \* bound on the rows that cannot be written
          MaxOver    \* bound on the overflows of the output per table

VARIABLES tbl,   \* the sdb_table_t: state, analysis, storage, stream
          out,   \* the bss_ctx_t passed to sdb_serialize
          dst,   \* the rows of the consolidation table
          cache, \* the static variables of copy_data_ram
          hist   \* what was asked: the cells in order, and what went wrong
vars == <<tbl, out, dst, cache, hist>>

Columns == tbl.cfg.columns
DstColumns == tbl.cfg.dst
NCols == Len(Columns)
ColOf(n) == (n % NCols) + 1
Undef == <<"undef", 0>>
Null == <<"null", 0>>
MinBuff == 3

(* How many bytes Bysant spends on a value, write by write.                *)
Parts(v) ==
    CASE v[1] = "str" -> <<1, v[2]>>
      [] v[1] = "int" /\ v[2] \in -31..64 -> <<1>>
      [] v[1] = "int" /\ v[2] \in -2079..2112 -> <<2>>
      [] v[1] = "int" -> <<3>>
      [] OTHER -> <<1>>

Width(v) == FoldSeq(LAMBDA a, b : a + b, 0, Parts(v))
Encoded(v) == [i \in 1..Width(v) |-> <<v[1], v[2], i>>]

NextPow2(n) == CHOOSE p \in {0, 1, 2, 4, 8, 16, 32, 64} :
                  p >= n /\ \A q \in {0, 1, 2, 4, 8, 16, 32, 64} : q >= n => p <= q

Chunk(size, data) == [size |-> size, data |-> SubSeq(data, 1, Min({size, Len(data)}))]
Emptied == <<Chunk(MinChunk, <<>>)>>

(* The chunk holding the write position is grown to a power of two, or     *)
(* filled and followed by another; "fails" of its allocations are granted  *)
(* before one is refused.                                                  *)
sdb_bss_ram_writer(ram, data, grants) ==
    LET w == ram.bytes % ChunkSize
        left == ChunkSize - w
        n == Len(ram.chunks)
        last == ram.chunks[n]
        need == NextPow2(w + Len(data))
        fit == IF last.size < need THEN need ELSE last.size
        over == Len(data) - left
        more == Max({MinChunk, NextPow2(over)})
        grown(size) == [ram EXCEPT !.chunks[n].size = size]
        asks == IF left > Len(data) THEN IF fit = last.size THEN 0 ELSE 1
                ELSE IF last.size = ChunkSize THEN 1 ELSE 2
        done == IF left > Len(data)
                THEN [ram EXCEPT !.chunks[n] = Chunk(fit, last.data \o data)]
                ELSE [ram EXCEPT !.chunks =
                         Append([@ EXCEPT ![n] = Chunk(ChunkSize, last.data \o SubSeq(data, 1, left))],
                                Chunk(more, SubSeq(data, left + 1, Len(data))))]
    IN IF grants < asks
       THEN [ok |-> FALSE, ram |-> IF grants = 1 THEN grown(ChunkSize) ELSE ram,
             moved |-> grants = 1]
       ELSE [ok |-> TRUE, ram |-> [done EXCEPT !.bytes = @ + Len(data)], moved |-> asks > 0]

(* sdb_ram_trim: the last chunk shrinks to what it holds.                  *)
sdb_ram_trim(ram) ==
    LET size == ram.bytes % ChunkSize
        n == Len(ram.chunks)
    IN [ram EXCEPT !.chunks[n] = Chunk(IF size = 0 THEN MinChunk ELSE size, @.data)]

(* Remainder and greatest common divisor with the signs of C.              *)
CRem(a, b) == LET q == (IF a < 0 THEN -a ELSE a) % (IF b < 0 THEN -b ELSE b)
              IN IF a < 0 THEN -q ELSE q
RECURSIVE gcd(_, _)
gcd(a, b) == IF b = 0 THEN a ELSE gcd(b, CRem(a, b))

Blank == [integer |-> TRUE, numeric |-> TRUE, gcd |-> 0, prev |-> 0, sum |-> 0]
Smallest(c) == Columns[c].method = "smallest"
Fixed(c) == Columns[c].arg # 0

(* The statistics a "smallest" column keeps of what is written in it.      *)
sdb_analyze(an, c, v, first) ==
    IF ~Smallest(c) THEN an
    ELSE IF v[1] # "int" THEN [an EXCEPT !.integer = FALSE, !.numeric = FALSE]
    ELSE IF ~an.integer THEN an
    ELSE LET g == IF first THEN v[2] ELSE an.gcd
         IN [an EXCEPT !.gcd = IF Fixed(c) THEN g ELSE gcd(v[2], g),
                       !.sum = IF first THEN @ ELSE @ + v[2] - an.prev,
                       !.prev = v[2]]

(* One cell: the column statistics, then each of its writes.  A failure    *)
(* after a first write breaks the serializer of the table.                 *)
PartBytes(v, k) ==
    LET at == FoldSeq(LAMBDA a, b : a + b, 0, SubSeq(Parts(v), 1, k - 1))
    IN SubSeq(Encoded(v), at + 1, at + Parts(v)[k])

PartWritten(x, w) ==
    LET s == [x.t EXCEPT !.ram = w.ram, !.moved = @ \/ w.moved]
    IN IF w.ok THEN [t |-> s, k |-> x.k + 1, grants |-> IF w.moved THEN x.grants - 1 ELSE x.grants]
       ELSE [x EXCEPT !.t = [s EXCEPT !.broken = x.k > 1, !.failed = TRUE]]

RECURSIVE WriteParts(_, _)
WriteParts(x, v) ==
    IF x.t.failed THEN x.t
    ELSE IF x.k > Len(Parts(v)) THEN [x.t EXCEPT !.n = @ + 1]
    ELSE WriteParts(PartWritten(x, sdb_bss_ram_writer(x.t.ram, PartBytes(v, x.k), x.grants)), v)

WriteCell(t, v, grants) ==
    LET c == ColOf(t.n)
        s == [t EXCEPT !.an[c] = sdb_analyze(@, c, v, t.n < NCols)]
    IN IF t.broken THEN [s EXCEPT !.failed = TRUE]
       ELSE WriteParts([t |-> s, k |-> 1, grants |-> grants], v)

(* api_row stops at the first cell that cannot be written, and leaves the  *)
(* cells written before it in the table.                                   *)
RECURSIVE RowFrom(_, _, _, _)
RowFrom(t, row, c, grants) ==
    IF c > Len(row) \/ t.failed THEN t
    ELSE IF row[c][1] = "bad" THEN [t EXCEPT !.failed = TRUE]
    ELSE RowFrom(WriteCell(t, row[c], grants), row, c + 1, grants)

-----------------------------------------------------------------------------
(* Reading: a position is [chunk, at, n], at bytes and n cells from the    *)
(* start.  The cell found is Undef when it lies across two chunks and is   *)
(* skipped.                                                                *)
sdb_read_init == [chunk |-> 1, at |-> 0, n |-> 0, v |-> Null, r |-> "ok"]

ByteAt(ram, chunk, i) == IF chunk \in DOMAIN ram.chunks /\ i \in DOMAIN ram.chunks[chunk].data
                         THEN ram.chunks[chunk].data[i] ELSE <<"undef", 0, 0>>

Cell(bytes) == LET v == <<bytes[1][1], bytes[1][2]>>
               IN IF v # Undef /\ bytes = Encoded(v) THEN v ELSE Undef

ReadCell(ram, p, skip, size) ==
    LET in == p.at % ChunkSize
        left == ChunkSize - in
        bytes == [i \in 1..size |-> IF i <= left THEN ByteAt(ram, p.chunk, in + i)
                                    ELSE ByteAt(ram, p.chunk + 1, i - left)]
        whole == size <= left \/ (left < MinBuff /\ size <= MinBuff)
    IN IF (left < MinBuff \/ size > left) /\ p.chunk + 1 \notin DOMAIN ram.chunks
       THEN [p EXCEPT !.r = "internal"]
       ELSE [p EXCEPT !.at = @ + size, !.n = @ + 1, !.chunk = IF size >= left THEN @ + 1 ELSE @,
                      !.v = IF whole \/ ~skip THEN Cell(bytes) ELSE Undef]

sdb_read_data(ram, p, skip) == ReadCell(ram, p, skip, Width(ByteAt(ram, p.chunk, (p.at % ChunkSize) + 1)))

-----------------------------------------------------------------------------
(* The size estimates compare a list, a deltas vector and a quasi-periodic *)
(* vector of the cells of a column.                                        *)
bss_int_size(x) == CASE x \in -16..47 -> 1 [] x \in -2048..2047 -> 2
                     [] x \in -262144..262143 -> 3 [] OTHER -> 5
bss_double_size(x) == CASE x \in {0, 1} -> 1 [] x \in -128..127 -> 2
                        [] x \in -32768..32767 -> 3 [] OTHER -> 5

FloorDiv(a, b) == IF b < 0 THEN (-a) \div (-b) ELSE a \div b
Round(a, b) == IF a < 0 THEN -((-2 * a + b) \div (2 * b)) ELSE (2 * a + b) \div (2 * b)

Gathered(x, c, q) ==
    [p |-> q, cells |-> IF ColOf(x.p.n) = c /\ q.r = "ok" THEN Append(x.cells, q.v) ELSE x.cells]

RECURSIVE CellsOf(_, _, _, _)
CellsOf(ram, c, x, rows) ==
    IF x.p.n >= rows * NCols \/ x.p.r # "ok" THEN x.cells
    ELSE CellsOf(ram, c, Gathered(x, c, sdb_read_data(ram, x.p, ColOf(x.p.n) # c)), rows)

RECURSIVE QpvSize(_, _, _, _)
QpvSize(vs, period, i, n) ==
    IF i > Len(vs) THEN 0
    ELSE LET shift == vs[i] - (vs[i-1] + period)
         IN IF shift = 0 THEN QpvSize(vs, period, i + 1, n + 1)
            ELSE bss_int_size(shift) + bss_int_size(n) + QpvSize(vs, period, i + 1, 0)

SumOver(S, f(_)) == MapThenSumSet(f, S)

(* The container of a column and its argument.                             *)
SmallestMethod(an, c, rows, cells) ==
    LET vs == [i \in DOMAIN cells |-> cells[i][2]]
        factor == IF Fixed(c) THEN Columns[c].arg ELSE an.gcd
        period == IF rows = 1 THEN -2147483647 ELSE Round(an.sum, rows - 1)
        delta(i) == IF factor = 0 THEN -2147483647 ELSE FloorDiv(vs[i] - vs[i-1], factor)
        vsize == SumOver(DOMAIN cells, LAMBDA i : Width(cells[i]))
        dvsize == bss_double_size(factor) + bss_double_size(vs[1])
                  + SumOver(2..Len(vs), LAMBDA i : bss_int_size(delta(i)))
        qpvsize == bss_int_size(period) + bss_int_size(vs[1]) + QpvSize(vs, period, 2, 0)
    IN IF ~an.numeric \/ (~an.integer /\ ~Fixed(c)) \/ cells = <<>>
       THEN [method |-> "list", arg |-> 0]
       ELSE IF an.integer /\ qpvsize < dvsize /\ qpvsize < vsize
       THEN [method |-> "quasiperiodicvector", arg |-> period]
       ELSE IF dvsize < vsize THEN [method |-> "deltasvector", arg |-> factor]
       ELSE [method |-> "list", arg |-> 0]

compute_serialization_methods(t, c) ==
    LET rows == t.n \div NCols
    IN IF ~Smallest(c) THEN Columns[c]
       ELSE SmallestMethod(t.an[c], c, rows, CellsOf(t.ram, c, [p |-> sdb_read_init, cells |-> <<>>], rows))

(* The stream of a serialization: its stage, column, reading position, and *)
(* the previous value and shift count of the vectors.                      *)
serialize_init == [stage |-> "INITIALIZED", col |-> 1, p |-> sdb_read_init, prev |-> 0,
                   shift |-> 0, how |-> <<>>]

Tok(tag, v) == <<tag, v[1], v[2]>>
Num(tag, n) == <<tag, "", n>>

How(s) == s.how[s.col]
Shift(s) == s.p.v[2] - (s.prev + How(s).arg)
Delta(s) == FloorDiv(s.p.v[2] - s.prev, How(s).arg)
Numeric(s) == s.p.v[1] = "int"

(* Reads up to the next cell of the column, over the cells a quasi-        *)
(* periodic vector only counts, to stage st or to the end of the column.   *)
Passed(s, st, q) ==
    LET r == [s EXCEPT !.p = q]
    IN IF q.r # "ok" THEN [s |-> [s EXCEPT !.p.r = q.r], on |-> FALSE]
       ELSE IF ColOf(s.p.n) # s.col THEN [s |-> r, on |-> TRUE]
       ELSE IF How(s).method = "quasiperiodicvector" /\ st = "SENDING_CELLS"
               /\ Numeric(r) /\ Shift(r) = 0
       THEN [s |-> [r EXCEPT !.shift = @ + 1, !.prev = q.v[2]], on |-> TRUE]
       ELSE [s |-> [r EXCEPT !.stage = st], on |-> FALSE]

RECURSIVE ForwardFrom(_, _, _)
ForwardFrom(t, x, st) ==
    IF ~x.on THEN x.s
    ELSE IF x.s.p.n >= (t.n \div NCols) * NCols THEN [x.s EXCEPT !.stage = "CONTENT_SENT"]
    ELSE ForwardFrom(t, Passed(x.s, st, sdb_read_data(t.ram, x.s.p, ColOf(x.s.p.n) # x.s.col)), st)

Forward(t, s, st) == ForwardFrom(t, [s |-> s, on |-> TRUE], st)

(* The write a stage is about to do.                                       *)
Call(s) ==
    CASE s.stage = "INITIALIZED" -> Num("map", -1)
      [] s.stage \in {"MAP_OPENED", "COLUMN_CLOSED"} ->
            IF s.col > NCols THEN Num("close", 1) ELSE Num("label", s.col)
      [] s.stage = "MAP_LABEL_SENT" ->
            IF How(s).method \in {"list", "fastest"} THEN Num("list", 0)
            ELSE Num(How(s).method, 0)
      [] s.stage = "OBJECT_DEFINED" -> Num("double", How(s).arg)
      [] s.stage = "FACTOR_SENT" ->
            IF How(s).method = "deltasvector" THEN Num("int", FloorDiv(s.p.v[2], How(s).arg))
            ELSE Num("double", s.p.v[2])
      [] s.stage = "START_VALUE_SENT" -> Num("list", 0)
      [] s.stage = "SENDING_CELLS" ->
            CASE How(s).method = "deltasvector" -> Num("int", Delta(s))
              [] How(s).method = "quasiperiodicvector" -> Num("int", s.shift)
              [] OTHER -> Tok("raw", s.p.v)
      [] s.stage = "SHIFT_SENT" -> Num("double", Shift(s))
      [] s.stage = "CONTENT_SENT" /\ How(s).method = "quasiperiodicvector" -> Num("int", s.shift)
      [] s.stage = "LAST_SHIFT_SENT" -> Num("close", 1)
      [] OTHER -> Num("close", 0)

Opening(tok) == tok[1] \in {"map", "list", "deltasvector", "quasiperiodicvector"}

(* The stream once that write is done.                                     *)
Done(t, s) ==
    LET to(st) == [s EXCEPT !.stage = st]
        value == s.p.v[2]
    IN CASE s.stage = "INITIALIZED" ->
            [to("MAP_OPENED") EXCEPT !.how = [c \in 1..NCols |-> compute_serialization_methods(t, c)]]
      [] s.stage \in {"MAP_OPENED", "COLUMN_CLOSED"} ->
            IF s.col > NCols THEN to("MAP_CLOSED")
            ELSE [to("MAP_LABEL_SENT") EXCEPT !.p = sdb_read_init]
      [] s.stage = "MAP_LABEL_SENT" ->
            IF How(s).method \in {"list", "fastest"} THEN Forward(t, s, "SENDING_CELLS")
            ELSE to("OBJECT_DEFINED")
      [] s.stage = "OBJECT_DEFINED" -> Forward(t, s, "FACTOR_SENT")
      [] s.stage = "FACTOR_SENT" -> [to("START_VALUE_SENT") EXCEPT !.prev = value]
      [] s.stage = "START_VALUE_SENT" -> Forward(t, [s EXCEPT !.shift = 0], "SENDING_CELLS")
      [] s.stage = "SENDING_CELLS" ->
            CASE How(s).method = "deltasvector" ->
                 Forward(t, [s EXCEPT !.prev = IF Delta(s) # 0 THEN value ELSE @], "SENDING_CELLS")
              [] How(s).method = "quasiperiodicvector" -> to("SHIFT_SENT")
              [] OTHER -> Forward(t, s, "SENDING_CELLS")
      [] s.stage = "SHIFT_SENT" -> Forward(t, [s EXCEPT !.shift = 0, !.prev = value], "SENDING_CELLS")
      [] s.stage = "CONTENT_SENT" /\ How(s).method = "quasiperiodicvector" -> to("LAST_SHIFT_SENT")
      [] s.stage = "CONTENT_SENT" /\ How(s).method = "deltasvector" -> to("INNER_LIST_CLOSED")
      [] s.stage = "LAST_SHIFT_SENT" -> to("INNER_LIST_CLOSED")
      [] OTHER -> [to("COLUMN_CLOSED") EXCEPT !.col = @ + 1]

(* A cell a vector cannot hold, or one the reader could not reach.         *)
Fails(s) == \/ s.p.r # "ok"
            \/ /\ s.stage \in {"FACTOR_SENT", "START_VALUE_SENT", "SENDING_CELLS", "SHIFT_SENT"}
               /\ How(s).method \in {"deltasvector", "quasiperiodicvector"}
               /\ ~Numeric(s)

-----------------------------------------------------------------------------
NoStream == [stage |-> "NONE"]
Closed == [toks |-> <<>>, pend |-> Num("", 0), st |-> "idle", over |-> 0, half |-> FALSE]

sdb_init(cfg) ==
            [cfg |-> cfg, st |-> "READING", n |-> 0, an |-> [c \in DOMAIN cfg.columns |-> Blank],
             ram |-> [chunks |-> Emptied, bytes |-> 0], broken |-> FALSE,
             failed |-> FALSE, moved |-> FALSE, stream |-> NoStream, call |-> FALSE]

Init == /\ tbl \in {sdb_init(cfg) : cfg \in Tables}
        /\ out = Closed
        /\ dst = <<>>
        /\ cache = [src |-> FALSE, off |-> 0, chunk |-> 1, fresh |-> TRUE]
        /\ hist = [cells |-> <<>>, torn |-> FALSE, resets |-> 0, faults |-> 0, astray |-> FALSE]

Idle == ~tbl.call
Reading == Idle /\ tbl.st = "READING"
Freed == [cache EXCEPT !.fresh = FALSE]

(* api_row.                                                                *)
Row(row, grants) ==
    /\ Reading
    /\ Len(hist.cells) < MaxRows * NCols
    /\ \E t \in {RowFrom(tbl, row, 1, grants)} :
          /\ t.failed => hist.faults < MaxFaults
          /\ tbl' = [t EXCEPT !.failed = FALSE, !.moved = FALSE]
          /\ hist' = [hist EXCEPT !.cells = @ \o SubSeq(row, 1, t.n - tbl.n),
                                  !.torn = @ \/ (t.failed /\ t.n % NCols # 0),
                                  !.faults = IF t.failed THEN @ + 1 ELSE @]
          /\ cache' = IF t.moved THEN Freed ELSE cache
    /\ out' = Closed
    /\ dst' = <<>>

(* sdb_trim frees the serializer with its broken flag; the next write      *)
(* makes another.                                                          *)
sdb_trim ==
    /\ Reading
    /\ tbl' = [tbl EXCEPT !.ram = sdb_ram_trim(@), !.broken = FALSE]
    /\ cache' = Freed
    /\ hist' = [hist EXCEPT !.torn = @ \/ tbl.broken]
    /\ UNCHANGED <<out, dst>>

(* sdb_serialize: starts, or resumes where the last write overflowed.      *)
sdb_serialize ==
    /\ Idle
    /\ tbl.n >= NCols
    /\ DstColumns = <<>>
    /\ out.st # "error"
    /\ tbl' = [tbl EXCEPT !.call = TRUE, !.st = "SERIALIZING",
                          !.stream = IF tbl.st = "READING" THEN serialize_init ELSE @]
    /\ out' = IF tbl.st = "READING" THEN [Closed EXCEPT !.st = "on"] ELSE [out EXCEPT !.st = "on"]
    /\ UNCHANGED <<dst, cache, hist>>

(* One write of serialize_table: it goes through, or overflows and is to   *)
(* be retried.  A retried header of a container may be refused by bysants. *)
Failure == /\ tbl' = [tbl EXCEPT !.call = FALSE]
           /\ out' = [out EXCEPT !.st = "error"]

Torn(tok) == out.pend # Num("", 0) /\ out.pend # tok

Overflow(tok) ==
    /\ tok # Num("close", 0)
    /\ out.over < MaxOver
    /\ tbl' = [tbl EXCEPT !.call = FALSE]
    /\ out' = [out EXCEPT !.pend = tok, !.over = @ + 1, !.half = @ \/ Opening(tok),
                          !.st = IF Torn(tok) THEN "corrupt" ELSE "again"]

Sent(tok, next) ==
    /\ tbl' = IF next.stage = "MAP_CLOSED"
              THEN [tbl EXCEPT !.call = FALSE, !.st = "READING", !.stream = NoStream]
              ELSE [tbl EXCEPT !.stream = next]
    /\ out' = [out EXCEPT !.toks = Append(@, tok), !.pend = Num("", 0),
                          !.st = IF Torn(tok) THEN "corrupt"
                                 ELSE IF next.stage = "MAP_CLOSED" THEN "EOK" ELSE @]

Emit(over, refused) ==
    /\ tbl.call
    /\ IF Fails(tbl.stream) THEN ~over /\ ~refused /\ Failure
       ELSE \E tok \in {Call(tbl.stream)} :
              \/ ~over /\ refused /\ Opening(tok) /\ out.pend = tok /\ Failure
              \/ over /\ ~refused /\ Overflow(tok)
              \/ ~over /\ ~refused /\ \E next \in {Done(tbl, tbl.stream)} : Sent(tok, next)
    /\ UNCHANGED <<dst, cache, hist>>

sdb_serialize_cancel ==
    /\ Idle
    /\ tbl.st = "SERIALIZING"
    /\ tbl' = [tbl EXCEPT !.st = "READING", !.stream = NoStream]
    /\ out' = Closed
    /\ UNCHANGED <<dst, cache, hist>>

(* sdb_reset cancels a serialization in progress.  The gcd and previous    *)
(* value it leaves in the statistics are overwritten by the first row.     *)
sdb_reset ==
    /\ Idle
    /\ hist.resets < MaxResets
    /\ tbl' = [tbl EXCEPT !.st = "READING", !.stream = NoStream, !.n = 0, !.broken = FALSE,
                          !.ram = [chunks |-> Emptied, bytes |-> 0],
                          !.an = [c \in 1..NCols |-> Blank]]
    /\ out' = Closed
    /\ cache' = Freed
    /\ hist' = [hist EXCEPT !.cells = <<>>, !.torn = FALSE, !.resets = @ + 1]
    /\ dst' = <<>>

-----------------------------------------------------------------------------
(* The cells of a source column as sdb_consolidate reads them (it skips    *)
(* the columns it needs), with the place of each.                          *)
Scanned(x, q) ==
    [p |-> q, cells |-> Append(x.cells, IF q.r # "ok" THEN [c |-> 0, v |-> Undef, at |-> 0]
                                        ELSE [c |-> ColOf(x.p.n), v |-> q.v, at |-> x.p.at])]

RECURSIVE Scan(_, _)
Scan(x, rows) ==
    IF x.p.n >= rows * NCols \/ x.p.r # "ok" THEN x.cells
    ELSE LET needed == \E d \in DOMAIN DstColumns : DstColumns[d].src = ColOf(x.p.n)
         IN Scan(Scanned(x, sdb_read_data(tbl.ram, x.p, needed)), rows)

(* Copies the cell at an offset, from the chunk remembered by the last     *)
(* copy when it was not after it.                                          *)
copy_data_ram(k, at, size) ==
    LET kept == k.src /\ k.off <= at
        past == Len(tbl.ram.chunks) + 1
        chunk == IF kept THEN Min({past, k.chunk + (at \div ChunkSize) - (k.off \div ChunkSize)})
                 ELSE (at \div ChunkSize) + 1
        in == at % ChunkSize
        first == ChunkSize - in
        bytes == [i \in 1..size |-> IF i <= first THEN ByteAt(tbl.ram, chunk, in + i)
                                    ELSE ByteAt(tbl.ram, chunk + 1, i - first)]
        across == first < size
    IN [v |-> IF kept /\ ~k.fresh THEN Undef ELSE Cell(bytes),
        k |-> [src |-> TRUE, fresh |-> ~kept \/ k.fresh,
               chunk |-> IF across THEN Min({past, chunk + 1}) ELSE chunk,
               off |-> IF across THEN size - first ELSE at + size],
        astray |-> first <= size]

(* The reduction of a column by a method.                                  *)
Reduced(method, vs) ==
    LET ns == [i \in DOMAIN vs |-> vs[i][2]]
        total == FoldSeq(LAMBDA a, b : a + b, 0, ns)
        sorted == SortSeq(ns, LAMBDA a, b : a < b)
    IN IF \E i \in DOMAIN vs : vs[i] = Undef THEN Undef
       ELSE IF \E i \in DOMAIN vs : vs[i][1] # "int" THEN Null
       ELSE CASE method = "max" -> <<"int", Max({ns[i] : i \in DOMAIN ns})>>
              [] method = "min" -> <<"int", Min({ns[i] : i \in DOMAIN ns})>>
              [] method = "sum" -> <<"int", total>>
              [] method = "mean" -> <<"ratio", (total * 60) \div Len(vs)>>
              [] OTHER -> <<"int", sorted[Len(vs) \div 2 + 1]>>

\* Mutant of Place: last copies the first row.
PlaceFirst(method, n) ==
    CASE method \in {"first", "last"} -> 1 [] method = "middle" -> n \div 2 + 1 [] OTHER -> 0

(* Which row first, last and middle copy; 0 for the other methods.         *)
Place(method, n) ==
    CASE method = "first" -> 1 [] method = "last" -> n [] method = "middle" -> n \div 2 + 1
      [] OTHER -> 0

Copied(x, copy) == [row |-> Append(x.row, copy.v), k |-> copy.k, astray |-> x.astray \/ copy.astray]

FinalizeColumn(x, d, mine) ==
    LET n == Len(mine)
        place == Place(DstColumns[d].method, n)
    IN IF place = 0
       THEN [x EXCEPT !.row = Append(@, Reduced(DstColumns[d].method, [i \in 1..n |-> mine[i].v]))]
       ELSE Copied(x, copy_data_ram(x.k, mine[place].at,
                                    Width(hist.cells[(place - 1) * NCols + DstColumns[d].src])))

Finalize(scan) ==
    FoldLeft(LAMBDA x, d : FinalizeColumn(x, d, SelectSeq(scan, LAMBDA e : e.c = DstColumns[d].src)),
             [row |-> <<>>, k |-> cache, astray |-> FALSE], [d \in DOMAIN DstColumns |-> d])

sdb_consolidate ==
    LET rows == tbl.n \div NCols
    IN /\ Reading
       /\ rows > 0
       /\ DstColumns # <<>>
       /\ ~hist.torn
       /\ \E scan \in {Scan([p |-> sdb_read_init, cells |-> <<>>], rows)} :
             IF \E i \in DOMAIN scan : scan[i].c = 0
             THEN UNCHANGED <<dst, cache, hist>>
             ELSE \E fin \in {Finalize(scan)} :
                    /\ dst' = <<fin.row>>
                    /\ cache' = fin.k
                    /\ hist' = [hist EXCEPT !.astray = @ \/ fin.astray]
       /\ UNCHANGED <<tbl, out>>

Bad == <<"bad", 0>>
Cells == [c \in 1..NCols |-> Columns[c].values \union {Bad}]
Rows == {r \in [1..NCols -> UNION {Cells[c] : c \in 1..NCols}] : \A c \in 1..NCols : r[c] \in Cells[c]}

Next == \/ \E row \in Rows, grants \in {0, 1, 9} : Row(row, grants)
        \/ sdb_trim
        \/ sdb_serialize
        \/ \E over, refused \in BOOLEAN : Emit(over, refused)
        \/ sdb_serialize_cancel
        \/ sdb_reset
        \/ sdb_consolidate

Spec == Init /\ [][Next]_vars

-----------------------------------------------------------------------------
Stored(c) == [i \in 1..(Len(hist.cells) \div NCols) |-> hist.cells[(i - 1) * NCols + c]]

(* What a receiver makes of the tokens between two labels.                 *)
Message(c) ==
    LET at == CHOOSE i \in DOMAIN out.toks : out.toks[i] = Num("label", c)
        rest == SubSeq(out.toks, at + 1, Len(out.toks))
        stop == {i \in DOMAIN rest : rest[i][1] = "label"}
    IN IF stop = {} THEN Front(rest) ELSE SubSeq(rest, 1, Min(stop) - 1)

RECURSIVE Periods(_, _, _)
Periods(body, v, period) ==
    LET run == [i \in 1..body[1][3] |-> <<"int", v + i * period>>]
        last == v + body[1][3] * period
        next == last + period + body[2][3]
    IN IF body[2][1] = "close" THEN run
       ELSE run \o <<<<"int", next>>>> \o Periods(SubSeq(body, 3, Len(body)), next, period)

Received(c) ==
    LET m == Message(c)
        arg == m[2][3]
        start == m[3][3]
        deltas == [i \in 1..(Len(m) - 6) |-> m[i + 4][3]]
        at(i) == start + FoldSeq(LAMBDA a, b : a + b, 0, SubSeq(deltas, 1, i - 1))
    IN CASE m[1][1] = "list" -> [i \in 1..(Len(m) - 2) |-> <<m[i + 1][2], m[i + 1][3]>>]
         [] m[1][1] = "deltasvector" -> [i \in 1..(Len(m) - 5) |-> <<"int", arg * at(i)>>]
         [] OTHER -> <<<<"int", start>>>> \o Periods(SubSeq(m, 5, Len(m)), start, arg)

(* A forced factor loses less than the factor at each delta.               *)
Close(c) ==
    LET r == Received(c)
        s == Stored(c)
    IN /\ Len(r) = Len(s)
       /\ \A i \in DOMAIN r :
             r[i] = s[i] \/ (Fixed(c) /\ s[i][2] - r[i][2] \in 0..(Columns[c].arg * i))

(* Where the i-th cell starts, and whether it lies across two chunks.      *)
StartOf(i) == FoldSeq(LAMBDA v, n : n + Width(v), 0, SubSeq(hist.cells, 1, i - 1))
IsAcross(i) == (StartOf(i) % ChunkSize) + Width(hist.cells[i]) > ChunkSize

(* Some cell starts in the last two bytes of the last chunk.               *)
AtEdge ==
    \E i \in 1..Len(hist.cells) :
        /\ StartOf(i) \div ChunkSize + 1 = Len(tbl.ram.chunks)
        /\ ChunkSize - (StartOf(i) % ChunkSize) < MinBuff

(* However often the output overflows, and whichever container the size    *)
(* estimate picks, a serialization that completes sends for each column    *)
(* the values its rows were given (sdb_serialize.c, sdb_read.c,            *)
(* sdb_write.c); it fails only after an overflow in the header of a        *)
(* container, on a cell in the last bytes of the last chunk, or on a text  *)
(* in a column declared as a vector.                                       *)
SerializedIsStored ==
    /\ out.st # "corrupt"
    /\ out.st = "EOK" /\ ~hist.torn => \A c \in 1..NCols : Close(c)
    /\ out.st = "error" /\ ~hist.torn =>
          \/ out.half
          \/ AtEdge
          \/ \E c \in 1..NCols, i \in 1..MaxRows :
                /\ Columns[c].method \in {"deltasvector", "quasiperiodicvector"}
                /\ i \in DOMAIN Stored(c) /\ Stored(c)[i][1] # "int"

Expected(d) ==
    LET vs == Stored(DstColumns[d].src)
    IN CASE DstColumns[d].method = "first" -> Head(vs)
         [] DstColumns[d].method = "last" -> Last(vs)
         [] DstColumns[d].method = "middle" -> vs[Len(vs) \div 2 + 1]
         [] OTHER -> Reduced(DstColumns[d].method, vs)

(* A copy that starts from a chunk freed since, a reduction of a cell that *)
(* is skipped across two chunks.                                           *)
MayBeUndef(d) ==
    IF Place(DstColumns[d].method, 1) # 0 THEN cache.src /\ ~cache.fresh
    ELSE \E i \in 1..Len(hist.cells) : ColOf(i - 1) = DstColumns[d].src /\ IsAcross(i)

(* A consolidated row holds the reduction of each column, unless one of    *)
(* its cells lies across chunks, the chunk remembered by an earlier copy   *)
(* was freed since, or a copy reached the end of a chunk                   *)
(* (sdb_consolidate.c).                                                    *)
ConsolidatedIsRight ==
    dst' \notin {dst, <<>>} /\ ~hist'.astray =>
        \A d \in DOMAIN DstColumns :
            dst'[1][d] = Expected(d) \/ (dst'[1][d] = Undef /\ MayBeUndef(d))
=============================================================================
