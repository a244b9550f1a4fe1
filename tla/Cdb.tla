-------------------------------- MODULE Cdb --------------------------------
(***************************************************************************)
(* Constant databases: libs/cdb (cdb_make.c, cdb.c, buffer_put.c and the   *)
(* tools) and their Lua interface luafwk/luacdb.  A database is written to *)
(* a temporary file, which replaces the one in use when it is complete.    *)
(*                                                                         *)
(* A file is its header (per table the position and the number of slots),  *)
(* its slots and its records by position; the bytes of a record are its    *)
(* lengths.  A hash is a number; its table is its remainder by Tables.     *)
(***************************************************************************)
EXTENDS Integers, Sequences, FiniteSets, SequencesExt, FiniteSetsExt

CONSTANTS
  Tables,        \* number of hash tables, 256 in the code
  Hash,          \* cdb_hash: a function on the keys
  KeyLen,        \* length of a key
  Data,          \* lengths of the data
  CDB_HPLIST,    \* entries in a block
  BufSize,       \* size of the write buffer
  Limit,         \* positions are below it, 2^32 in the code
  MaxAdds, MaxMakes, MaxFinds

VARIABLES
  mk,     \* struct cdb_make, and the temporary file
  disk,   \* the file in use
  rd,     \* struct cdb, with the file it has open, and its iterators
  hist

vars == <<mk, disk, rd, hist>>

Keys == DOMAIN Hash
Base == 8 * Tables
NoFile == [final |-> [i \in 0..(Tables - 1) |-> [pos |-> Base, len |-> 0]], slot |-> <<>>, rec |-> <<>>]

(* ---------------------------------------------------------------------- *)
(* Writing                                                                 *)
(* ---------------------------------------------------------------------- *)

\* buffer_putalign of a number of bytes: the buffer is written each time it
\* is full and more is to come.
Flushes(p, len) == (p + len > BufSize)
buffer_putalign(p, len) ==
  IF Flushes(p, len) THEN ((p + len - 1) % BufSize) + 1 ELSE p + len

cdb_make_start ==
  [state |-> "open", head |-> <<>>, pos |-> Base, p |-> 0, rec |-> <<>>, log |-> <<>>]

\* lcdb_make_free
Freed(state) == [cdb_make_start EXCEPT !.state = state]

Record(m, k, d) == [key |-> k, dlen |-> d, id |-> Len(m.log) + 1]

\* The blocks of entries, the newest block first.
NewEntry(head, hp) ==
  IF head = <<>> \/ Len(head[1]) >= CDB_HPLIST THEN <<<<hp>>>> \o head
  ELSE [head EXCEPT ![1] = Append(@, hp)]

cdb_make_add(m, k, d) ==
  [m EXCEPT !.head = NewEntry(@, [h |-> Hash[k], p |-> m.pos]),
            !.pos = @ + 8 + KeyLen[k] + d,
            !.p = buffer_putalign(@, 8 + KeyLen[k] + d),
            !.rec = [q \in DOMAIN @ \cup {m.pos} |-> IF q = m.pos THEN Record(m, k, d) ELSE @[q]],
            !.log = Append(@, Record(m, k, d))]

\* split: the entries of each table, filled from its end while the blocks
\* are read from their end.
Split(head, i) ==
  LET walk == FlattenSeq([b \in DOMAIN head |-> Reverse(head[b])])
  IN FoldLeft(LAMBDA s, hp : IF hp.h % Tables = i THEN <<hp>> \o s ELSE s, <<>>, walk)

Empty == [h |-> 0, p |-> 0]

\* Mutant of Placed: the probe does not go round.
PlacedShort(hash, hp) ==
  LET len == Len(hash)
      where == (hp.h \div Tables) % len
      free == {w \in where..(len - 1) : hash[w + 1].p = 0}
  IN [hash EXCEPT ![(IF free = {} THEN len - 1 ELSE Min(free)) + 1] = hp]

Placed(hash, hp) ==
  LET len == Len(hash)
      where == (hp.h \div Tables) % len
      d == Min({e \in 0..(len - 1) : hash[((where + e) % len) + 1].p = 0})
  IN [hash EXCEPT ![((where + d) % len) + 1] = hp]

TableOf(head, i) ==
  LET split == Split(head, i)
  IN FoldLeft(Placed, [u \in 1..(2 * Len(split)) |-> Empty], split)

\* The file cdb_make_finish leaves.
Finished(m) ==
  LET table(i) == TableOf(m.head, i)
      start(i) == m.pos + 8 * MapThenSumSet(LAMBDA j : Len(table(j)), 0..(i - 1))
      at == UNION {{start(i) + 8 * (u - 1) : u \in DOMAIN table(i)} : i \in 0..(Tables - 1)}
      of(q) == CHOOSE i \in 0..(Tables - 1) : q >= start(i) /\ q < start(i) + 8 * Len(table(i))
  IN [final |-> [i \in 0..(Tables - 1) |-> [pos |-> start(i), len |-> Len(table(i))]],
      slot |-> [q \in at |-> table(of(q))[((q - start(of(q))) \div 8) + 1]],
      rec |-> m.rec]

SlotBytes(f) == 8 * Cardinality(DOMAIN f.slot)

(* ---------------------------------------------------------------------- *)
(* Reading                                                                 *)
(* ---------------------------------------------------------------------- *)

Fresh == [loop |-> 0, khash |-> 0, kpos |-> 0, hpos |-> 0, hslots |-> 0, dpos |-> 0, ret |-> 0]
cdb_findstart(c) == [c EXCEPT !.loop = 0]

\* The first call for a key finds the table and the slot to start from.
Begun(f, c, key) ==
  LET t == f.final[Hash[key] % Tables]
  IN IF c.loop # 0 THEN c
     ELSE IF t.len = 0 THEN [c EXCEPT !.hslots = 0]
     ELSE [c EXCEPT !.hslots = t.len, !.hpos = t.pos, !.khash = Hash[key],
                    !.kpos = t.pos + 8 * ((Hash[key] \div Tables) % t.len)]

RECURSIVE Probe(_, _, _)
Probe(f, c, key) ==
  LET s == f.slot[c.kpos]
      on == IF c.kpos + 8 = c.hpos + 8 * c.hslots THEN c.hpos ELSE c.kpos + 8
      next == [c EXCEPT !.loop = @ + 1, !.kpos = on]
  IN IF c.loop >= c.hslots \/ s.p = 0 THEN [c EXCEPT !.ret = 0]
     ELSE IF s.h = c.khash /\ f.rec[s.p].key = key THEN [next EXCEPT !.ret = 1, !.dpos = s.p]
     ELSE Probe(f, next, key)

cdb_findnext(f, c, key) ==
  LET b == Begun(f, c, key) IN IF b.hslots = 0 THEN [b EXCEPT !.ret = 0] ELSE Probe(f, b, key)

\* lcdb_pairs_aux, cdbdump: the records from the header to the first table.
RECURSIVE Pairs(_, _)
Pairs(f, pos) ==
  IF pos < Base \/ pos >= f.final[0].pos THEN <<>>
  ELSE <<f.rec[pos]>> \o Pairs(f, pos + 8 + KeyLen[f.rec[pos].key] + f.rec[pos].dlen)

\* cdbget: the value of a key behind skip others, 0 when there is none.
RECURSIVE cdbget(_, _, _, _)
cdbget(f, c, key, skip) ==
  LET n == cdb_findnext(f, c, key)
  IN IF n.ret = 0 THEN 0 ELSE IF skip = 0 THEN f.rec[n.dpos].id ELSE cdbget(f, n, key, skip - 1)

\* cdbstats: how far the search for a record's position goes, 0 when it fails.
RECURSIVE Distance(_, _, _, _)
Distance(f, c, key, pos) ==
  LET n == cdb_findnext(f, c, key)
  IN IF n.ret = 0 THEN 0 ELSE IF n.dpos = pos THEN n.loop ELSE Distance(f, n, key, pos)

(* ---------------------------------------------------------------------- *)
(* The interface for Lua programs                                          *)
(* ---------------------------------------------------------------------- *)

NoIterator == [key |-> CHOOSE k \in Keys : TRUE, got |-> <<>>, on |-> FALSE, mixed |-> FALSE, done |-> FALSE]
NoReader == [open |-> FALSE, file |-> NoFile, log |-> <<>>, c |-> Fresh, it |-> [i \in 1..2 |-> NoIterator]]

Init ==
  /\ mk = Freed("none")
  /\ disk = [file |-> NoFile, log |-> <<>>]
  /\ rd = NoReader
  /\ hist = [makes |-> 0, adds |-> 0, finds |-> 0]

lcdb_make_start ==
  /\ hist.makes < MaxMakes
  /\ mk.state # "open"
  /\ mk' = cdb_make_start
  /\ hist' = [hist EXCEPT !.makes = @ + 1]
  /\ UNCHANGED <<disk, rd>>

\* A write may fail; then, and when positions run out, everything is freed.
lcdb_make_add(k, d, ok) ==
  LET len == 8 + KeyLen[k] + d
  IN /\ mk.state = "open"
     /\ hist.adds < MaxAdds
     /\ ~ok => Flushes(mk.p, len)
     /\ mk' = IF ok /\ mk.pos + len < Limit THEN cdb_make_add(mk, k, d) ELSE Freed("failed")
     /\ hist' = [hist EXCEPT !.adds = @ + 1]
     /\ UNCHANGED <<disk, rd>>

lcdb_make_finish(ok) ==
  /\ mk.state = "open"
  /\ IF ok /\ mk.pos + SlotBytes(Finished(mk)) < Limit
       THEN /\ mk' = Freed("done")
            /\ disk' = [file |-> Finished(mk), log |-> mk.log]
       ELSE /\ mk' = Freed("failed")
            /\ UNCHANGED disk
  /\ UNCHANGED <<rd, hist>>

\* The writer is collected, or the process ends: the temporary file stays.
lcdb_make_gc ==
  /\ mk.state = "open"
  /\ mk' = Freed("failed")
  /\ UNCHANGED <<disk, rd, hist>>

lcdb_init ==
  /\ ~rd.open
  /\ hist.finds < MaxFinds
  /\ rd' = [NoReader EXCEPT !.open = TRUE, !.file = disk.file, !.log = disk.log]
  /\ UNCHANGED <<mk, disk, hist>>

lcdb_free ==
  /\ rd.open
  /\ hist.finds > 0
  /\ rd' = NoReader
  /\ UNCHANGED <<mk, disk, hist>>

\* A new iterator; it starts the search of the handle again.  The first one
\* of a handle is number 1.
lcdb_values(i, k) ==
  /\ rd.open
  /\ i = 1 \/ rd.it[1].on
  /\ hist.finds < MaxFinds
  /\ rd' = [rd EXCEPT !.c = cdb_findstart(@),
                      !.it = [j \in 1..2 |-> IF j = i THEN [NoIterator EXCEPT !.key = k, !.on = TRUE]
                                             ELSE [rd.it[j] EXCEPT !.mixed = TRUE]]]
  /\ hist' = [hist EXCEPT !.finds = @ + 1]
  /\ UNCHANGED <<mk, disk>>

lcdb_values_aux(i) ==
  LET it == rd.it[i]
      n == cdb_findnext(rd.file, rd.c, it.key)
  IN /\ rd.open
     /\ it.on
     /\ ~it.done
     /\ rd' = [rd EXCEPT !.c = n,
                         !.it = [j \in 1..2 |->
                           IF j # i THEN [rd.it[j] EXCEPT !.mixed = TRUE]
                           ELSE IF n.ret = 0 THEN [it EXCEPT !.done = TRUE]
                           ELSE [it EXCEPT !.got = Append(@, rd.file.rec[n.dpos])]]]
     /\ UNCHANGED <<mk, disk, hist>>

Next ==
  \/ lcdb_make_start
  \/ \E k \in Keys, d \in Data, ok \in BOOLEAN : lcdb_make_add(k, d, ok)
  \/ \E ok \in BOOLEAN : lcdb_make_finish(ok)
  \/ lcdb_make_gc
  \/ lcdb_init
  \/ lcdb_free
  \/ \E i \in 1..2, k \in Keys : lcdb_values(i, k)
  \/ \E i \in 1..2 : lcdb_values_aux(i)

Spec == Init /\ [][Next]_vars

(* ---------------------------------------------------------------------- *)
(* Properties                                                              *)
(* ---------------------------------------------------------------------- *)

Of(log, k) == SelectSeq(log, LAMBDA r : r.key = k)

\* Whatever the collisions and the blocks, whatever writer failed before, the
\* file in use is a complete database: pairs and cdbdump give its records in
\* the order they were added, cdbget every value of a key in that order and
\* no other, and cdbstats finds every record (cdb_make_finish, cdb_findnext).
FileIsWhole ==
  LET f == disk.file
      found(k) == [n \in 1..Len(Of(disk.log, k)) |-> cdbget(f, Fresh, k, n - 1)]
  IN /\ Pairs(f, Base) = disk.log
     /\ \A k \in Keys : /\ found(k) = [n \in DOMAIN Of(disk.log, k) |-> Of(disk.log, k)[n].id]
                        /\ cdbget(f, Fresh, k, Len(Of(disk.log, k))) = 0
     /\ \A q \in DOMAIN f.rec : Distance(f, Fresh, f.rec[q].key, q) > 0

\* An iterator over the values of a key gives those of the file its handle
\* opened, even when that file was replaced since, and all of them when it
\* ends, unless another search used the handle meanwhile: the position of
\* the search is kept in the handle (lcdb_values_aux).
IteratorIsExact ==
  \A i \in 1..2 :
    LET it == rd.it[i]
        all == Of(rd.log, it.key)
    IN rd.open /\ it.on /\ ~it.mixed =>
         /\ IsPrefix(it.got, all)
         /\ it.done => it.got = all
=============================================================================
