----------------------------- MODULE LogStore -----------------------------
(***************************************************************************)
(* The storage of log messages: luafwk/log/log_store.c (a ring in memory), *)
(* log_storeflash.c (two files in turn) and the policies of                *)
(* luafwk/log/tools.lua that fill them.                                    *)
(*                                                                         *)
(* A message is its number, length and severity; its bytes in the ring are *)
(* the message and a position.  A file holds whole messages.               *)
(***************************************************************************)
EXTENDS Integers, Sequences, FiniteSets, SequencesExt, FiniteSetsExt

CONSTANTS
  Policies,     \* the policies tried, of "sole", "buffered_all", "context"
  buf_size,     \* size of the ring
  limit,        \* file_size_limit
  Lengths,      \* lengths of the messages under each policy
  MaxLogs,      \* number of messages under each policy
  MaxCrashes

VARIABLES
  policy,
  ram,     \* buf, current, first
  flash,   \* the two files
  log,     \* the messages given to the policy
  hist     \* what happened to each message

vars == <<policy, ram, flash, log, hist>>

(* ---------------------------------------------------------------------- *)
(* The ring                                                                *)
(* ---------------------------------------------------------------------- *)

lograminit == [buf |-> [k \in 0..(buf_size - 1) |-> 0], current |-> 0, first |-> 0]

\* readnextsize: the size at an offset, and the offset behind it.
SizeAt(r, offset) == r.buf[offset] + 256 * r.buf[(offset + 1) % buf_size]
Behind(offset) == (offset + 2) % buf_size

spare_space(r) == IF r.current >= r.first THEN buf_size - r.current + r.first ELSE r.first - r.current

Bytes(n) == [k \in 1..n.len |-> [message |-> n, pos |-> k]]

Place(buf, at, s) == [k \in DOMAIN buf |-> IF k \in at..(at + Len(s) - 1) THEN s[k - at + 1] ELSE buf[k]]

writelog(r, s) ==
  LET pt1_size == IF r.current + Len(s) > buf_size THEN buf_size - r.current ELSE 0
      at == IF r.current + Len(s) > buf_size THEN 0 ELSE r.current
      rest == SubSeq(s, pt1_size + 1, Len(s))
  IN [r EXCEPT !.buf = Place(Place(@, r.current, SubSeq(s, 1, pt1_size)), at, rest),
               !.current = at + Len(rest)]

writesize(r, size) ==
  [r EXCEPT !.buf = [@ EXCEPT ![r.current] = size % 256, ![(r.current + 1) % buf_size] = size \div 256],
            !.current = (@ + 2) % buf_size]

\* Mutant of Freed: the bytes of the size do not count as freed.
RECURSIVE FreedTooMany(_, _)
FreedTooMany(r, space_to_free) ==
  LET size == SizeAt(r, r.first)
  IN IF space_to_free <= 0 THEN r
     ELSE FreedTooMany([r EXCEPT !.first = (Behind(@) + size) % buf_size], space_to_free - size)

RECURSIVE Freed(_, _)
Freed(r, space_to_free) ==
  LET size == SizeAt(r, r.first)
  IN IF space_to_free <= 0 THEN r
     ELSE Freed([r EXCEPT !.first = (Behind(@) + size) % buf_size], space_to_free - 2 - size)

Stored(r, n) == writelog(writesize(Freed(r, n.len + 2 - spare_space(r)), n.len), Bytes(n))

Rejected(n) == n.len + 2 > buf_size \/ n.len = 0
MustErase(r, n) == spare_space(r) < n.len + 2

\* getnextcopyindexes and the loop of logramget.
RECURSIVE Collected(_, _)
Collected(r, offset) ==
  LET end == Behind(offset) + SizeAt(r, offset)
      past == IF end > buf_size - 1 THEN end - buf_size ELSE end
  IN IF offset = r.current THEN <<>>
     ELSE [k \in 1..SizeAt(r, offset) |-> r.buf[(Behind(offset) + k - 1) % buf_size]]
            \o (IF past > buf_size THEN <<>> ELSE Collected(r, past))

\* The loop of logramget never meets an offset behind the last byte.
Endless(r) == r.current = buf_size
Empty(r) == r.current = r.first

Messages(bytes) ==
  LET starts == SelectSeq(bytes, LAMBDA b : b.pos = 1)
  IN [k \in DOMAIN starts |-> starts[k].message]
InRam(r) == IF Endless(r) \/ Empty(r) THEN <<>> ELSE Messages(Collected(r, r.first))

Footprint(s) == FoldLeft(LAMBDA sum, n : sum + n.len + 2, 0, s)
Newest(S) == CHOOSE n \in S : \A m \in S : m.id <= n.id

(* ---------------------------------------------------------------------- *)
(* The files                                                               *)
(* ---------------------------------------------------------------------- *)

SizeOf(f) == FoldLeft(LAMBDA sum, n : sum + n.len, 0, f)

swap_files(f, size) ==
  IF SizeOf(f.file1) + size > limit THEN [file2 |-> f.file1, file1 |-> <<>>] ELSE f

logflashstore(f, ns) == [swap_files(f, SizeOf(ns)) EXCEPT !.file1 = @ \o ns]
logflashgetsource(f) == f.file2 \o f.file1

\* What a crash in logflashstore leaves: the older file may be gone, the
\* current one may have taken its name, the message is not written.
CrashedFiles(f, ns) ==
  IF SizeOf(f.file1) + SizeOf(ns) > limit
    THEN {f, [f EXCEPT !.file2 = <<>>], [file2 |-> f.file1, file1 |-> <<>>]}
    ELSE {f}

(* ---------------------------------------------------------------------- *)
(* The policies                                                            *)
(* ---------------------------------------------------------------------- *)

Both == [ram |-> ram, flash |-> flash, hist |-> hist]

ToFlash(w, ns) ==
  [w EXCEPT !.flash = logflashstore(@, ns), !.hist.flashed = @ \o ns, !.hist.crash = <<w.flash, ns>>]

\* logramget: what was in the ring, which is then empty.
logramget(w) == [w EXCEPT !.ram = lograminit]

Drain(w) == ToFlash(logramget(w), InRam(w.ram))

\* The signal "erasedata" may empty the ring.  The hook of buffered_all is
\* run by the signal, the other tasks by sched.step: LogUpload may take what
\* is in the ring.
Hooked(w) == IF policy = "buffered_all" THEN Drain(w) ELSE w
Uploaded(w, upload) ==
  IF upload THEN [logramget(w) EXCEPT !.hist.uploaded = @ \cup Range(InRam(w.ram))] ELSE w

Replaced(w, r, old, new) ==
  LET lost == Range(old) \ Range(new)
  IN [w EXCEPT !.ram = r, !.hist.edge = @ \/ Empty(r) \/ Endless(r), !.hist.erased = @ \cup lost,
               !.hist.needless = @ \/ (lost # {} /\ Footprint(new) + Newest(lost).len + 2 <= buf_size)]
StoredIn(w, r) == Replaced(w, r, InRam(w.ram), InRam(r))
Kept(w, n) == StoredIn(w, Stored(w.ram, n))

logramstore(w, n, upload) ==
  IF Rejected(n) THEN [w EXCEPT !.hist.rejected = @ \cup {n}]
  ELSE Kept(IF MustErase(w.ram, n) THEN Uploaded(Hooked(w), upload) ELSE w, n)

Important(n) == n.severity = "ERROR"

\* logpolicy_sole, logpolicy_buffered_all and logpolicy_context.  When the
\* last byte of the buffer was just written, logramget does not return.
Logged(w, n) ==
  CASE policy = "sole" /\ Important(n) -> ToFlash(w, <<n>>)
    [] policy = "context" /\ Important(n) /\ ~Empty(w.ram) /\ ~Endless(w.ram) -> Drain(w)
    [] OTHER -> w
Handled(n, upload) == Logged(logramstore(Both, n, upload), n)

Init ==
  /\ policy \in Policies
  /\ ram = lograminit
  /\ flash = [file1 |-> <<>>, file2 |-> <<>>]
  /\ log = <<>>
  /\ hist = [flashed |-> <<>>, uploaded |-> {}, rejected |-> {}, erased |-> {}, lost |-> {}, needless |-> FALSE,
             edge |-> FALSE, crashes |-> 0, crash |-> <<>>]

Apply(w) == ram' = w.ram /\ flash' = w.flash /\ hist' = [w.hist EXCEPT !.crash = <<>>]

\* A message goes to the policy.  The next store behind the end of the
\* buffer writes outside of it: nothing is said of what follows.
storelogger(len, severity, upload) ==
  /\ Len(log) < MaxLogs[policy]
  /\ ~Endless(ram)
  /\ LET n == [id |-> Len(log) + 1, len |-> len, severity |-> severity]
     IN log' = Append(log, n) /\ Apply(Handled(n, upload))
  /\ UNCHANGED policy

\* The program stops while it stores a message in the files, or at rest,
\* and starts again: the ring is lost.
Crash(len, severity) ==
  LET n == [id |-> Len(log) + 1, len |-> len, severity |-> severity]
  IN /\ hist.crashes < MaxCrashes
     /\ Len(log) < MaxLogs[policy]
     /\ ~Endless(ram)
     /\ ram' = lograminit
     /\ log' = Append(log, n)
     /\ \E crash \in {Handled(n, FALSE).hist.crash} :
          flash' \in IF crash = <<>> THEN {flash} ELSE CrashedFiles(crash[1], crash[2])
     /\ hist' = [hist EXCEPT !.crashes = @ + 1, !.lost = @ \cup Range(InRam(ram)) \cup {n}]
     /\ UNCHANGED policy

\* The LogUpload command with log source "ram".
LogUpload ==
  /\ ~Empty(ram)
  /\ ~Endless(ram)
  /\ ram' = lograminit
  /\ hist' = [hist EXCEPT !.uploaded = @ \cup Range(InRam(ram))]
  /\ UNCHANGED <<policy, flash, log>>

\* buffered_all does not look at the severity.
Severities == IF policy = "buffered_all" THEN {"INFO"} ELSE {"ERROR", "INFO"}

Next ==
  \/ \E len \in Lengths[policy], severity \in Severities :
       \/ \E upload \in BOOLEAN : storelogger(len, severity, upload)
       \/ Crash(len, severity)
  \/ LogUpload

Spec == Init /\ [][Next]_vars

(* ---------------------------------------------------------------------- *)
(* Properties                                                              *)
(* ---------------------------------------------------------------------- *)


\* However messages wrap around the end of the ring (writelog, writesize and
\* the freeing loop of logramstore) and whatever task empties it while the
\* signal "erasedata" is handled, the ring gives back, in order and
\* unbroken, the last messages stored; a message is erased only to make
\* room, and under buffered_all none is erased before it is in a file.
RingKeepsLatest ==
  LET gone == hist.uploaded \cup hist.rejected \cup hist.lost \cup Range(hist.flashed)
      taken == SelectSeq(log, LAMBDA n : n \notin hist.rejected)
  IN ~hist.edge =>
       \E kept \in {InRam(ram)} :
         /\ ~hist.needless
         /\ IsSuffix(kept, taken)
         /\ Footprint(kept) < buf_size
         /\ policy = "buffered_all" => hist.erased = {}
         /\ \A n \in Range(log) : n \in Range(kept) \cup gone \cup hist.erased

\* Through file swaps, and a stop between the removal of the older file, the
\* renaming and the write (swap_files), the two files hold the last messages
\* written, in order, and no more than the limit allows each.
FilesKeepLatest ==
  /\ IsSuffix(logflashgetsource(flash), hist.flashed)
  /\ hist.crashes = 0 /\ SizeOf(hist.flashed) <= limit => flash.file1 = hist.flashed
  /\ hist.crashes = 0 /\ SizeOf(flash.file1) < SizeOf(hist.flashed) => flash.file2 # <<>>
  /\ Len(flash.file1) > 1 => SizeOf(flash.file1) <= limit + buf_size

=============================================================================
