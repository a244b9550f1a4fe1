------------------------------ MODULE MCRuntime ------------------------------
(* The libraries the agent stands on: the collector, the tables and the    *)
(* calls of Lua, sockets, GPIO, the log store, constant databases, the     *)
(* ciphering of its keys and the C logger.  A behaviour belongs to one of  *)
(* them, part.  SwiLog is extended and has variables of its own; the       *)
(* others have v1 .. v6 to themselves in turn.                             *)
EXTENDS SwiLog

CONSTANTS Coroutines, Gpios, Hooks

VARIABLES part, v1, v2, v3, v4, v5, v6

shared == <<v1, v2, v3, v4, v5, v6>>
MCvars == <<part, shared, vars>>

-----------------------------------------------------------------------------
(* The collector: four objects, and programs that each exercise one kind   *)
(* of object against the steps of a cycle.                                 *)

Object(tt, tm) == [tt |-> tt, tm |-> tm]
Mutator(ops, tms, objs, max) == [ops |-> ops, tms |-> tms, objs |-> objs, max |-> max]
Mutators ==
  {Mutator({"table", "settable", "next", "clear"}, {""}, <<Object("table", ""), Object("table", "")>>, 3),
   Mutator({"settable", "setmetatable", "table", "gc"}, {"k", "v"}, <<Object("table", "")>>, 3),
   Mutator({"udata", "table", "setmetatable", "settable", "clear", "next"}, {"gc"},
           <<Object("udata", ""), Object("table", "gc")>>, 3),
   Mutator({"string", "settable", "next", "clear", "gc"}, {}, <<Object("table", "")>>, 3),
   Mutator({"closure", "upval", "close", "clear", "gc"}, {""}, <<Object("table", "")>>, 4),
   Mutator({"thread", "closure", "clear", "gc"}, {}, <<Object("thread", "")>>, 3)}

G == INSTANCE LuaGC WITH
  Ids <- 1..4, Slots <- {1, 2}, Contents <- {1}, Programs <- Mutators, GCSWEEPMAX <- 1,
  g <- v1, hist <- v2

-----------------------------------------------------------------------------
(* Tables: five integer keys and four others that collide; all lists of    *)
(* five values out of three are sorted.                                    *)

Program(ops, keys, list, max) == [ops |-> ops, keys |-> keys, list |-> list, max |-> max]
TablePrograms ==
  {Program({"assign", "next"}, {1, 2, 4, 6}, <<>>, 4),
   Program({"assign", "next"}, {3, 6, 7, 8, 9}, <<>>, 5),
   Program({"assign", "resize", "insert"}, {1, 2, 4, 5, 6}, <<1, 2, 1>>, 3),
   Program({"insert", "remove", "sort"}, {}, <<1, 2>>, 4)}
  \cup {Program({"sort"}, {}, l, 1) : l \in [1..5 -> 1..3]}

T == INSTANCE LuaTable WITH
  Keys <- 1..9, LastInt <- 5, Hash <- <<3, 6, 9, 12, 15, 1, 5, 9, 2>>, Vals <- {1, 2},
  Programs <- TablePrograms,
  t <- v1, ref <- v2, trav <- v3, hist <- v4

-----------------------------------------------------------------------------
(* Calls: two coroutines, limits of six calls and three C calls.           *)

D == INSTANCE LuaDo WITH
  Programs <- {{"call", "C", "pcall", "xpcall", "error", "memory"},
               {"resume", "yield", "pcall", "xpcall", "error"},
               {"resume", "yield", "C", "memory"}},
  BASIC_CI_SIZE <- 4, LUAI_MAXCALLS <- 6, LUAI_MAXCCALLS <- 3, Extra <- 2,
  st <- v1, fate <- v2, prog <- v3

-----------------------------------------------------------------------------
(* A socket: a stream of six bytes read by a buffer of three, three bytes  *)
(* sent by steps of two through a window of two, timeouts within two ticks.*)

S == INSTANCE Socket WITH
  Streams <- {<<"a", "r", "n", "a", "n", "a">>},
  Patterns <- {[kind |-> "l", n |-> 0], [kind |-> "a", n |-> 0], [kind |-> "n", n |-> 2]},
  BUF_SIZE <- 3, STEPSIZE <- 2, Room <- 2, ToSend <- 3, Blocks <- {-1, 0, 1}, Totals <- {-1, 1},
  MaxTime <- 2, MaxCalls <- 5,
  so <- v1, call <- v2, net <- v3, hist <- v4

-----------------------------------------------------------------------------
(* GPIO: three calls on two pins, one access to the file system fails, and *)
(* another program exports a pin.                                          *)

P == INSTANCE Gpio WITH
  Configs <- {[direction |-> "out", edge |-> "none", active_low |-> "0"],
              [direction |-> "in", edge |-> "rising", active_low |-> "1"],
              [edge |-> "both"]},
  MaxCalls <- 3, MaxFails <- 1, MaxChanges <- 2, MaxOthers <- 1,
  sys <- v1, reg <- v2, call <- v3, hist <- v4

-----------------------------------------------------------------------------
(* The log store: four or five messages, a ring of which three fill all but*)
(* one byte, so that a size wraps too, files of seven bytes, a crash.      *)

L == INSTANCE LogStore WITH
  Policies <- {"sole", "buffered_all", "context"}, buf_size <- 10, limit <- 7,
  Lengths <- [sole |-> {1, 4}, buffered_all |-> {1, 4, 9}, context |-> {1, 4, 9}],
  MaxLogs <- [sole |-> 5, buffered_all |-> 5, context |-> 4], MaxCrashes <- 1,
  policy <- v1, ram <- v2, flash <- v3, log <- v4, hist <- v5

-----------------------------------------------------------------------------
(* Constant databases: keys a and b have the same hash, files pass the     *)
(* limit of positions, one is replaced while a reader has it open.         *)

C == INSTANCE Cdb WITH
  Tables <- 2, Hash <- [a |-> 22, b |-> 22, c |-> 7], KeyLen <- [a |-> 1, b |-> 1, c |-> 0],
  Data <- {3}, CDB_HPLIST <- 2, BufSize <- 24, Limit <- 90, MaxAdds <- 3, MaxMakes <- 2, MaxFinds <- 2,
  mk <- v1, disk <- v2, rd <- v3, hist <- v4

-----------------------------------------------------------------------------
(* Ciphering: blocks of four bytes, texts around the size of a block and   *)
(* ending like a padding, keys rewritten with a crash.                     *)

A == INSTANCE Aes WITH
  B <- 4, Plains <- {<<>>, <<7, 7, 2>>, <<9, 8, 7, 1>>, <<5, 6, 7, 8, 1>>},
  Chunks <- {<<7>>, <<5, 6, 7, 8, 1>>}, MaxPlain <- 5,
  KeyIds <- {"k1", "k2"}, KeyLens <- {16, 20}, Slots <- {0, 2},
  MaxCalls <- 5, MaxFilters <- 2, MaxWrites <- [session |-> 2, store |-> 3], MaxFaults <- 1,
  disk <- v1, job <- v2, ctx <- v3, flt <- v4, got <- v5, hist <- v6

-----------------------------------------------------------------------------
(* The logger: two threads log for three modules, one named like another   *)
(* with a digit behind it.                                                 *)

NamedInPart == {<<"AV", "AV1">>}
NamedWithDigit == {<<"AV", 1, "AV1">>}
Verbosities == {<<>>, <<[name |-> "DT", level |-> 3], [name |-> "AV", level |-> 1],
                        [name |-> "default", level |-> 3]>>}

-----------------------------------------------------------------------------
Library ==
  \/ part = "gc" /\ G!Init /\ v3 = 0 /\ v4 = 0 /\ v5 = 0 /\ v6 = 0
  \/ part = "table" /\ T!Init /\ v5 = 0 /\ v6 = 0
  \/ part = "calls" /\ D!Init /\ v4 = 0 /\ v5 = 0 /\ v6 = 0
  \/ part = "socket" /\ S!Init /\ v5 = 0 /\ v6 = 0
  \/ part = "gpio" /\ P!Init /\ v5 = 0 /\ v6 = 0
  \/ part = "log" /\ L!Init /\ v6 = 0
  \/ part = "cdb" /\ C!Init /\ v5 = 0 /\ v6 = 0
  \/ part = "aes" /\ A!Init

MCInit ==
  /\ Init
  /\ \/ part = "logger" /\ v1 = 0 /\ v2 = 0 /\ v3 = 0 /\ v4 = 0 /\ v5 = 0 /\ v6 = 0
     \/ env = <<>> /\ Library

LibraryStep ==
  \/ part = "gc" /\ G!Next /\ UNCHANGED <<v3, v4, v5, v6>>
  \/ part = "table" /\ T!Next /\ UNCHANGED <<v5, v6>>
  \/ part = "calls" /\ D!Next /\ UNCHANGED <<v4, v5, v6>>
  \/ part = "socket" /\ S!Next /\ UNCHANGED <<v5, v6>>
  \/ part = "gpio" /\ P!Next /\ UNCHANGED <<v5, v6>>
  \/ part = "log" /\ L!Next /\ UNCHANGED v6
  \/ part = "cdb" /\ C!Next /\ UNCHANGED <<v5, v6>>
  \/ part = "aes" /\ A!Next

MCNext ==
  /\ UNCHANGED part
  /\ \/ part = "logger" /\ Next /\ UNCHANGED shared
     \/ LibraryStep /\ UNCHANGED vars

MCSpec == MCInit /\ [][MCNext]_MCvars

-----------------------------------------------------------------------------
(* Properties. *)

\* However a program and the steps of the collector interleave, nothing the
\* program can reach is freed, and a full collection leaves nothing else
\* (lgc.c: barriers, atomic, sweeping, weak tables, finalizers).
CollectedIsGarbage == part = "gc" => G!NothingLost /\ G!FullIsFull

\* A table gives back the last value assigned to each key, through collisions
\* and rehashes, and a traversal that clears fields meets every key that stays,
\* once (ltable.c, ltablib.c).
TableIsFaithful == part = "table" => T!TableIsMap /\ T!TraversalIsWhole

\* Through errors, protected calls and coroutines the count of C calls is the
\* depth of the C stack, within its limit, and the status of a coroutine is what
\* can be done with it (ldo.c, lbaselib.c).
CallsAreBalanced == part = "calls" => D!DepthIsExact /\ D!StatusIsRight

\* Bytes go through a socket in order, each once, in spite of timeouts and
\* partial results, and select never waits for bytes already in the buffer
\* (luasocket's buffer.c, usocket.c, select.c).
StreamIsKept == part = "socket" => S!ReadIsStream /\ S!SentIsPrefix /\ S!BufferedIsTold

\* The hook of an input knows its last value or is about to be told, and a GPIO
\* another program set up keeps its parameters (gpio.c, gpio.lua).
GpioIsTruthful == part = "gpio" => P!HookIsUpToDate /\ P!OthersAreKept

\* The ring of logs and the two files it goes to hold the latest messages in
\* order, through wrapping, swapping and crashes (log_store.c, store.lua).
LatestLogsAreKept == part = "log" => L!RingKeepsLatest /\ L!FilesKeepLatest

\* A constant database is always a complete one, and an iterator gives the values
\* of the file it was opened on (cdb_make.c, cdb_find.c, lcdb.c).
DatabaseIsWhole == part = "cdb" => C!FileIsWhole /\ C!IteratorIsExact


=============================================================================
