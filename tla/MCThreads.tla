----------------------------- MODULE MCThreads ------------------------------
(***************************************************************************)
(* The components whose difficulty is the interleaving of tasks or of      *)
(* threads, checked in one run.  They are independent: an initial state    *)
(* chooses one of them (part).  Fd is extended and has variables of its    *)
(* own; the others have v1 .. v12 to themselves in turn.                   *)
(***************************************************************************)
EXTENDS Fd, Integers, TLC

CONSTANTS o1, s1, s2, t1, h1, p1, p2, nobody

VARIABLES part, v1, v2, v3, v4, v5, v6, v7, v8, v9, v10, v11, v12

shared == <<v1, v2, v3, v4, v5, v6, v7, v8, v9, v10, v11, v12>>
MCvars == <<part, shared, vars>>

Values64 == {[hi |-> -1, lo |-> -7], [hi |-> 1, lo |-> 0], [hi |-> 0, lo |-> -1]}
DataPaths == {<<"a">>, <<"a", "b", "c">>, <<"a", "">>, <<"a", "", "b">>}

Leaf(t) == [type |-> t, children |-> <<>>]
Nodes == {Leaf(t) : t \in {"string", "number", "bool", "null", "only null", "failed"}}
         \cup {[type |-> "node", children |-> <<Leaf("string")>>]}
NodeLists == UNION {[1 .. n -> Nodes] : n \in 0 .. 3}

\* A hook on an event of the object; tasks that wait for any event of the
\* object or of a task, or for a timeout.
S == INSTANCE Sched WITH
  Objects <- {o1}, Tasks <- {s1, s2}, Events <- {"a"}, Cells <- {1, 2},
  TableIds <- 1 .. 3, QueueIds <- 1 .. 6, MaxDepth <- 2, None <- nobody,
  HookRegs <- {<<o1, {"a"}, FALSE>>}, WaitRegs <- {<<{o1, s1}, {"*"}, TRUE>>},
  status <- v1, ready <- v2, running <- v3, body <- v4, stepping <- v5,
  cell <- v6, waiting <- v7, emq <- v8, queue <- v9, stack <- v10,
  reentered <- v11, confused <- v12

\* Two assets, a restart of the agent, a failed request.
A == INSTANCE Airvantage WITH
  Threads <- {t1}, Handlers <- {h1}, Assets <- {p1, p2}, Columns <- 2,
  Values <- Values64, Paths <- DataPaths, MaxMsgs <- 1, MaxRestarts <- 1,
  MaxFaults <- 1, MaxCells <- 4,
  lib <- v1, obj <- v2, thr <- v3, ra <- v4, tab <- v5, hist <- v6

\* Two registrations by two threads; what swi_dt_MultipleGet is asked for.
L == INSTANCE Listeners WITH
  Threads <- {p1, p2}, Entries <- {1, 2}, Requests <- NodeLists,
  MaxMsgs <- 1, MaxRestarts <- 1, MaxFaults <- 1,
  lib <- v1, ent <- v2, thr <- v3, ag <- v4, hist <- v5

above6 == <<v7, v8, v9, v10, v11, v12>>
above5 == <<v6, above6>>

Zero6 == v7 = 0 /\ v8 = 0 /\ v9 = 0 /\ v10 = 0 /\ v11 = 0 /\ v12 = 0
Zero == v1 = 0 /\ v2 = 0 /\ v3 = 0 /\ v4 = 0 /\ v5 = 0 /\ v6 = 0 /\ Zero6

MCInit == /\ Init
          /\ \/ part = "fd" /\ Zero
             \/ part = "sched" /\ S!Init
             \/ part = "assets" /\ A!Init /\ Zero6
             \/ part = "listeners" /\ L!Init /\ v6 = 0 /\ Zero6

MCNext == /\ UNCHANGED part
          /\ \/ part = "fd" /\ Next /\ UNCHANGED shared
             \/ part = "sched" /\ S!Next /\ UNCHANGED vars
             \/ part = "assets" /\ A!Next /\ UNCHANGED <<above6, vars>>
             \/ part = "listeners" /\ L!Next /\ UNCHANGED <<above5, vars>>

MCSpec == MCInit /\ [][MCNext]_MCvars

\* p1 and p2 are two tasks, threads or assets that a part does not tell apart.
Symmetry == Permutations({p1, p2})

\* A hook, or a task blocked in wait(), stays where the signals it registered
\* for find it, and a task that lives is in exactly one place: neither
\* forgotten nor rescheduled twice (sched/init.lua).
TasksAreKept == part = "sched" => S!ListenersStayAttached /\ S!TaskInOnePlace

\* The list of assets holds those that were started and not destroyed, the
\* agent knows them again after its restart, and the data it acknowledges is
\* the data that was pushed (swi_airvantage.c).
AssetsAreServed == part = "assets" => A!AssetsListed /\ A!RegisteredAgain /\ A!PushedArrives

\* A registration stays in the list until it is unregistered, and a
\* notification calls the callback it was sent for (swi_devicetree.c, swi_sms.c,
\* swi_update.c).
ListenersAreCalled ==
  [][part = "listeners" => L!ListenersKept' /\ L!DeliveredToOwner]_MCvars

\* "Each leaf value will be put as an element in the swi_dset_Iterator_t object"
\* (swi_devicetree.h, swi_dt_MultipleGet).
LeavesAreReturned == part = "listeners" => L!LeavesAreReturned
=============================================================================
