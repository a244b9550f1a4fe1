-------------------------------- MODULE LuaGC --------------------------------
(***************************************************************************)
(* The incremental garbage collector of the Lua machine the agent runs on  *)
(* (lgc.c), with the objects it collects: tables, closures and their       *)
(* upvalues (lfunc.c), strings and userdata (lstring.c), coroutines.       *)
(*                                                                         *)
(* The program takes one operation at a time on the values of the running  *)
(* thread's stack; between two of them the collector may take any number   *)
(* of its single steps, since each allocation can start one.  A table has  *)
(* one entry, and one that serves as a metatable says by its tm whether    *)
(* it makes weak keys, weak values or a finalizer.                         *)
(***************************************************************************)
EXTENDS Integers, Sequences, FiniteSets

CONSTANTS Ids,         \* addresses of objects, 1..n; 1 is the main thread
          Slots,       \* stack slots of a thread, 1..n
          Contents,    \* the strings there are, 1..n: one row of the table each
          Programs,    \* what a program does: its ops, at most max of them, the
                       \* tms of its tables, and objs, what its stack holds at first
          GCSWEEPMAX

VARIABLES g,     \* the global state
          hist   \* [program, ops, clean]: clean, the last operation was a full
                 \* collection, and no finalizer ran since

vars == <<g, hist>>

nil == 0

Free == [tt |-> "free", marked |-> "gray", fin |-> FALSE, key |-> nil, val |-> nil, mt |-> nil,
         tm |-> "", open |-> nil, stack |-> [s \in Slots |-> nil], openupval |-> <<>>]

Tt(h, o) == h.heap[o].tt

-----------------------------------------------------------------------------
(* Colours: white in two shades, gray, black. *)

otherwhite(h) == 1 - h.currentwhite

iswhite(h, o) == h.heap[o].marked \in {"white0", "white1"}

luaC_white(h) == IF h.currentwhite = 0 THEN "white0" ELSE "white1"

isdead(h, o) == h.heap[o].marked = IF h.currentwhite = 0 THEN "white1" ELSE "white0"

isblack(h, o) == h.heap[o].marked = "black"

Colour(h, o, c) == [h EXCEPT !.heap[o].marked = c]

makewhite(h, o) == Colour(h, o, luaC_white(h))

\* Where an upvalue's value lives: in the stack while it is open.
UpValue(h, o) ==
    LET u == h.heap[o] IN IF u.open = nil THEN u.val ELSE h.heap[u.open].stack[u.key]

\* What a table's metatable makes of it.
Mode(h, o) == IF h.heap[o].mt = nil THEN "" ELSE h.heap[h.heap[o].mt].tm

WeakKey(h, o) == Mode(h, o) \in {"k", "kv"}

WeakVal(h, o) == Mode(h, o) \in {"v", "kv"}

-----------------------------------------------------------------------------
(* Marking. *)

\* A closed upvalue is black at once, an open one stays gray.
RECURSIVE markobject(_, _)
markobject(h, o) ==
    IF o = nil \/ ~iswhite(h, o) THEN h
    ELSE CASE Tt(h, o) = "string" -> Colour(h, o, "gray")
           [] Tt(h, o) = "udata" -> markobject(Colour(h, o, "black"), h.heap[o].mt)
           [] Tt(h, o) = "upval" ->
                markobject(Colour(h, o, IF h.heap[o].open = nil THEN "black" ELSE "gray"), UpValue(h, o))
           [] OTHER -> [Colour(h, o, "gray") EXCEPT !.gray = <<o>> \o @]

RECURSIVE MarkEach(_, _)
MarkEach(h, s) == IF s = <<>> THEN h ELSE MarkEach(markobject(h, Head(s)), Tail(s))

SlotSeq(h, o) == [s \in Slots |-> h.heap[o].stack[s]]

\* An entry without value loses its key; what is weak is left alone.
MarkUnless(h, o, weak) == IF weak THEN h ELSE markobject(h, o)

TraverseEntry(h, o, weakkey, weakval) ==
    IF weakkey /\ weakval THEN h
    ELSE IF h.heap[o].val = nil THEN [h EXCEPT !.heap[o].key = nil]
    ELSE MarkUnless(MarkUnless(h, h.heap[o].key, weakkey), h.heap[o].val, weakval)

Listed(h, o, weak) == IF weak THEN [h EXCEPT !.weak = <<o>> \o @] ELSE h

\* A weak table stays gray; a thread too, and is visited again at the end.
StaysGray(h, o, weak) == IF weak THEN Colour(h, o, "gray") ELSE h

traversetable(h, o) ==
    LET weak == WeakKey(h, o) \/ WeakVal(h, o)
    IN  StaysGray(TraverseEntry(Listed(markobject(h, h.heap[o].mt), o, weak), o, WeakKey(h, o), WeakVal(h, o)),
                  o, weak)

propagatemark(h) ==
    LET o == Head(h.gray)
        b == [Colour(h, o, "black") EXCEPT !.gray = Tail(@)]
    IN  CASE Tt(h, o) = "table" -> traversetable(b, o)
          [] Tt(h, o) = "closure" -> markobject(b, h.heap[o].val)
          [] OTHER -> MarkEach([Colour(b, o, "gray") EXCEPT !.grayagain = <<o>> \o @],
                               SlotSeq(h, o))

RECURSIVE propagateall(_)
propagateall(h) == IF h.gray = <<>> THEN h ELSE propagateall(propagatemark(h))

markmt(h) == markobject(h, h.mt)

markroot(h) ==
    LET none == [h EXCEPT !.gray = <<>>, !.grayagain = <<>>, !.weak = <<>>]
    IN  [markmt(markobject(none, 1)) EXCEPT !.gcstate = "propagate"]

\* The values of open upvalues that are marked, whatever became of the thread.
remarkupvals(h) ==
    LET seen == SelectSeq(h.uvhead, LAMBDA u : h.heap[u].marked = "gray")
    IN  MarkEach(h, [i \in DOMAIN seen |-> UpValue(h, seen[i])])

-----------------------------------------------------------------------------
(* The end of the mark phase. *)

AfterMain(h) ==
    LET i == CHOOSE j \in DOMAIN h.rootgc : h.rootgc[j] = 1
    IN  SubSeq(h.rootgc, i + 1, Len(h.rootgc))

UpToMain(h) ==
    LET i == CHOOSE j \in DOMAIN h.rootgc : h.rootgc[j] = 1 IN SubSeq(h.rootgc, 1, i)

\* Unreachable userdata with a finalizer go to tmudata, once.
luaC_separateudata(h) ==
    LET Due(o) == iswhite(h, o) /\ ~h.heap[o].fin
        Keep(o) == ~(Due(o) /\ Mode(h, o) = "gc")
        Move(o) == ~Keep(o)
    IN  [h EXCEPT !.heap = [o \in Ids |-> IF Tt(h, o) = "udata" /\ Due(o)
                                          THEN [@[o] EXCEPT !.fin = TRUE] ELSE @[o]],
                  !.tmudata = @ \o SelectSeq(AfterMain(h), Move),
                  !.rootgc = UpToMain(h) \o SelectSeq(AfterMain(h), Keep)]

RECURSIVE marktmuFrom(_, _)
marktmuFrom(h, s) ==
    IF s = <<>> THEN h ELSE marktmuFrom(markobject(makewhite(h, Head(s)), Head(s)), Tail(s))

marktmu(h) == marktmuFrom(h, h.tmudata)

\* Strings are values and stay; a userdata being finalized stays as a key.
iscleared(h, o, iskey) ==
    /\ o # nil /\ Tt(h, o) # "string"
    /\ iswhite(h, o) \/ (Tt(h, o) = "udata" /\ ~iskey /\ h.heap[o].fin)

MarkString(h, o) == IF o # nil /\ Tt(h, o) = "string" THEN markobject(h, o) ELSE h

Clear(h, o) ==
    LET t == h.heap[o]
        dead == iscleared(h, t.key, TRUE)
        m == MarkString(MarkString(h, t.key), IF dead THEN nil ELSE t.val)
    IN  IF t.val = nil THEN h
        ELSE IF dead \/ iscleared(h, t.val, FALSE)
        THEN [m EXCEPT !.heap[o].key = nil, !.heap[o].val = nil] ELSE m

RECURSIVE cleartable(_, _)
cleartable(h, s) == IF s = <<>> THEN h ELSE cleartable(Clear(h, Head(s)), Tail(s))

\* Mutant of Regrayed: the objects barriers caught are not visited again.
Forgotten(h) == [h EXCEPT !.grayagain = <<>>]

\* The objects caught by barriers, and the threads, are visited again.
Regrayed(h) == [h EXCEPT !.gray = h.grayagain, !.grayagain = <<>>]

WeakAgain(h) == [h EXCEPT !.gray = h.weak, !.weak = <<>>]

Cleared(h) == cleartable(h, h.weak)

ToSweep(h) == [h EXCEPT !.currentwhite = otherwhite(h), !.sweepstrgc = 1, !.sweepgc = nil,
                        !.gcstate = "sweepstring"]

\* From the inside out: the upvalues, the weak tables, the running thread, the
\* objects to visit again, the userdata to finalize.
atomic(h) ==
    ToSweep(Cleared(propagateall(marktmu(luaC_separateudata(
        propagateall(Regrayed(
            propagateall(markmt(markobject(WeakAgain(propagateall(remarkupvals(h))), h.running))))))))))

-----------------------------------------------------------------------------
(* Closing upvalues, and sweeping. *)

Without(s, x) == SelectSeq(s, LAMBDA y : y # x)

luaF_freeupval(h, u) == [h EXCEPT !.heap[u] = Free, !.uvhead = Without(@, u)]

luaC_barrierf(h, o, v) == IF h.gcstate = "propagate" THEN markobject(h, v) ELSE makewhite(h, o)

\* Mutant of luaC_barrier: none.
NoBarrier(h, p, v) == h

luaC_barrier(h, p, v) ==
    IF v # nil /\ iswhite(h, v) /\ isblack(h, p) THEN luaC_barrierf(h, p, v) ELSE h

\* An upvalue that is closed joins the other objects.
luaC_linkupval(h, u) ==
    LET l == [h EXCEPT !.rootgc = <<u>> \o @] IN
    IF h.heap[u].marked # "gray" THEN l
    ELSE IF h.gcstate = "propagate" THEN luaC_barrier(Colour(l, u, "black"), u, h.heap[u].val)
    ELSE makewhite(l, u)

\* Closes the open upvalues of a thread, at a slot and above.
RECURSIVE luaF_close(_, _, _)
luaF_close(h, th, level) ==
    LET list == h.heap[th].openupval IN
    IF list = <<>> THEN h
    ELSE LET u == Head(list)
             r == [h EXCEPT !.heap[th].openupval = Tail(@)]
             c == [r EXCEPT !.heap[u].val = UpValue(h, u), !.heap[u].open = nil,
                            !.heap[u].key = nil, !.uvhead = Without(@, u)]
         IN  IF h.heap[u].key < level THEN h
             ELSE luaF_close(IF isdead(h, u) THEN luaF_freeupval(r, u) ELSE luaC_linkupval(c, u),
                             th, level)

RECURSIVE SweepOpen(_, _, _)
SweepOpen(h, th, s) ==
    IF s = <<>> THEN h
    ELSE LET u == Head(s) IN
         SweepOpen(IF isdead(h, u)
                   THEN luaF_freeupval([h EXCEPT !.heap[th].openupval = Without(@, u)], u)
                   ELSE makewhite(h, u), th, Tail(s))

freeobj(h, o) ==
    LET f == IF Tt(h, o) = "thread" THEN luaF_close(h, o, 1) ELSE h
    IN  [f EXCEPT !.heap[o] = Free, !.rootgc = Without(@, o)]

NextOf(h, p) ==
    LET i == IF p = nil THEN 0 ELSE CHOOSE j \in DOMAIN h.rootgc : h.rootgc[j] = p
    IN  IF i = Len(h.rootgc) THEN nil ELSE h.rootgc[i + 1]

SweepUpvals(h, o) == IF Tt(h, o) = "thread" THEN SweepOpen(h, o, h.heap[o].openupval) ELSE h

SweepObject(h, o, dead) == IF dead THEN freeobj(SweepUpvals(h, o), o) ELSE makewhite(SweepUpvals(h, o), o)

\* Sweeps count objects after p; sweepgc is where it stops.
RECURSIVE sweeplist(_, _, _)
sweeplist(h, p, count) ==
    LET curr == NextOf(h, p)
        dead == isdead(h, curr) /\ curr # 1
    IN  IF curr = nil \/ count = 0 THEN [h EXCEPT !.sweepgc = p]
        ELSE sweeplist(SweepObject(h, curr, dead), IF dead THEN p ELSE curr, count - 1)

Strings(h, c) == {o \in Ids : Tt(h, o) = "string" /\ h.heap[o].key = c}

SweepRow(h, c) ==
    [h EXCEPT !.heap = [o \in Ids |-> IF o \notin Strings(h, c) THEN @[o]
                                      ELSE IF isdead(h, o) THEN Free
                                      ELSE [@[o] EXCEPT !.marked = luaC_white(h)]]]

\* A finalizer runs with its userdata on the stack of the running thread.
GCTM(h, slot) ==
    LET o == Head(h.tmudata) IN
    [makewhite(h, o) EXCEPT !.tmudata = Tail(@), !.rootgc = UpToMain(h) \o <<o>> \o AfterMain(h),
                            !.heap[h.running].stack[slot] = IF Mode(h, o) = "gc" THEN o ELSE @]

-----------------------------------------------------------------------------
(* The steps of the collector.  An operation of the program waits for a full *)
(* collection to end.                                                        *)

Op(name) == g.full = "no" /\ hist.ops < hist.program.max /\ name \in hist.program.ops

\* A full collection that had to finish a sweep starts its own cycle then.
AfterSweep(h) ==
    IF NextOf(h, h.sweepgc) # nil THEN h
    ELSE IF h.full = "sweep" THEN [markroot(h) EXCEPT !.full = "mark"]
    ELSE [h EXCEPT !.gcstate = "finalize"]

singlestep ==
    /\ g.gcstate # "finalize" \/ g.tmudata = <<>>
    /\ g' = CASE g.gcstate = "pause" -> markroot(g)
              [] g.gcstate = "propagate" /\ g.gray # <<>> -> propagatemark(g)
              [] g.gcstate = "propagate" /\ g.gray = <<>> -> atomic(g)
              [] g.gcstate = "sweepstring" ->
                   [SweepRow(g, g.sweepstrgc) EXCEPT
                      !.sweepstrgc = @ + 1,
                      !.gcstate = IF g.sweepstrgc >= Cardinality(Contents) THEN "sweep" ELSE @]
              [] g.gcstate = "sweep" ->
                   AfterSweep(sweeplist(g, g.sweepgc, GCSWEEPMAX))
              [] OTHER -> [g EXCEPT !.gcstate = "pause", !.full = "no"]
    /\ UNCHANGED hist

Finalize ==
    /\ g.gcstate = "finalize" /\ g.tmudata # <<>>
    /\ \E s \in Slots : g' = GCTM(g, s)
    /\ hist' = [hist EXCEPT !.clean = FALSE]

\* A sweep that frees nothing gives every object the current white again.
Unmarked(h) ==
    IF h.gcstate \in {"pause", "propagate"}
    THEN [h EXCEPT !.sweepstrgc = 1, !.sweepgc = nil, !.gray = <<>>, !.grayagain = <<>>,
                   !.weak = <<>>, !.gcstate = "sweepstring"]
    ELSE h

FullFrom(h) ==
    IF h.gcstate = "finalize" THEN [markroot(h) EXCEPT !.full = "mark"] ELSE [h EXCEPT !.full = "sweep"]

\* A full collection: any sweep is finished, then a whole cycle is run.
luaC_fullgc ==
    /\ Op("gc")
    /\ g' = FullFrom(Unmarked(g))
    /\ hist' = [hist EXCEPT !.ops = @ + 1, !.clean = TRUE]

-----------------------------------------------------------------------------
(* The program. *)

L == g.running

Stack(s) == g.heap[L].stack[s]

Unused == {o \in Ids : Tt(g, o) = "free"}

NewId == CHOOSE o \in Unused : \A p \in Unused : o <= p

Done(h) == g' = h /\ hist' = [hist EXCEPT !.ops = @ + 1, !.clean = FALSE]

SetSlot(h, s, v) == [h EXCEPT !.heap[L].stack[s] = v]

luaC_link(h, o, obj) ==
    [h EXCEPT !.heap[o] = [obj EXCEPT !.marked = luaC_white(h)], !.rootgc = <<o>> \o @]

NewTable ==
    /\ Op("table") /\ Unused # {}
    /\ \E s \in Slots, tm \in hist.program.tms :
          Done(SetSlot(luaC_link(g, NewId, [Free EXCEPT !.tt = "table", !.tm = tm]), s, NewId))

\* luaS_newudata: linked after the main thread.
luaS_newudata ==
    /\ Op("udata") /\ Unused # {}
    /\ LET u == [Free EXCEPT !.tt = "udata", !.marked = luaC_white(g)] IN
       \E s \in Slots :
          Done(SetSlot([g EXCEPT !.heap[NewId] = u,
                                 !.rootgc = UpToMain(g) \o <<NewId>> \o AfterMain(g)], s, NewId))

\* A string found is the one used, and is revived if it was dead.
Interned(o) == IF isdead(g, o) THEN makewhite(g, o) ELSE g

luaS_newlstr ==
    /\ Op("string")
    /\ \E s \in Slots, c \in Contents :
          IF Strings(g, c) # {}
          THEN LET o == CHOOSE x \in Strings(g, c) : TRUE IN Done(SetSlot(Interned(o), s, o))
          ELSE /\ Unused # {}
               /\ Done(SetSlot([g EXCEPT !.heap[NewId] = [Free EXCEPT !.tt = "string", !.key = c,
                                                                      !.marked = luaC_white(g)]],
                               s, NewId))

luaC_barrierback(h, t) == [Colour(h, t, "gray") EXCEPT !.grayagain = <<t>> \o @]

luaC_barriert(h, t, v) ==
    IF v # nil /\ iswhite(h, v) /\ isblack(h, t) THEN luaC_barrierback(h, t) ELSE h

\* luaV_settable: the key, if it is new, and the value each have a barrier.
luaV_settable ==
    /\ Op("settable")
    /\ \E t, k, v \in Slots :
          /\ Stack(t) # nil /\ Tt(g, Stack(t)) = "table" /\ Stack(k) # nil
          /\ LET o == Stack(t)
                 n == IF g.heap[o].key = Stack(k) /\ g.heap[o].val # nil THEN g
                      ELSE luaC_barriert([g EXCEPT !.heap[o].key = Stack(k)], o, Stack(k))
             IN  Done(luaC_barriert([n EXCEPT !.heap[o].val = Stack(v)], o, Stack(v)))

\* lua_next: the key or the value of the entry comes on the stack.
luaH_next ==
    /\ Op("next")
    /\ \E t, s \in Slots :
          /\ Stack(t) # nil /\ Tt(g, Stack(t)) = "table" /\ g.heap[Stack(t)].val # nil
          /\ \E x \in {g.heap[Stack(t)].key, g.heap[Stack(t)].val} : Done(SetSlot(g, s, x))

\* lua_setmetatable: of a table, of a userdata, or of all values of a basic
\* type, which takes no barrier.
lua_setmetatable ==
    /\ Op("setmetatable")
    /\ \E m \in Slots :
          /\ Stack(m) # nil /\ Tt(g, Stack(m)) = "table"
          /\ \/ Done([g EXCEPT !.mt = Stack(m)])
             \/ \E s \in Slots :
                  /\ Stack(s) # nil /\ Tt(g, Stack(s)) \in {"table", "udata"}
                  /\ LET h == [g EXCEPT !.heap[Stack(s)].mt = Stack(m)] IN
                     Done(IF Tt(g, Stack(s)) = "table" THEN luaC_barriert(h, Stack(s), Stack(m))
                          ELSE luaC_barrier(h, Stack(s), Stack(m)))

\* The open upvalue of a slot, if there is one: it is revived.
luaF_findupval(s) ==
    LET list == g.heap[L].openupval
        found == {u \in Ids : \E i \in DOMAIN list : list[i] = u /\ g.heap[u].key = s}
        above == SelectSeq(list, LAMBDA u : g.heap[u].key > s)
        below == SelectSeq(list, LAMBDA u : g.heap[u].key < s)
        new == [Free EXCEPT !.tt = "upval", !.marked = luaC_white(g), !.open = L, !.key = s]
    IN  IF found # {}
        THEN LET u == CHOOSE x \in found : TRUE IN
             [u |-> u, h |-> IF isdead(g, u) THEN makewhite(g, u) ELSE g]
        ELSE [u |-> NewId, h |-> [g EXCEPT !.heap[NewId] = new,
                                           !.heap[L].openupval = above \o <<NewId>> \o below,
                                           !.uvhead = <<NewId>> \o @]]

\* OP_CLOSURE: a closure over the variable in a slot.
NewClosure ==
    /\ Op("closure") /\ Cardinality(Unused) >= 2
    /\ \E s, v \in Slots :
          LET f == luaF_findupval(v)
              left == {o \in Ids : Tt(f.h, o) = "free"}
              o == CHOOSE x \in left : \A p \in left : x <= p
          IN  Done(SetSlot(luaC_link(f.h, o, [Free EXCEPT !.tt = "closure", !.val = f.u]), s, o))

\* OP_SETUPVAL, OP_GETUPVAL
SetUpval ==
    /\ Op("upval")
    /\ \E f, v \in Slots :
          /\ Stack(f) # nil /\ Tt(g, Stack(f)) = "closure"
          /\ LET u == g.heap[Stack(f)].val
                 h == IF g.heap[u].open = nil THEN [g EXCEPT !.heap[u].val = Stack(v)]
                      ELSE [g EXCEPT !.heap[g.heap[u].open].stack[g.heap[u].key] = Stack(v)]
             IN  Done(luaC_barrier(h, u, Stack(v)))

GetUpval ==
    /\ Op("upval")
    /\ \E f, s \in Slots :
          /\ Stack(f) # nil /\ Tt(g, Stack(f)) = "closure"
          /\ Done(SetSlot(g, s, UpValue(g, g.heap[Stack(f)].val)))

\* The end of a block, or of a function.
OpClose == Op("close") /\ \E s \in Slots : Done(luaF_close(g, L, s))

ClearSlot == \E s \in Slots : Op("clear") /\ Stack(s) # nil /\ Done(SetSlot(g, s, nil))

\* lua_newthread, lua_resume with an argument, lua_yield with a result.
lua_newthread ==
    /\ Op("thread") /\ Unused # {}
    /\ \E s \in Slots : Done(SetSlot(luaC_link(g, NewId, [Free EXCEPT !.tt = "thread"]), s, NewId))

lua_resume ==
    /\ Op("thread") /\ L = 1
    /\ \E s, a, d \in Slots :
          /\ Stack(s) # nil /\ Tt(g, Stack(s)) = "thread" /\ Stack(s) # 1
          /\ Done([g EXCEPT !.running = Stack(s), !.heap[Stack(s)].stack[d] = Stack(a)])

lua_yield ==
    /\ Op("thread") /\ L # 1
    /\ \E a, d \in Slots : Done([g EXCEPT !.running = 1, !.heap[1].stack[d] = Stack(a)])

\* The objects are allocated from the second address on, one a slot.
Start(objs) ==
    LET n == Len(objs) IN
    [heap |-> [o \in Ids |->
                 IF o = 1 THEN [Free EXCEPT !.tt = "thread", !.marked = "white0",
                                            !.stack = [s \in Slots |-> IF s <= n THEN s + 1 ELSE nil]]
                 ELSE IF o <= n + 1 THEN [Free EXCEPT !.tt = objs[o - 1].tt, !.tm = objs[o - 1].tm,
                                                      !.marked = "white0"]
                 ELSE Free],
     gcstate |-> "pause", currentwhite |-> 0, gray |-> <<>>, grayagain |-> <<>>, weak |-> <<>>,
     tmudata |-> <<>>, sweepgc |-> nil, sweepstrgc |-> 1, uvhead |-> <<>>, mt |-> nil,
     rootgc |-> SelectSeq([i \in 1..n |-> n + 2 - i], LAMBDA o : objs[o - 1].tt # "udata") \o <<1>>
                \o SelectSeq([i \in 1..n |-> n + 2 - i], LAMBDA o : objs[o - 1].tt = "udata"),
     running |-> 1, full |-> "no"]

Init ==
    \E p \in Programs : g = Start(p.objs) /\ hist = [program |-> p, ops |-> 0, clean |-> FALSE]

Next ==
    \/ singlestep \/ Finalize \/ luaC_fullgc
    \/ NewTable \/ luaS_newudata \/ luaS_newlstr \/ luaV_settable \/ luaH_next \/ lua_setmetatable
    \/ NewClosure \/ SetUpval \/ GetUpval \/ OpClose \/ ClearSlot
    \/ lua_newthread \/ lua_resume \/ lua_yield

Spec == Init /\ [][Next]_vars

-----------------------------------------------------------------------------
(* Properties. *)

\* Every reference an object holds, the weak ones included.
Holds(o) ==
    LET x == g.heap[o] IN
    (CASE x.tt = "table" -> {x.mt} \cup (IF x.val = nil THEN {} ELSE {x.key, x.val})
       [] x.tt = "closure" -> {x.val}
       [] x.tt = "upval" -> {UpValue(g, o)}
       [] x.tt = "udata" -> {x.mt}
       [] x.tt = "thread" -> {x.stack[s] : s \in Slots}
                             \cup {x.openupval[i] : i \in DOMAIN x.openupval}
       [] OTHER -> {}) \ {nil}

\* The references that keep an object alive.
Keeps(o) ==
    LET x == g.heap[o] IN
    CASE x.tt = "table" ->
           {y \in Holds(o) : \/ y = x.mt \/ Tt(g, y) = "string"
                             \/ (y = x.key /\ ~WeakKey(g, o)) \/ (y = x.val /\ ~WeakVal(g, o))}
      [] x.tt = "thread" -> {x.stack[s] : s \in Slots} \ {nil}
      [] OTHER -> Holds(o)

RECURSIVE Reach(_)
Reach(S) ==
    LET T == S \cup UNION {Keeps(o) : o \in S} IN IF T = S THEN S ELSE Reach(T)

Reachable ==
    Reach(({1, g.running, g.mt} \cup {g.tmudata[i] : i \in DOMAIN g.tmudata}) \ {nil})

\* However the program and the single steps of the collector interleave, no
\* object the program can reach, or that a weak table or a list of open
\* upvalues still names, is ever freed (the barriers of lgc.c, the second visit
\* of atomic, the revival of dead strings and upvalues).
NothingLost ==
    \A o \in Reachable : Tt(g, o) # "free" /\ \A x \in Holds(o) : Tt(g, x) # "free"

\* A full collection that ran no finalizer leaves no object the program cannot
\* reach (luaC_fullgc finishes the sweep under way and runs a whole cycle).
FullIsFull ==
    hist.clean /\ g.full = "no" =>
       \A o \in Ids : Tt(g, o) \notin {"free", "udata"} => o \in Reachable
=============================================================================
