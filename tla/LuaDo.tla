------------------------------- MODULE LuaDo -------------------------------
(***************************************************************************)
(* Calls, protected calls, errors and coroutines of the Lua machine:       *)
(* ldo.c, the call functions of lapi.c, luaG_errormsg (ldebug.c) and the   *)
(* coroutine library (lbaselib.c).                                         *)
(*                                                                         *)
(* co holds the threads, each with its stack of CallInfo; cs is the stack  *)
(* of C activations that runs them: what the C compiler keeps, and the     *)
(* counters nCcalls and baseCcalls have to agree with.  The program is     *)
(* arbitrary: a function calls, resumes, yields, fails or returns.         *)
(***************************************************************************)
EXTENDS Naturals, Sequences, SequencesExt

CONSTANTS Coroutines,
          Programs,                       \* the calls a program makes
          BASIC_CI_SIZE, LUAI_MAXCALLS,   \* of the CallInfo of a thread
          LUAI_MAXCCALLS, Extra           \* of C calls, and for errors in errors

VARIABLES st, fate, prog

vars == <<st, fate, prog>>

main == "main"
LuaStates == Coroutines \cup {main}

preinit_state ==
    [status |-> "ok", ci |-> <<"base">>, size_ci |-> BASIC_CI_SIZE, nCcalls |-> 0, baseCcalls |-> 0,
     errfunc |-> FALSE, func |-> FALSE]

cur(S) == Last(S.cs).L
Thread(S) == S.co[cur(S)]

Upd(S, L, t) == [S EXCEPT !.co[L] = t]

-----------------------------------------------------------------------------
(* Entering functions, and what goes wrong there. *)

restore_stack_limit(t) ==
    IF t.size_ci > LUAI_MAXCALLS /\ Len(t.ci) < LUAI_MAXCALLS
    THEN [t EXCEPT !.size_ci = LUAI_MAXCALLS] ELSE t

\* Mutant of luaD_pcall: the count of C calls is not restored after an error.
luaD_pcall_lost(t, e) ==
    restore_stack_limit([t EXCEPT !.ci = SubSeq(@, 1, e.at), !.errfunc = e.errfunc])

\* What an error leaves of the thread of a protected call.
luaD_pcall(t, e) ==
    restore_stack_limit([t EXCEPT !.nCcalls = e.nCcalls, !.ci = SubSeq(@, 1, e.at),
                                  !.errfunc = e.errfunc])

luaD_poscall(t) == [t EXCEPT !.ci = Front(@)]

Catchers == {"pcall", "resume", "wrap", "base"}

RECURSIVE luaD_precall(_, _), luaD_call(_, _, _), luaG_errormsg(_), luaD_throw(_, _)

\* To the innermost protected call or resume; a coroutine keeps its CallInfo.
luaD_throw(S, errcode) ==
    LET i == CHOOSE i \in DOMAIN S.cs :
                /\ S.cs[i].k \in Catchers
                /\ \A j \in DOMAIN S.cs : j > i => S.cs[j].k \notin Catchers
        e == S.cs[i]
        t == S.co[e.L]
        below == [S EXCEPT !.cs = SubSeq(@, 1, i - 1)]
        dead == Upd(below, e.L, [t EXCEPT !.status = errcode, !.nCcalls = @ - 1])
    IN  CASE e.k = "pcall" -> Upd(below, e.L, luaD_poscall(luaD_pcall(t, e)))
          [] e.k = "resume" -> Upd(dead, cur(below), luaD_poscall(Thread(below)))
          [] e.k = "wrap" -> luaG_errormsg(dead)
          [] OTHER -> below

luaG_errormsg(S) ==
    IF Thread(S).errfunc THEN luaD_call(S, "handler", FALSE) ELSE luaD_throw(S, "run")

\* inc_ci: a full vector doubles; past the limit it holds what handles the error.
luaD_precall(S, f) ==
    LET t == Thread(S)
        grown == [t EXCEPT !.size_ci = 2 * @]
        entered(u) == Upd(S, cur(S), [u EXCEPT !.ci = Append(@, f)])
    IN  CASE Len(t.ci) < t.size_ci -> entered(t)
          [] Len(t.ci) = t.size_ci /\ t.size_ci > LUAI_MAXCALLS -> luaD_throw(S, "err")
          [] OTHER -> IF grown.size_ci > LUAI_MAXCALLS THEN luaG_errormsg(Upd(S, cur(S), grown))
                      ELSE entered(grown)

\* k tells what the C code around the call does when it comes back.
luaD_call(S, k, handled) ==
    LET L == cur(S)
        n == Thread(S).nCcalls + 1
        e == [k |-> k, L |-> L, at |-> Len(Thread(S).ci), nCcalls |-> n - 1,
              errfunc |-> Thread(S).errfunc]
        S1 == [S EXCEPT !.co[L].nCcalls = n, !.cs = Append(@, e),
                        !.co[L].errfunc = IF k = "pcall" THEN handled ELSE @]
    IN  IF n = LUAI_MAXCCALLS THEN luaG_errormsg(S1)
        ELSE IF n >= LUAI_MAXCCALLS + Extra THEN luaD_throw(S1, "err")
        ELSE luaD_precall(S1, "Lua")

\* The error function is in place before the call is counted.
lua_pcall(S, handled) == luaD_call(S, "pcall", handled)

-----------------------------------------------------------------------------
(* Coroutines. *)

costatus(S, c) ==
    LET t == S.co[c] IN
    CASE c = cur(S) -> "running"
      [] t.status = "yield" -> "suspended"
      [] t.status = "ok" -> IF Len(t.ci) > 1 THEN "normal" ELSE IF t.func THEN "suspended" ELSE "dead"
      [] OTHER -> "dead"

\* What the failure of a resume does in the thread that resumed.
Refuse(S, k) ==
    IF k = "wrap" THEN luaG_errormsg(S) ELSE Upd(S, cur(S), luaD_poscall(Thread(S)))

\* The function of a coroutine that starts goes when it is refused.
lua_resume(S, c, k) ==
    LET t == S.co[c]
        e == [k |-> k, L |-> c, at |-> 1, nCcalls |-> 0, errfunc |-> FALSE]
        up == [t EXCEPT !.status = "ok", !.func = FALSE, !.nCcalls = @ + 1, !.baseCcalls = t.nCcalls + 1]
        S1 == [S EXCEPT !.co[c] = up, !.cs = Append(@, e)]
    IN  IF t.nCcalls >= LUAI_MAXCCALLS
        THEN Refuse([S EXCEPT !.co[c].func = FALSE], k)
        ELSE IF t.status = "yield" THEN Upd(S1, c, luaD_poscall(up))
        ELSE luaD_precall(S1, "Lua")

auxresume(S, c, k) ==
    IF costatus(S, c) # "suspended" THEN Refuse(S, k)
    ELSE lua_resume([S EXCEPT !.co[c].nCcalls = Thread(S).nCcalls], c, k)

\* A resume that ended or yielded: on with the thread that resumed.
Back(S, t) ==
    LET S1 == [Upd(S, cur(S), [t EXCEPT !.nCcalls = @ - 1]) EXCEPT !.cs = Front(@)]
    IN  Upd(S1, cur(S1), luaD_poscall(Thread(S1)))

lua_yield(S) ==
    LET t == Thread(S) IN
    IF t.nCcalls > t.baseCcalls THEN luaG_errormsg(S) ELSE Back(S, [t EXCEPT !.status = "yield"])

luaB_cocreate(S, c) == [S EXCEPT !.co[c] = [preinit_state EXCEPT !.func = TRUE]]

-----------------------------------------------------------------------------
(* A function returns, to the function or to the C code that called it. *)

Return(S) ==
    LET L == cur(S)
        e == Last(S.cs)
        t == luaD_poscall(Thread(S))
        less == [t EXCEPT !.nCcalls = @ - 1]
        S1 == [Upd(S, L, less) EXCEPT !.cs = Front(@)]
    IN  CASE Len(t.ci) > e.at -> Upd(S, L, t)
          [] Len(t.ci) <= e.at /\ e.k = "call" -> S1
          [] Len(t.ci) <= e.at /\ e.k = "handler" -> luaD_throw(S1, "run")
          [] Len(t.ci) <= e.at /\ e.k = "pcall" ->
               Upd(S1, L, luaD_poscall([less EXCEPT !.errfunc = e.errfunc]))
          [] Len(t.ci) <= e.at /\ e.k \in {"resume", "wrap"} -> Back(S, t)
          [] OTHER -> S1

-----------------------------------------------------------------------------
(* Steps of the function that runs.  A library function is entered first: if   *)
(* that fails, it is not called.                                              *)

Entered(f) == luaD_precall(st, f)
IsEntered(f) ==
    /\ Len(Entered(f).cs) = Len(st.cs) /\ cur(Entered(f)) = cur(st)
    /\ Len(Thread(Entered(f)).ci) = Len(Thread(st).ci) + 1

Running(f) == st.cs # <<>> /\ Last(Thread(st).ci) = f
Does(op) == op \in prog

CallLua == Does("call") /\ Running("Lua") /\ st' = Entered("Lua")

\* A library function that calls back, and each of its calls.
CallC == Does("C") /\ Running("Lua") /\ st' = Entered("C")
CallBack == Running("C") /\ st' = luaD_call(st, "call", FALSE)

ProtectedCall(handled) ==
    Running("Lua") /\ st' = IF IsEntered("C") THEN lua_pcall(Entered("C"), handled) ELSE Entered("C")

luaB_pcall == Does("pcall") /\ ProtectedCall(FALSE)
luaB_xpcall == Does("xpcall") /\ ProtectedCall(TRUE)

luaB_coresume ==
    /\ Does("resume") /\ Running("Lua")
    /\ \E c \in {c \in Coroutines : st.co[c].status # "none"}, k \in {"resume", "wrap"} :
          st' = IF IsEntered("C") THEN auxresume(Entered("C"), c, k) ELSE Entered("C")

luaB_yield ==
    Does("yield") /\ Running("Lua") /\ st' = IF IsEntered("C") THEN lua_yield(Entered("C")) ELSE Entered("C")

luaB_error == Does("error") /\ (Running("Lua") \/ Running("C")) /\ st' = luaG_errormsg(st)

\* No memory: no handler is called.
MemoryError == Does("memory") /\ (Running("Lua") \/ Running("C")) /\ st' = luaD_throw(st, "mem")

Create ==
    Does("resume") /\ Running("Lua") /\ \E c \in Coroutines : st.co[c].status = "none" /\ st' = luaB_cocreate(st, c)

Returns == (Running("Lua") \/ Running("C")) /\ st' = Return(st)

\* What became of the coroutines, told by who runs them.
OnStack(S, c) == \E i \in DOMAIN S.cs : S.cs[i].L = c
Fate(c) ==
    CASE fate[c] = "none" -> IF st'.co[c].status = "none" THEN "none" ELSE "alive"
      [] OnStack(st, c) /\ ~OnStack(st', c) -> IF st'.co[c].status = "yield" THEN "alive" ELSE "over"
      [] fate[c] = "alive" /\ st.co[c].func /\ ~st'.co[c].func /\ ~OnStack(st', c) -> "over"
      [] OTHER -> fate[c]

Init ==
    /\ st = [co |-> [L \in LuaStates |->
                       IF L = main THEN [preinit_state EXCEPT !.ci = <<"base", "Lua">>, !.nCcalls = 1]
                       ELSE [preinit_state EXCEPT !.status = "none"]],
             cs |-> <<[k |-> "base", L |-> main, at |-> 1, nCcalls |-> 0, errfunc |-> FALSE]>>]
    /\ fate = [c \in Coroutines |-> "none"]
    /\ prog \in Programs

Next ==
    /\ \/ CallLua \/ CallC \/ CallBack \/ luaB_pcall \/ luaB_xpcall \/ luaB_coresume
       \/ luaB_yield \/ luaB_error \/ MemoryError \/ Create \/ Returns
    /\ fate' = [c \in Coroutines |-> Fate(c)]
    /\ UNCHANGED prog

Spec == Init /\ [][Next]_vars

-----------------------------------------------------------------------------
(* Properties. *)

\* The count of C calls of the thread that runs is the depth of the C stack,
\* through every protected call, error and coroutine; so it is bounded, errors in
\* error handlers included.  No thread has more CallInfo than it has room for,
\* and the stack of an error that was handled is left as the call found it
\* (luaD_call, luaD_pcall, lua_setlevel).
DepthIsExact ==
    st.cs # <<>> =>
       /\ Thread(st).nCcalls = Len(st.cs)
       /\ Len(st.cs) < LUAI_MAXCCALLS + Extra
       /\ \A L \in LuaStates : Len(st.co[L].ci) <= st.co[L].size_ci
       /\ \A i \in DOMAIN st.cs : st.cs[i].at <= Len(st.co[st.cs[i].L].ci)

\* coroutine.status is the truth: a coroutine is normal exactly while it waits for
\* one it resumed, and suspended exactly while it can go on.  A coroutine that is
\* suspended left nothing on the C stack and no handler behind, and none is run
\* twice at a time (costatus, lua_yield).
StatusIsRight ==
    st.cs # <<>> =>
       \A c \in {c \in Coroutines : st.co[c].status # "none"} :
          /\ costatus(st, c) = "normal" <=> OnStack(st, c) /\ cur(st) # c
          /\ costatus(st, c) = "suspended" <=> fate[c] = "alive" /\ ~OnStack(st, c)
          /\ costatus(st, c) = "suspended" => ~st.co[c].errfunc
          /\ \A i, j \in DOMAIN st.cs :
                st.cs[i].L = c /\ st.cs[j].L = c /\ {st.cs[i].k, st.cs[j].k} \subseteq {"resume", "wrap"}
                   => i = j
=============================================================================
