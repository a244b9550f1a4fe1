------------------------------ MODULE SwiLog ------------------------------
(***************************************************************************)
(* The C logger, libs/common/swi_log.c: levels of modules, the text a      *)
(* thread remembers of the module it logged for last, and the header of    *)
(* the last line, which all threads share and reuse within a second.       *)
(*                                                                         *)
(* A line is the module and the severity its header shows.  Severities are *)
(* numbers, 1 the most severe.                                             *)
(***************************************************************************)
EXTENDS Integers, Sequences, FiniteSets, FiniteSetsExt

CONSTANTS
  Threads, Modules, Levels,
  Within,      \* <<a, b>>: the name a occurs in the name b (a # b)
  WithDigit,   \* <<a, l, b>>: the name b is the name a followed by the digit l
  Envs,        \* values of SWI_LOG_VERBOSITY: sequences of [name, level]
  MaxCalls

\* A level is a number; no module has the name "none", which stands for none.
ASSUME LogAssumption ==
  /\ Levels \subseteq Int /\ "none" \notin Modules
  /\ \A e \in Envs : DOMAIN e \subseteq Nat \ {0} /\ \A k \in DOMAIN e : e[k].level \in Int

VARIABLES
  env,
  lev,    \* md_list and default_level
  cache,  \* per thread: the module remembered and its level
  fmt,    \* format_cached
  thr,    \* per thread: the call in swi_log_trace
  hist    \* calls made, lines shown, which modules were set how

vars == <<env, lev, cache, fmt, thr, hist>>

None == [module |-> "none", level |-> 0]
Idle == [at |-> "idle", module |-> "none", severity |-> 0, reuse |-> FALSE, raced |-> FALSE]

First(s, name) ==
  LET hits == {k \in DOMAIN s : s[k].name = name}
  IN IF hits = {} THEN 0 ELSE Min(hits)

newlevel(l, module, level) == [l EXCEPT !.md_list = Append(@, [name |-> module, level |-> level])]

\* The entry that stops the loop of changeVerbosity: the first one for the
\* module or for "default".
Entry(module) ==
  LET hits == {k \in DOMAIN env : env[k].name \in {module, "default"}}
  IN IF hits = {} THEN 0 ELSE Min(hits)

Lookup(module) ==
  LET k == First(lev.md_list, module) IN IF k = 0 THEN lev.default_level ELSE lev.md_list[k].level

changeVerbosity(module, level) ==
  LET k == Entry(module) IN IF k # 0 /\ env[k].name = module THEN env[k].level ELSE level

NewDefault(module) ==
  LET k == Entry(module) IN IF k # 0 /\ env[k].name = "default" THEN env[k].level ELSE lev.default_level

Default == {k \in DOMAIN env : env[k].name = "default"}
Occurs(module, name) == module = name \/ <<module, name>> \in Within

Init ==
  /\ env \in Envs
  /\ lev = [md_list |-> <<>>, default_level |-> 2]
  /\ cache = [t \in Threads |-> None]
  /\ fmt = None
  /\ thr = [t \in Threads |-> Idle]
  /\ hist = [calls |-> 0, line |-> <<>>, said |-> <<>>, set |-> [m \in Modules |-> <<>>]]

swi_log_setlevel(module, level) ==
  /\ hist.calls < MaxCalls
  /\ lev' = newlevel(lev, module, level)
  /\ hist' = [hist EXCEPT !.calls = @ + 1, !.set[module] = Append(@, level), !.said = <<>>]
  /\ UNCHANGED <<env, cache, fmt, thr>>

\* swi_log_setlevel without a module.
SetDefault(level) ==
  /\ hist.calls < MaxCalls
  /\ lev' = [lev EXCEPT !.default_level = level]
  /\ hist' = [hist EXCEPT !.calls = @ + 1]
  /\ UNCHANGED <<env, cache, fmt, thr>>

\* The cache holds the name with the digit of its level right behind it: it is
\* never found equal to the module itself, and to another only if its name is that.
Known(t, module) == <<cache[t].module, cache[t].level, module>> \in WithDigit

swi_log_musttrace(t, module) ==
  IF Known(t, module) THEN cache[t].level ELSE changeVerbosity(module, Lookup(module))

\* Mutant of Reusable: the module is not looked for.
ReusableAny(module, severity) == fmt.module # "none" /\ severity = fmt.level

\* The header of the last line, of this second, names the module and the severity.
Reusable(module, severity) == Occurs(module, fmt.module) /\ severity = fmt.level

\* swi_log_trace up to the choice in format_message; same: the clock still
\* shows the second of the last header.
swi_log_trace(t, module, severity, same) ==
  LET level == swi_log_musttrace(t, module)
  IN /\ hist.calls < MaxCalls
     /\ thr[t].at = "idle"
     /\ cache' = IF Known(t, module) THEN cache ELSE [cache EXCEPT ![t] = [module |-> module, level |-> level]]
     /\ lev' = IF Known(t, module) THEN lev ELSE [lev EXCEPT !.default_level = NewDefault(module)]
     /\ thr' = [thr EXCEPT ![t] = [at |-> IF severity <= level THEN "format" ELSE "idle", module |-> module,
                                   severity |-> severity, reuse |-> same /\ Reusable(module, severity), raced |-> FALSE]]
     /\ hist' = [hist EXCEPT !.calls = @ + 1,
                             !.said = [module |-> module, severity |-> severity, traced |-> severity <= level]]
     /\ UNCHANGED <<env, fmt>>

\* The rest of format_message, and the loggers: a header built anew is copied
\* to the cache, one reused is read from it.
format_message(t) ==
  LET own == [module |-> thr[t].module, level |-> thr[t].severity]
      shown == IF thr[t].reuse THEN fmt ELSE own
  IN /\ thr[t].at = "format"
     /\ fmt' = shown
     /\ thr' = [u \in Threads |-> IF u = t THEN Idle ELSE [thr[u] EXCEPT !.raced = @ \/ thr[u].at = "format"]]
     /\ hist' = [hist EXCEPT !.line = [own |-> own, shown |-> shown, raced |-> thr[t].raced]]
     /\ UNCHANGED <<env, lev, cache>>

\* swi_log_setformat with another format: the cached header goes.
swi_log_setformat ==
  /\ fmt # None
  /\ hist.calls < MaxCalls
  /\ fmt' = None
  /\ thr' = [u \in Threads |-> [thr[u] EXCEPT !.raced = @ \/ thr[u].at = "format"]]
  /\ hist' = [hist EXCEPT !.calls = @ + 1]
  /\ UNCHANGED <<env, lev, cache>>

Next ==
  \/ \E m \in Modules, l \in Levels :
       \/ swi_log_setlevel(m, l)
       \/ \E t \in Threads, same \in BOOLEAN : swi_log_trace(t, m, l, same)
  \/ \E l \in Levels : SetDefault(l)
  \/ \E t \in Threads : format_message(t)
  \/ swi_log_setformat

Spec == Init /\ [][Next]_vars

\* A line is shown under the module and the severity it was logged for,
\* although the header of an earlier line is reused, unless another thread
\* changed the shared header meanwhile or the module's name is part of the
\* other's (format_message).
LineIsOwn ==
  LET line == hist.line
  IN line # <<>> /\ ~line.raced =>
       line.shown = line.own \/ (line.shown.level = line.own.level /\ <<line.own.module, line.shown.module>> \in Within)

Mistakable(module) == \E e \in WithDigit : e[3] = module

\* A module whose level was given once is traced up to that level, or up to
\* the one of SWI_LOG_VERBOSITY, in every thread and whatever it remembers of
\* another, unless the module's name is another's with a digit behind it
\* (newlevel, swi_log_musttrace).
LevelIsFollowed ==
  LET said == hist.said
      named == {k \in DOMAIN env : env[k].name = said.module}
      level == IF named = {} THEN hist.set[said.module][1] ELSE env[Min(named)].level
  IN said # <<>> /\ ~Mistakable(said.module) /\ Len(hist.set[said.module]) = 1 /\ Default = {}
       => (said.traced <=> said.severity <= level)

\* A line of the log is shown under the module and severity it was logged for,
\* and traced up to the level its module was given (swi_log.c).
LogIsOwn == LineIsOwn /\ LevelIsFollowed
=============================================================================
