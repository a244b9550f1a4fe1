-------------------------------- MODULE Gpio --------------------------------
(***************************************************************************)
(* The gpio library: gpio.c, which reads, writes and configures GPIOs      *)
(* through the files of /sys/class/gpio, and the registration of hooks on  *)
(* their changes (gpio.lua).                                               *)
(*                                                                         *)
(* A call is a sequence of accesses to those files, each of which may      *)
(* fail.  Between two of them the pins change and other programs enable    *)
(* and configure GPIOs; what the kernel does with the files is external.   *)
(***************************************************************************)
EXTENDS Naturals, Sequences, FiniteSets

CONSTANTS Gpios, Hooks,
          Configs,            \* tables given to configure
          MaxCalls, MaxFails, MaxChanges, MaxOthers

VARIABLES sys, reg, call, hist

vars == <<sys, reg, call, hist>>

None == "none"
\* What a hook was last given, apart from 0 and 1.
nil == 2
Uncalled == 3
Idle == [op |-> "idle", id |-> None, arg |-> None, todo |-> <<>>]

-----------------------------------------------------------------------------
(* The kernel's files: a GPIO that is enabled has its parameters. *)

Fresh == [enabled |-> FALSE, direction |-> "in", edge |-> "none", active_low |-> "0", level |-> 0]

Value(g) == IF g.active_low = "1" THEN 1 - g.level ELSE g.level

\* The edges that raise an interrupt when the pin changes to level l.
Raises(g, l) ==
    g.edge = "both" \/ g.edge = (IF Value([g EXCEPT !.level = l]) = 1 THEN "rising" ELSE "falling")

PinChanges ==
    /\ hist.changes < MaxChanges
    /\ \E id \in Gpios :
          /\ sys[id].direction = "in"
          /\ sys' = [sys EXCEPT ![id].level = 1 - @]
          /\ reg' = [reg EXCEPT ![id].event =
                        @ \/ (reg[id].hook # None /\ Raises(sys[id], 1 - sys[id].level))]
    /\ hist' = [hist EXCEPT !.changes = @ + 1]
    /\ UNCHANGED call

\* Another program enables a GPIO, with parameters of its own.
OtherEnables ==
    /\ Cardinality(hist.others) < MaxOthers
    /\ \E id \in Gpios, c \in Configs :
          /\ ~sys[id].enabled
          /\ DOMAIN c = {"direction", "edge", "active_low"}
          /\ sys' = [sys EXCEPT ![id] = [enabled |-> TRUE, direction |-> c.direction, edge |-> c.edge,
                                         active_low |-> c.active_low, level |-> @.level]]
          /\ hist' = [hist EXCEPT !.others = @ \cup {id}]
    /\ UNCHANGED <<reg, call>>

-----------------------------------------------------------------------------
(* The calls, as the accesses they still have to make. *)

Stat == [do |-> "stat", param |-> None, value |-> None]
Access(do, p, v) == [do |-> do, param |-> p, value |-> v]

Defaults(direction, edge) ==
    <<Access("enable", None, None), Access("set", "direction", direction),
      Access("set", "edge", edge), Access("set", "active_low", "0")>>

enable_config(id, direction, edge, rest) ==
    IF sys[id].enabled THEN rest ELSE Defaults(direction, edge) \o rest

checkps(c, p) == IF p \in DOMAIN c THEN <<Access("set", p, c[p])>> ELSE <<>>

\* The first call on a GPIO enables it before it looks for the direction.
l_configure(id, c) ==
    LET rest == checkps(c, "edge") \o checkps(c, "active_low")
    IN  IF sys[id].enabled THEN checkps(c, "direction") \o rest
        ELSE <<Access("enable", None, None)>>
             \o (IF "direction" \in DOMAIN c THEN checkps(c, "direction") \o rest
                 ELSE <<Access("fail", None, None)>>)

l_getconfig(id) ==
    IF ~sys[id].enabled THEN <<Access("fail", None, None)>>
    ELSE [i \in 1..3 |-> Access("get", <<"direction", "edge", "active_low">>[i], None)]

\* What a call does after it has looked whether the GPIO is enabled.
Accesses(op, id, arg) ==
    CASE op = "read" -> enable_config(id, "in", "none", <<Access("read", None, None)>>)
      [] op = "write" -> enable_config(id, "out", "none", <<Access("write", None, arg)>>)
      [] op = "register" -> enable_config(id, "in", "both", <<Access("open", None, arg)>>)
      [] op = "configure" -> l_configure(id, arg)
      [] OTHER -> l_getconfig(id)

\* A registered GPIO only changes its hook; nil cancels.
register(id, hook) ==
    \/ /\ hook = None
       /\ reg' = [reg EXCEPT ![id] = [hook |-> None, event |-> FALSE, told |-> Uncalled]]
       /\ UNCHANGED <<sys, call>>
    \/ /\ hook # None /\ reg[id].hook # None
       /\ reg' = [reg EXCEPT ![id].hook = hook]
       /\ UNCHANGED <<sys, call>>
    \/ /\ hook # None /\ reg[id].hook = None
       /\ call' = [op |-> "register", id |-> id, arg |-> hook, todo |-> <<Stat>>]
       /\ UNCHANGED <<sys, reg>>

Begin ==
    /\ call = Idle
    /\ hist.calls < MaxCalls
    /\ hist' = [hist EXCEPT !.calls = @ + 1]
    /\ \E id \in Gpios :
          \/ \E hook \in Hooks \cup {None} : register(id, hook)
          \/ \E op \in {"read", "write", "configure", "getconfig"} :
             \E arg \in (IF op = "write" THEN {0, 1} ELSE IF op = "configure" THEN Configs ELSE {None}) :
                /\ call' = [op |-> op, id |-> id, arg |-> arg, todo |-> <<Stat>>]
                /\ UNCHANGED <<sys, reg>>

-----------------------------------------------------------------------------
(* One access. *)

id == call.id
Now == Head(call.todo)
Done == IF Len(call.todo) = 1 THEN Idle ELSE [call EXCEPT !.todo = Tail(@)]

isenable ==
    /\ Now.do = "stat"
    /\ call' = [call EXCEPT !.todo = Accesses(call.op, id, call.arg)]
    /\ UNCHANGED <<sys, reg, hist>>

\* The kernel refuses to export what is exported; the call ends there.
enable ==
    /\ Now.do \in {"enable", "try"}
    /\ sys' = [sys EXCEPT ![id].enabled = TRUE]
    /\ call' = IF sys[id].enabled /\ Now.do = "enable" THEN Idle ELSE Done
    /\ UNCHANGED <<reg, hist>>

\* The history keeps the GPIOs of other programs that were given defaults, and
\* whether edges were missed: a hook is only told what its GPIO's edge raises.
setparam ==
    /\ Now.do = "set"
    /\ sys' = [sys EXCEPT ![id] = [@ EXCEPT ![Now.param] = Now.value,
                                            !.level = IF Now.value = "out" THEN 0 ELSE @]]
    /\ hist' = [hist EXCEPT !.overruled = @ \/ (id \in hist.others /\ call.op # "configure"),
                            !.steady[id] = @ /\ reg[id].hook = None]
    /\ call' = Done
    /\ UNCHANGED reg

\* Only an output can be written.
l_write ==
    /\ Now.do = "write"
    /\ sys' = IF sys[id].direction = "out"
              THEN [sys EXCEPT ![id].level = IF sys[id].active_low = "1" THEN 1 - Now.value ELSE Now.value]
              ELSE sys
    /\ call' = Done
    /\ UNCHANGED <<reg, hist>>

l_read ==
    /\ Now.do \in {"read", "get", "fail"}
    /\ call' = Done
    /\ UNCHANGED <<sys, reg, hist>>

\* The descriptor stays open, in the userdata that sched.fd watches; a fresh one
\* may be found ready at once.
l_newgpio ==
    /\ Now.do = "open"
    /\ \E e \in BOOLEAN :
          reg' = [reg EXCEPT ![id] = [hook |-> Now.value, event |-> e, told |-> Uncalled]]
    /\ hist' = [hist EXCEPT !.steady[id] = sys[id].edge = "both" /\ sys[id].direction = "in",
                            !.opened[id] = Value(sys[id])]
    /\ call' = Done
    /\ UNCHANGED sys

Fails ==
    /\ hist.fails < MaxFails
    /\ Now.do # "stat"
    /\ call' = Idle
    /\ hist' = [hist EXCEPT !.fails = @ + 1]
    /\ UNCHANGED <<sys, reg>>

Step == call # Idle /\ (isenable \/ enable \/ setparam \/ l_write \/ l_read \/ l_newgpio \/ Fails)

\* Mutant of l_readinterrupt: it does not go back to the start of the file, and
\* nothing read is not the character 0.
readinterrupt_noseek(g, outcome) == IF outcome = "error" THEN nil ELSE 1

\* What the hook gets: nil when the descriptor is closed, cannot be rewound or
\* cannot be read; a read that would block leaves val at NUL, which is not '0'.
l_readinterrupt(g, outcome) ==
    CASE outcome = "read" -> Value(sys[g])
      [] outcome = "error" -> nil
      [] outcome = "again" -> 1

\* Called by the scheduler when the descriptor has an exception, between calls.
\* The hook is run with whatever was read, and stays registered.  A read that
\* fails may or may not clear the exception.
common_interrupt_hook ==
    /\ call = Idle
    /\ \E g \in Gpios, outcome \in {"read", "error", "again"}, e \in BOOLEAN :
          /\ reg[g].event
          /\ outcome # "read" => hist.fails < MaxFails
          /\ outcome = "read" => ~e
          /\ reg' = [reg EXCEPT ![g].event = e, ![g].told = l_readinterrupt(g, outcome)]
          /\ hist' = [hist EXCEPT !.fails = IF outcome = "read" THEN @ ELSE @ + 1,
                                  !.blocked[g] = outcome = "again"]
    /\ UNCHANGED <<sys, call>>

-----------------------------------------------------------------------------
Init ==
    /\ sys = [g \in Gpios |-> Fresh]
    /\ reg = [g \in Gpios |-> [hook |-> None, event |-> FALSE, told |-> Uncalled]]
    /\ call = Idle
    /\ hist = [calls |-> 0, fails |-> 0, changes |-> 0, others |-> {}, overruled |-> FALSE,
               steady |-> [g \in Gpios |-> FALSE], opened |-> [g \in Gpios |-> 0],
               blocked |-> [g \in Gpios |-> FALSE]]

Next == PinChanges \/ OtherEnables \/ Begin \/ Step \/ common_interrupt_hook

Spec == Init /\ [][Next]_vars

-----------------------------------------------------------------------------
(* Properties. *)

\* The hook of an input that reports both edges was last given the value the pin
\* has, or nil, or is about to be called; one that was never called has missed
\* nothing, the pin has the value it had at the registration.  So an edge that
\* comes before the last one is read is not lost, and reads on other descriptors
\* do not clear it (l_readinterrupt).  A read that would have blocked is left out.
HookIsUpToDate ==
    \A g \in Gpios :
       reg[g].hook # None /\ hist.steady[g] /\ ~hist.blocked[g] /\ ~reg[g].event
          => LET told == IF reg[g].told = Uncalled THEN hist.opened[g] ELSE reg[g].told
             IN  told \in {Value(sys[g]), nil}

\* The defaults of read, write and register never change the parameters of a
\* GPIO that another program enabled, even after the test that it was not
\* (enable_config).
OthersAreKept == ~hist.overruled
=============================================================================
