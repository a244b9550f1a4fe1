------------------------------- MODULE Telnet --------------------------------
(***************************************************************************)
(* The telnet interpreter of the remote shell (luafwk/shell/telnet/        *)
(* telnet.c and the read buffer of buffers.c): it receives the bytes of    *)
(* the connection in fragments cut anywhere, strips the telnet commands,   *)
(* answers the negotiations and hands lines and commands to the shell.     *)
(*                                                                         *)
(* Two tasks call it: the read loop, with each fragment, and any task that *)
(* prints, with no input (shell/telnet.lua).  One call of ts:interpret is  *)
(* one step: no call of it blocks.  The line editor of the edit mode is    *)
(* the module Teel; here it is the line it collects.                       *)
(***************************************************************************)
EXTENDS Integers, Sequences, SequencesExt

CONSTANTS Messages,  \* what a client sends: sequences of bytes
          MaxMsgs    \* messages of a client

VARIABLES ts,    \* TelnetState: [mode, in, line, cr, out, again]
          wire,  \* bytes sent and not received yet
          seen,  \* all the bytes received
          got,   \* what the calls of interpret returned: lines and commands
          hist   \* [msgs, lost, dead]: lost, a command was cut and dropped;
                 \* dead, the process has ended in the middle of a call

vars == <<ts, wire, seen, got, hist>>

SB == 250
WILL == 251
WONT == 252
DO == 253
DONT == 254
IAC == 255
IP == 244
SUSP == 237
EOF_ == 236
ECHO == 1
SUPPRESS_GO_AHEAD == 3
TIMING_MARK == 6
NAWS == 31

None == -1
EmptyIn == [bytes |-> <<>>, p |-> 0, alloc |-> FALSE]

(* ---------------------------------------------------------------------- *)
(* Commands of the stream                                                  *)
(* ---------------------------------------------------------------------- *)

\* The reply to an option; an option of no interest is refused.
parseoption(action, option) ==
  CASE option = TIMING_MARK -> IF action = DO THEN <<<<WILL, option>>>> ELSE <<>>
    [] option = ECHO -> IF action = WILL THEN <<<<DONT, option>>>> ELSE <<>>
    [] option \in {SUPPRESS_GO_AHEAD, NAWS} -> <<>>
    [] OTHER -> IF action \in {DO, WILL}
                  THEN <<<<IF action <= WONT THEN DONT ELSE WONT, option>>>> ELSE <<>>

\* ReadEscByte: where the byte at i ends.
EscEnd(b, i) == IF i <= Len(b) /\ b[i] = IAC THEN i + 2 ELSE i + 1

\* End of a window size: four escaped bytes, IAC SE.  It may be past the end.
NawsEnd(b, i) == EscEnd(b, EscEnd(b, EscEnd(b, EscEnd(b, i)))) + 2

Token(kind, val, next) == [kind |-> kind, val |-> val, next |-> next]
Cut(b, val) == Token("cut", val, Len(b) + 1)

\* A suboption cut by the end of the input is consumed all the same: its
\* callers ignore the IC_EOS that parsesuboption returns.
parsesuboption(b, i) ==
  CASE b[i] # NAWS -> Token("skip", 0, i + 1)
    [] NawsEnd(b, i + 1) <= Len(b) + 1 -> Token("size", 0, NawsEnd(b, i + 1))
    [] OTHER -> Token("dropped", 0, Len(b) + 1)

\* What the input holds at i once an IAC was read there.
Command(b, i) ==
  CASE i + 1 > Len(b) -> Cut(b, None)
    [] b[i + 1] \in SB..DONT /\ i + 2 > Len(b) -> Cut(b, b[i + 1])
    [] b[i + 1] \in WILL..DONT /\ i + 2 <= Len(b) -> Token("option", <<b[i + 1], b[i + 2]>>, i + 3)
    [] b[i + 1] = SB /\ i + 2 <= Len(b) -> parsesuboption(b, i + 2)
    [] b[i + 1] = IP -> Token("char", 3, i + 2)
    [] b[i + 1] = SUSP -> Token("char", 26, i + 2)
    [] b[i + 1] = EOF_ -> Token("char", 4, i + 2)
    [] b[i + 1] = IAC -> Token("byte", 255, i + 2)
    [] OTHER -> Token("skip", 0, i + 2)

\* The next token of the line mode: CR needs the byte after it.
LineToken(b, i) ==
  CASE b[i] = IAC -> Command(b, i)
    [] b[i] = 10 -> Token("newline", 0, i + 1)
    [] b[i] = 13 -> IF i + 1 > Len(b) THEN Cut(b, None)
                    ELSE IF b[i + 1] \in {0, 10} THEN Token("newline", 0, i + 2)
                    ELSE Token("pair", b[i + 1], i + 2)
    [] b[i] \in {3, 4} -> Token("char", b[i], i + 1)
    [] b[i] = 19 -> Token("char", 26, i + 1)
    [] OTHER -> Token("byte", b[i], i + 1)

\* The next token of the edit mode, teel_reader: anything but a command is a byte.
EditToken(b, i) == IF b[i] = IAC THEN Command(b, i) ELSE Token("char", b[i], i + 1)

(* ---------------------------------------------------------------------- *)
(* Processing: s = [i, mark, line, cr, out, cmd, lost]; cmd # IC_NOP ends. *)
(* ---------------------------------------------------------------------- *)

Ends(s, cmd) == [s EXCEPT !.cmd = cmd]
Interrupts(s, cmd) == [s EXCEPT !.cmd = cmd, !.line = <<>>]
\* EOF closes the shell only from an empty line.
Closes(s) == IF s.line = <<>> THEN Ends(s, "close") ELSE s

\* One iteration of processlinemode.  There is no line editor in this mode: to
\* set the size of its window ends the process.
OnLineToken(s, t) ==
  LET r == [s EXCEPT !.i = t.next, !.mark = t.next]
  IN CASE t.kind = "cut" -> [s EXCEPT !.i = t.next, !.cmd = "eos"]
       [] t.kind = "option" -> [r EXCEPT !.out = @ \o parseoption(t.val[1], t.val[2])]
       [] t.kind = "dropped" -> [r EXCEPT !.lost = TRUE]
       [] t.kind = "size" -> Ends(r, "crash")
       [] t.kind = "skip" -> r
       [] t.kind = "char" /\ t.val = 3 -> Interrupts(r, "interrupt")
       [] t.kind = "char" /\ t.val = 26 -> Interrupts(r, "suspend")
       [] t.kind = "char" /\ t.val \notin {3, 26} -> Closes(r)
       [] t.kind = "newline" -> [Ends(r, "line") EXCEPT !.line = @ \o <<13, 10>>]
       [] t.kind = "pair" -> [r EXCEPT !.line = @ \o <<10, t.val>>]
       [] OTHER -> [r EXCEPT !.line = Append(@, t.val)]
processlinemode(s, b) == OnLineToken(s, LineToken(b, s.i))

\* The line editor on one byte: CR NL, CR NUL and NL end the line.
teel_run(s, c) ==
  LET v == IF c > 127 THEN 63 ELSE c
  IN CASE s.cr /\ v \in {0, 10} -> [Ends(s, "line") EXCEPT !.cr = FALSE]
       [] s.cr -> [s EXCEPT !.cr = FALSE, !.line = @ \o <<13, v>>]
       [] v = 13 -> [s EXCEPT !.cr = TRUE]
       [] v = 10 -> Ends(s, "line")
       [] v = 3 -> Interrupts(s, "interrupt")
       [] v = 26 -> Interrupts(s, "suspend")
       [] v = 4 -> Closes(s)
       [] OTHER -> [s EXCEPT !.line = Append(@, v)]

\* One byte of processeditmode.  teel_reader marks the input as read on its
\* way out, so a command the input ends in is dropped; the last byte that it
\* read of it, after the IAC, is taken for one that was typed.
OnEditToken(s, t) ==
  LET r == [s EXCEPT !.i = t.next, !.mark = t.next]
  IN CASE t.kind = "cut" /\ t.val # None -> teel_run([r EXCEPT !.lost = TRUE], t.val)
       [] t.kind \in {"cut", "dropped"} -> [r EXCEPT !.lost = TRUE]
       [] t.kind = "option" -> [r EXCEPT !.out = @ \o parseoption(t.val[1], t.val[2])]
       [] t.kind \in {"size", "skip"} -> r
       [] OTHER -> teel_run(r, t.val)
processeditmode(s, b) == OnEditToken(s, EditToken(b, s.i))

\* Until a command or the end of the input.
RECURSIVE Process(_, _, _)
Process(mode, s, b) ==
  IF s.cmd # "nop" \/ s.i > Len(b) THEN s
  ELSE Process(mode, IF mode = "edit" THEN processeditmode(s, b) ELSE processlinemode(s, b), b)

(* ---------------------------------------------------------------------- *)
(* ts:interpret                                                            *)
(* ---------------------------------------------------------------------- *)

\* The old data joined with the new.  Bytes read after the mark are not part
\* of in->len: they are forgotten when new data come.
Joined(in, input) ==
  LET unread == SubSeq(in.bytes, in.p + 1, Len(in.bytes))
  IN CASE input = <<>> -> in
       [] unread # <<>> -> [bytes |-> unread \o input, p |-> 0, alloc |-> TRUE]
       [] OTHER -> [bytes |-> input, p |-> 0, alloc |-> FALSE]

\* Mutant of Stored: the bytes of a command that is not complete are not kept.
StoredNever(rest, p, alloc) == [bytes |-> SubSeq(rest, p + 1, Len(rest)), p |-> 0, alloc |-> alloc]

\* What is kept of the input from the mark on, p of its bytes read: bytes read
\* after the mark are to be read again, unless the buffer was allocated already.
Stored(rest, p, alloc) ==
  CASE p > 0 /\ ~alloc -> [bytes |-> rest, p |-> 0, alloc |-> TRUE]
    [] rest = <<>> /\ alloc -> EmptyIn
    [] OTHER -> [bytes |-> rest, p |-> p, alloc |-> alloc]

\* The end of a call that left the state s of the processing of in.
Returned(in, s) ==
  LET mark == IF s.cmd \in {"eos", "nop"} THEN s.mark ELSE s.i
      rest == SubSeq(in.bytes, mark, Len(in.bytes))
  IN /\ ts' = [ts EXCEPT !.in = Stored(rest, s.i - mark, in.alloc),
                         !.line = IF s.cmd = "line" THEN <<>> ELSE s.line,
                         !.cr = s.cr,
                         !.out = <<>>,
                         !.again = s.i <= Len(in.bytes)]
     /\ got' = [replies |-> got.replies \o s.out,
                cmds |-> IF s.cmd \in {"eos", "nop"} THEN got.cmds
                         ELSE Append(got.cmds, <<s.cmd, IF s.cmd = "line" THEN s.line ELSE <<>>>>)]
     /\ hist' = [hist EXCEPT !.lost = s.lost]

Interpreted(in, s) ==
  IF s.cmd = "crash" THEN hist' = [hist EXCEPT !.dead = TRUE] /\ UNCHANGED <<ts, got>>
  ELSE Returned(in, s)

interpret(input) ==
  ~hist.dead /\ \E in \in {Joined(ts.in, input)} :
    \E s \in {Process(ts.mode,
                     [i |-> in.p + 1, mark |-> in.p + 1, line |-> ts.line, cr |-> ts.cr, out |-> ts.out,
                      cmd |-> "nop", lost |-> hist.lost \/ ts.in.p > 0], in.bytes)} :
      Interpreted(in, s)

(* ---------------------------------------------------------------------- *)
(* The shell and its client                                                *)
(* ---------------------------------------------------------------------- *)

\* l_newinterpreter: the edit mode asks for a character mode with remote echo.
Greeting(mode) ==
  IF mode = "edit" THEN <<<<DO, SUPPRESS_GO_AHEAD>>, <<WILL, SUPPRESS_GO_AHEAD>>, <<WILL, ECHO>>, <<DO, NAWS>>>>
  ELSE <<>>

Init ==
  /\ \E mode \in {"line", "edit"} :
       ts = [mode |-> mode, in |-> EmptyIn, line |-> <<>>, cr |-> FALSE, out |-> Greeting(mode), again |-> FALSE]
  /\ wire = <<>> /\ seen = <<>>
  /\ got = [replies |-> <<>>, cmds |-> <<>>]
  /\ hist = [msgs |-> 0, lost |-> FALSE, dead |-> FALSE]

ClientSends(m) ==
  /\ hist.msgs < MaxMsgs
  /\ wire' = wire \o m
  /\ hist' = [hist EXCEPT !.msgs = @ + 1]
  /\ UNCHANGED <<ts, seen, got>>

\* readloop: a fragment of any size, once the last one was interpreted.
Readloop(n) ==
  /\ ~ts.again
  /\ interpret(SubSeq(wire, 1, n))
  /\ seen' = seen \o SubSeq(wire, 1, n)
  /\ wire' = SubSeq(wire, n + 1, Len(wire))

\* The loop around ts:interpret, while it answers "again".
Again == ts.again /\ interpret(<<>>) /\ UNCHANGED <<wire, seen>>

\* print and the action loop flush their output with a call without input.
Flush == interpret(<<>>) /\ UNCHANGED <<wire, seen>>

Next ==
  \/ \E m \in Messages : ClientSends(m)
  \/ \E n \in 1..Len(wire) : Readloop(n)
  \/ Again
  \/ Flush

Spec == Init /\ [][Next]_vars

(* ---------------------------------------------------------------------- *)
(* Properties                                                              *)
(* ---------------------------------------------------------------------- *)

\* All that the shell would have been handed had b come in one fragment.
RECURSIVE Whole(_, _, _, _)
Whole(mode, r, b, cmds) ==
  IF r.cmd \in {"nop", "eos"} THEN [cmds |-> cmds, line |-> r.line, out |-> r.out]
  ELSE Whole(mode,
             Process(mode, [r EXCEPT !.cmd = "nop", !.mark = r.i,
                                     !.line = IF r.cmd = "line" THEN <<>> ELSE @], b),
             b, Append(cmds, <<r.cmd, IF r.cmd = "line" THEN r.line ELSE <<>>>>))

\* The shell is handed the same lines and commands, and the client the same
\* answers, wherever the stream is cut and whoever calls ts:interpret in
\* between.  The exception is what telnet.c drops: a command the edit mode
\* meets the end of the input in, a window size cut short, and a command cut
\* twice, or cut once and interpreted again before the rest of it arrives.  The
\* process goes on until a client sends its window size in the line mode.
CutsDoNotMatter ==
  ~hist.lost /\ ~hist.dead /\ ~ts.again =>
    \E w \in {Whole(ts.mode,
                   Process(ts.mode, [i |-> 1, mark |-> 1, line |-> <<>>, cr |-> FALSE, out |-> Greeting(ts.mode),
                                     cmd |-> "nop", lost |-> FALSE], seen), seen, <<>>)} :
      /\ got.cmds = w.cmds
      /\ ts.line = w.line
      /\ got.replies \o ts.out = w.out
==============================================================================
