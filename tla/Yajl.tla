------------------------------- MODULE Yajl -------------------------------
(***************************************************************************)
(* The JSON library and its Lua binding: libs/yajl (yajl_lex.c,            *)
(* yajl_parser.c, yajl_encode.c, yajl_gen.c, yajl_tree.c) and              *)
(* luafwk/lua-yajl/lua_yajl.c.                                             *)
(*                                                                         *)
(* A text is made by yajl.to_string or by the calls of a generator, or it  *)
(* is given; then it is read by one of the three readers: yajl.to_value    *)
(* (one call, never completed), a yajl.parser fed piece by piece and       *)
(* completed with nil, and yajl_tree_parse.  Bytes are numbers.  A Lua     *)
(* number is the text that tostring gives it.                              *)
(*                                                                         *)
(* The callbacks only touch the state of their reader, so a reader is a    *)
(* fold over the events of the parser.                                     *)
(***************************************************************************)
EXTENDS Integers, Sequences, FiniteSets, SequencesExt

CONSTANTS
  Values,      \* Lua values given to yajl.to_string
  Texts,       \* texts given to the readers
  Calls,       \* calls made on a generator
  MaxCalls,    \* number of calls on a generator
  MaxDepth,    \* YAJL_MAX_DEPTH
  Gulps        \* sizes of the pieces given to a parser

VARIABLES
  job,    \* what is done: the phase, the options, the text
  gen,    \* the generator: struct yajl_gen_t and the "stack" of its fenv
  hand,   \* struct yajl_handle_t with its lexer, and the events it gave
  fed     \* number of bytes of the text given to the reader

vars == <<job, gen, hand, fed>>

Quote == 34
Backslash == 92
Slash == 47
Star == 42
Minus == 45
Zero == 48
Digit == 48..57
Sign == {43, 45}
LowerU == 117

True == <<116, 114, 117, 101>>
False == <<102, 97, 108, 115, 101>>
Null == <<110, 117, 108, 108>>

(* ---------------------------------------------------------------------- *)
(* Lexer                                                                   *)
(* ---------------------------------------------------------------------- *)

\* charLookupTable
IJC == 0..31 \cup {Quote, Backslash}
VEC == {Quote, Slash, Backslash, 98, 102, 110, 114, 116}
VHC == Digit \cup 65..70 \cup 97..102

\* A lexer; a reading position p: b and o are bufOff and *offset, ch the
\* last byte read, st how the token goes on.
yajl_lex_alloc(comments, utf8) ==
  [buf |-> <<>>, bufInUse |-> FALSE, allowComments |-> comments, validateUTF8 |-> utf8]

Buffered(lx, p) == lx.bufInUse /\ p.b < Len(lx.buf)

\* readChar, behind RETURN_IF_EOF.
Read(lx, t, p) ==
  CASE p.st # "on" -> p
    [] p.o >= Len(t) -> [p EXCEPT !.st = "eof", !.ch = -1]
    [] Buffered(lx, p) -> [p EXCEPT !.b = @ + 1, !.ch = lx.buf[p.b + 1]]
    [] OTHER -> [p EXCEPT !.o = @ + 1, !.ch = t[p.o + 1]]

unreadChar(p) == IF p.o > 0 THEN [p EXCEPT !.o = @ - 1] ELSE [p EXCEPT !.b = @ - 1]

Done(p, tok) == IF p.st = "on" THEN [p EXCEPT !.st = tok, !.ch = -1] ELSE p
Offending(p) == IF p.st = "on" THEN Done(unreadChar(p), "error") ELSE p

Following(q) == IF q.ch \in 128..191 \/ q.st # "on" THEN q ELSE Done(q, "error")

RECURSIVE Continued(_, _, _, _)
Continued(lx, t, p, n) ==
  IF n = 0 \/ p.st # "on" THEN p ELSE Continued(lx, t, Following(Read(lx, t, p)), n - 1)

yajl_lex_utf8_char(lx, t, p) ==
  CASE p.ch <= 127 -> p
    [] p.ch \in 192..223 -> Continued(lx, t, p, 1)
    [] p.ch \in 224..239 -> Continued(lx, t, p, 2)
    [] p.ch \in 240..247 -> Continued(lx, t, p, 3)
    [] OTHER -> Done(p, "error")

OneOf(q, chars) == IF q.ch \in chars THEN q ELSE Offending(q)

RECURSIVE Hex(_, _, _, _)
Hex(lx, t, p, n) ==
  IF n = 0 \/ p.st # "on" THEN p ELSE Hex(lx, t, OneOf(Read(lx, t, p), VHC), n - 1)

\* The byte q of a string, or the escape e that it starts.
Escaped(lx, t, e) == IF e.ch = LowerU THEN Hex(lx, t, e, 4) ELSE OneOf(e, VEC)
StringByte(lx, t, q) ==
  CASE q.ch = Backslash -> Escaped(lx, t, Read(lx, t, q))
    [] q.ch \in IJC \ {Backslash} -> Offending(q)
    [] OTHER -> IF lx.validateUTF8 THEN yajl_lex_utf8_char(lx, t, q) ELSE q

\* The loops read on from q, the position behind the byte just read.
RECURSIVE yajl_lex_string(_, _, _, _)
yajl_lex_string(lx, t, q, hasEscapes) ==
  CASE q.st # "on" -> q
    [] q.st = "on" /\ q.ch = Quote -> Done(q, IF hasEscapes THEN "string_with_escapes" ELSE "string")
    [] OTHER -> yajl_lex_string(lx, t, Read(lx, t, StringByte(lx, t, q)), hasEscapes \/ q.ch = Backslash)

RECURSIVE Digits(_, _, _)
Digits(lx, t, p) == IF p.ch \in Digit THEN Digits(lx, t, Read(lx, t, p)) ELSE p
SomeDigits(lx, t, p) == Digits(lx, t, OneOf(p, Digit))

\* A number is known to be complete one byte too far.
Optional(lx, t, p, chars) == IF p.ch \in chars THEN Read(lx, t, p) ELSE p
Whole(lx, t, p) == IF p.ch = Zero THEN Read(lx, t, p) ELSE SomeDigits(lx, t, p)
Fraction(lx, t, p) == IF p.ch = 46 THEN SomeDigits(lx, t, Read(lx, t, p)) ELSE p
Exponent(lx, t, p) ==
  IF p.ch \in {101, 69} THEN SomeDigits(lx, t, Optional(lx, t, Read(lx, t, p), Sign)) ELSE p
NumberEnd(p, double) ==
  IF p.st = "on" THEN Done(unreadChar(p), IF double THEN "double" ELSE "integer") ELSE p
AfterFraction(lx, t, p, f) == NumberEnd(Exponent(lx, t, f), p.ch = 46 \/ f.ch \in {101, 69})
AfterWhole(lx, t, p) == AfterFraction(lx, t, p, Fraction(lx, t, p))
yajl_lex_number(lx, t, p) == AfterWhole(lx, t, Whole(lx, t, Optional(lx, t, Read(lx, t, p), {Minus})))

AfterStar(r) == CASE r.st # "on" -> r
                  [] r.st = "on" /\ r.ch = Slash -> Done(r, "comment")
                  [] OTHER -> unreadChar(r)

RECURSIVE LineComment(_, _, _), BlockComment(_, _, _)
LineComment(lx, t, q) ==
  IF q.st = "on" /\ q.ch # 10 THEN LineComment(lx, t, Read(lx, t, q)) ELSE Done(q, "comment")
BlockComment(lx, t, q) ==
  IF q.st # "on" THEN q
  ELSE BlockComment(lx, t, Read(lx, t, IF q.ch = Star THEN AfterStar(Read(lx, t, q)) ELSE q))

yajl_lex_comment(lx, t, q) ==
  CASE q.ch = Slash -> LineComment(lx, t, Read(lx, t, q))
    [] q.ch = Star -> BlockComment(lx, t, Read(lx, t, q))
    [] OTHER -> Done(q, "error")

RECURSIVE Word(_, _, _, _, _)
Word(lx, t, p, want, tok) ==
  CASE p.st # "on" -> p
    [] p.st = "on" /\ want = <<>> -> Done(p, tok)
    [] OTHER -> Word(lx, t, OneOf(Read(lx, t, p), {Head(want)}), Tail(want), tok)

Token(lx, t, p) ==
  CASE p.ch = 123 -> Done(p, "{")
    [] p.ch = 125 -> Done(p, "}")
    [] p.ch = 91 -> Done(p, "[")
    [] p.ch = 93 -> Done(p, "]")
    [] p.ch = 44 -> Done(p, ",")
    [] p.ch = 58 -> Done(p, ":")
    [] p.ch = 116 -> Word(lx, t, p, Tail(True), "bool")
    [] p.ch = 102 -> Word(lx, t, p, Tail(False), "bool")
    [] p.ch = 110 -> Word(lx, t, p, Tail(Null), "null")
    [] p.ch = Quote -> yajl_lex_string(lx, t, Read(lx, t, p), FALSE)
    [] p.ch \in Digit \cup {Minus} -> yajl_lex_number(lx, t, unreadChar(p))
    [] p.ch = Slash -> IF lx.allowComments THEN yajl_lex_comment(lx, t, Read(lx, t, p)) ELSE Offending(p)
    [] OTHER -> Done(p, "error")

\* Mutant of CommentEnd: what was kept of a comment stays in the buffer.
CommentKept(lx) == lx

CommentEnd(lx) == [lx EXCEPT !.buf = <<>>, !.bufInUse = FALSE]

\* The token at *offset: blanks and comments are skipped, and what was read
\* of a token that is not complete is kept.  l has the lexer, the position
\* and the start of the token.
AfterToken(l, r) ==
  IF r.st = "comment" THEN [lx |-> CommentEnd(l.lx), p |-> [r EXCEPT !.st = "on"], start |-> r.o]
  ELSE [l EXCEPT !.p = r]

AfterByte(l, t, q) ==
  IF q.st = "on" /\ q.ch \in 9..13 \cup {32} THEN [l EXCEPT !.p = q, !.start = @ + 1]
  ELSE AfterToken(l, Token(l.lx, t, q))

RECURSIVE LexFrom(_, _)
LexFrom(l, t) == IF l.p.st # "on" THEN l ELSE LexFrom(AfterByte(l, t, Read(l.lx, t, l.p)), t)

Lexed(l, t) ==
  LET text == (IF l.lx.bufInUse THEN l.lx.buf ELSE <<>>) \o SubSeq(t, l.start + 1, l.p.o)
  IN CASE l.p.st = "eof" ->
            [tok |-> "eof", text |-> <<>>, off |-> l.p.o, lx |-> [l.lx EXCEPT !.buf = text, !.bufInUse = TRUE]]
       [] OTHER ->
            [tok |-> l.p.st, off |-> l.p.o, lx |-> [l.lx EXCEPT !.bufInUse = FALSE],
             text |-> IF l.p.st \in {"string", "string_with_escapes"} THEN SubSeq(text, 2, Len(text) - 1)
                      ELSE text]

yajl_lex_lex(lx, t, off) ==
  Lexed(LexFrom([lx |-> lx, p |-> [b |-> 0, o |-> off, ch |-> -1, st |-> "on"], start |-> off], t), t)

(* ---------------------------------------------------------------------- *)
(* Strings                                                                 *)
(* ---------------------------------------------------------------------- *)

HexDigit(n) == IF n < 10 THEN 48 + n ELSE 55 + n
Escape(c) ==
  CASE c = 13 -> <<Backslash, 114>>
    [] c = 10 -> <<Backslash, 110>>
    [] c \in {Backslash, Quote} -> <<Backslash, c>>
    [] c = 12 -> <<Backslash, 102>>
    [] c = 8 -> <<Backslash, 98>>
    [] c = 9 -> <<Backslash, 116>>
    [] c < 32 /\ c \notin {8, 9, 10, 12, 13} ->
         <<Backslash, LowerU, Zero, Zero, HexDigit(c \div 16), HexDigit(c % 16)>>
    [] OTHER -> <<c>>

yajl_string_encode(str) == FlattenSeq([k \in DOMAIN str |-> Escape(str[k])])

\* hexToDigit: the number of the four digits from i on.
HexValue(c) == IF c >= 97 THEN c - 87 ELSE IF c >= 65 THEN c - 55 ELSE c - 48
hexToDigit(s, i) ==
  4096 * HexValue(s[i]) + 256 * HexValue(s[i + 1]) + 16 * HexValue(s[i + 2]) + HexValue(s[i + 3])

Utf32toUtf8(c) ==
  CASE c < 128 -> <<c>>
    [] c \in 128..2047 -> <<192 + c \div 64, 128 + (c % 64)>>
    [] c \in 2048..65535 -> <<224 + c \div 4096, 128 + ((c \div 64) % 64), 128 + (c % 64)>>
    [] OTHER -> <<240 + c \div 262144, 128 + ((c \div 4096) % 64), 128 + ((c \div 64) % 64), 128 + (c % 64)>>

Unescaped(e) == CASE e = 114 -> 13 [] e = 110 -> 10 [] e = 102 -> 12 [] e = 98 -> 8 [] e = 116 -> 9 [] OTHER -> e

\* A first half of a pair that is alone is a question mark, and takes the
\* byte behind it along.
RECURSIVE yajl_string_decode(_, _)
yajl_string_decode(s, i) ==
  LET code == hexToDigit(s, i + 2)
      pair == code \div 1024 = 54
      second == i + 7 <= Len(s) /\ s[i + 6] = Backslash /\ s[i + 7] = LowerU
      low == hexToDigit(s, i + 8) % 1024
  IN CASE i > Len(s) -> <<>>
       [] i <= Len(s) /\ s[i] # Backslash -> <<s[i]>> \o yajl_string_decode(s, i + 1)
       [] OTHER ->
            CASE s[i + 1] # LowerU -> <<Unescaped(s[i + 1])>> \o yajl_string_decode(s, i + 2)
              [] s[i + 1] = LowerU /\ ~pair -> Utf32toUtf8(code) \o yajl_string_decode(s, i + 6)
              [] s[i + 1] = LowerU /\ pair /\ second ->
                   Utf32toUtf8(65536 + 1024 * (code % 1024) + low) \o yajl_string_decode(s, i + 12)
              [] OTHER -> <<63>> \o yajl_string_decode(s, i + 7)

(* ---------------------------------------------------------------------- *)
(* Parser                                                                  *)
(* ---------------------------------------------------------------------- *)

yajl_alloc(comments, utf8) ==
  [lx |-> yajl_lex_alloc(comments, utf8), stateStack |-> <<"start">>, ev |-> <<>>, status |-> "ok"]

Event(what, val) == [what |-> what, val |-> val]
Pop(s) == SubSeq(s, 1, Len(s) - 1)
Set(s, state) == Append(Pop(s), state)

\* The transition of a token in the state s at the top of the stack: the
\* events it gives and what becomes of the top, <<>> to pop it.
Step(ev, top) == [ev |-> ev, top |-> top]
ParseError == Step(<<>>, <<"parse_error">>)

AfterValue(s) ==
  CASE s \in {"start", "got_value"} -> "parse_complete"
    [] s = "map_need_val" -> "map_got_val"
    [] OTHER -> "array_got_val"

Transition(s, tok, text) ==
  LET string == IF tok = "string" THEN text ELSE yajl_string_decode(text, 1)
      value(e) == Step(<<e>>, <<AfterValue(s)>>)
      open(e, state) == Step(<<e>>, <<AfterValue(s), state>>)
  IN CASE tok = "error" -> Step(<<>>, <<"lexical_error">>)
       [] tok # "error" /\ s \in {"start", "got_value", "map_need_val", "array_need_val", "array_start"} ->
            CASE tok \in {"string", "string_with_escapes"} -> value(Event("string", string))
              [] tok = "bool" -> value(Event("boolean", text[1] = 116))
              [] tok = "null" -> value(Event("null", <<>>))
              [] tok = "{" -> open(Event("start_map", <<>>), "map_start")
              [] tok = "[" -> open(Event("start_array", <<>>), "array_start")
              [] tok \in {"integer", "double"} -> value(Event("number", text))
              [] tok = "]" /\ s = "array_start" -> Step(<<Event("end_array", <<>>)>>, <<>>)
              [] OTHER -> ParseError
       [] tok # "error" /\ s \in {"map_start", "map_need_key"} ->
            CASE tok \in {"string", "string_with_escapes"} -> Step(<<Event("map_key", string)>>, <<"map_sep">>)
              [] tok = "}" /\ s = "map_start" -> Step(<<Event("end_map", <<>>)>>, <<>>)
              [] OTHER -> ParseError
       [] tok # "error" /\ s = "map_sep" -> IF tok = ":" THEN Step(<<>>, <<"map_need_val">>) ELSE ParseError
       [] tok # "error" /\ s = "map_got_val" ->
            CASE tok = "}" -> Step(<<Event("end_map", <<>>)>>, <<>>)
              [] tok = "," -> Step(<<>>, <<"map_need_key">>)
              [] OTHER -> ParseError
       [] tok # "error" /\ s = "array_got_val" ->
            CASE tok = "]" -> Step(<<Event("end_array", <<>>)>>, <<>>)
              [] tok = "," -> Step(<<>>, <<"array_need_val">>)
              [] OTHER -> ParseError
       [] OTHER -> ParseError    \* parse_complete: trailing garbage

\* The loop over the tokens; x has the handle, the offset and whether to go on.
Applied(x, l, step) ==
  [h |-> [x.h EXCEPT !.lx = l.lx, !.ev = @ \o step.ev, !.stateStack = Pop(@) \o step.top],
   off |-> l.off, on |-> TRUE]

OnToken(x, l) ==
  IF l.tok = "eof" THEN [x EXCEPT !.h.lx = l.lx, !.on = FALSE]
  ELSE Applied(x, l, Transition(Last(x.h.stateStack), l.tok, l.text))

RECURSIVE ParseFrom(_, _)
ParseFrom(x, t) ==
  LET s == Last(x.h.stateStack)
  IN CASE ~x.on -> x.h
       [] x.on /\ s \in {"parse_error", "lexical_error"} -> [x.h EXCEPT !.status = "error"]
       [] x.on /\ s = "parse_complete" /\ x.off = Len(t) -> x.h
       [] OTHER -> ParseFrom(OnToken(x, yajl_lex_lex(x.h.lx, t, x.off)), t)

yajl_do_parse(h, t, off) == ParseFrom([h |-> h, off |-> off, on |-> TRUE], t)

\* A blank completes a number; then a value must be complete.
Finished(h) ==
  IF h.status = "error" \/ Last(h.stateStack) \in {"got_value", "parse_complete"} THEN h
  ELSE [h EXCEPT !.stateStack = Set(@, "parse_error"), !.status = "error"]

yajl_do_finish(h) == Finished(yajl_do_parse(h, <<32>>, 0))

(* ---------------------------------------------------------------------- *)
(* The readers                                                             *)
(* ---------------------------------------------------------------------- *)

\* Lua values: [t |-> "null"], "boolean" and "number" and "string" with v,
\* "array" with a sequence v and "map" with a function v from strings.
Atom(t, v) == [t |-> t, v |-> v]

\* yajl.to_value: the frames of the Lua stack, each a table with the key or
\* index to use next; at the bottom the value, once there is one.
Bottom == [tab |-> Atom("none", <<>>), key |-> <<>>, wait |-> FALSE]

\* noop, got_array_value, got_map_key, got_map_value
Store(stk, v) ==
  LET f == Last(stk)
  IN CASE f.tab.t = "array" -> Set(stk, [f EXCEPT !.tab.v = Append(@, v)])
       [] f.tab.t = "map" /\ f.wait -> Set(stk, [f EXCEPT !.key = v.v, !.wait = FALSE])
       [] f.tab.t = "map" /\ ~f.wait ->
            Set(stk, [f EXCEPT !.tab.v = [k \in DOMAIN @ \cup {f.key} |-> IF k = f.key THEN v ELSE @[k]],
                               !.key = <<>>, !.wait = TRUE])
       [] OTHER -> Append(stk, [Bottom EXCEPT !.tab = v])

EmptyMap == [k \in {} |-> Bottom]
to_value(stk, e) ==
  CASE e.what = "start_map" -> Append(stk, [tab |-> Atom("map", EmptyMap), key |-> <<>>, wait |-> TRUE])
    [] e.what = "start_array" -> Append(stk, [tab |-> Atom("array", <<>>), key |-> <<>>, wait |-> FALSE])
    [] e.what \in {"end_map", "end_array"} -> Store(Pop(stk), Last(stk).tab)
    [] e.what = "map_key" -> Store(stk, Atom("string", e.val))
    [] OTHER -> Store(stk, Atom(e.what, e.val))

ValueOf(ev) == Last(FoldLeft(to_value, <<Bottom>>, ev)).tab

\* yajl_tree_parse: the stack of the context, and its root.
context_add_value(ctx, v) ==
  LET top == Last(ctx.stack)
  IN CASE ctx.stack = <<>> -> [ctx EXCEPT !.root = v]
       [] ctx.stack # <<>> /\ top.val.t = "map" /\ top.key = <<>> ->
            [ctx EXCEPT !.stack = Set(@, [top EXCEPT !.key = <<v.v>>])]
       [] ctx.stack # <<>> /\ top.val.t = "map" /\ top.key # <<>> ->
            [ctx EXCEPT !.stack = Set(@, [val |-> [top.val EXCEPT !.v = Append(@, <<top.key[1], v>>)],
                                          key |-> <<>>])]
       [] OTHER -> [ctx EXCEPT !.stack = Set(@, [top EXCEPT !.val.v = Append(@, v)])]

context_push(ctx, v) == [ctx EXCEPT !.stack = Append(@, [val |-> v, key |-> <<>>])]

tree_callback(ctx, e) ==
  CASE e.what = "start_map" -> context_push(ctx, Atom("map", <<>>))
    [] e.what = "start_array" -> context_push(ctx, Atom("array", <<>>))
    [] e.what \in {"end_map", "end_array"} ->
         context_add_value([ctx EXCEPT !.stack = Pop(@)], Last(ctx.stack).val)
    [] e.what = "map_key" -> context_add_value(ctx, Atom("string", e.val))
    [] OTHER -> context_add_value(ctx, Atom(e.what, e.val))

TreeOf(ev) == FoldLeft(tree_callback, [stack |-> <<>>, root |-> Atom("none", <<>>)], ev).root

\* The first value of an object with the key.
RECURSIVE yajl_tree_get(_, _)
yajl_tree_get(n, path) ==
  LET hits == {k \in DOMAIN n.v : n.v[k][1] = Head(path)}
  IN CASE path = <<>> -> n
       [] path # <<>> /\ (n.t # "map" \/ hits = {}) -> Atom("none", <<>>)
       [] OTHER -> yajl_tree_get(n.v[Min(hits)][2], Tail(path))

(* ---------------------------------------------------------------------- *)
(* Generator                                                               *)
(* ---------------------------------------------------------------------- *)

yajl_gen_alloc(beautify) ==
  [out |-> <<>>, state |-> <<"start">>, stack |-> <<>>, beautify |-> beautify,
   err |-> "", calls |-> 0, odd |-> FALSE]

Level(g) == Last(g.state)
depth(g) == Len(g.state) - 1
Pretty(g, text) == IF g.beautify THEN text ELSE <<>>
Put(g, text) == [g EXCEPT !.out = @ \o text]

INSERT_SEP(g) ==
  CASE Level(g) \in {"map_key", "in_array"} -> Put(g, <<44>> \o Pretty(g, <<10>>))
    [] Level(g) = "map_val" -> Put(g, <<58>> \o Pretty(g, <<32>>))
    [] OTHER -> g

INSERT_WHITESPACE(g) == IF Level(g) = "map_val" THEN g ELSE Put(g, Pretty(g, [k \in 1..depth(g) |-> 32]))

Appended(st) ==
  CASE st = "start" -> "complete"
    [] st \in {"map_start", "map_key"} -> "map_val"
    [] st = "array_start" -> "in_array"
    [] st = "map_val" -> "map_key"
    [] OTHER -> st

APPENDED_ATOM(g) == [g EXCEPT !.state = Set(@, Appended(Level(g)))]
FINAL_NEWLINE(g) == IF Level(g) = "complete" THEN Put(g, Pretty(g, <<10>>)) ELSE g
ENSURE_NOT_KEY(g) == Level(g) \notin {"map_key", "map_start"}
Raise(g, err) == [g EXCEPT !.err = err]

\* yajl_gen_string, _number, _null, _bool; a complete generator ignores them.
gen_atom(g, text, string) ==
  CASE g.err # "" \/ Level(g) = "complete" -> g
    [] g.err = "" /\ ~string /\ ~ENSURE_NOT_KEY(g) -> Raise(g, "keys_must_be_strings")
    [] OTHER -> FINAL_NEWLINE(APPENDED_ATOM(Put(INSERT_WHITESPACE(INSERT_SEP(g)), text)))

js_generator_string(g, str) == gen_atom(g, <<Quote>> \o yajl_string_encode(str) \o <<Quote>>, TRUE)

\* js_generator_open_object, js_generator_open_array
Deeper(g, ch, state) ==
  IF depth(g) + 1 >= MaxDepth THEN [Raise(g, "max_depth_exceeded") EXCEPT !.state = Append(@, "outside")]
  ELSE [Put(g, <<ch>> \o Pretty(g, <<10>>)) EXCEPT !.state = Append(@, state), !.stack = Append(@, ch + 2)]

gen_open(g, ch, state) ==
  CASE g.err # "" \/ Level(g) = "complete" -> g
    [] g.err = "" /\ ~ENSURE_NOT_KEY(g) -> Raise(g, "keys_must_be_strings")
    [] OTHER -> Deeper(INSERT_WHITESPACE(INSERT_SEP(g)), ch, state)

\* yajl_gen_map_close, yajl_gen_array_close
gen_close(g, ch) ==
  LET up == [Put(g, Pretty(g, <<10>>)) EXCEPT !.state = Pop(@), !.odd = @ \/ Level(g) = "map_val"]
  IN FINAL_NEWLINE(Put(INSERT_WHITESPACE(APPENDED_ATOM(up)), <<ch>>))

js_generator_close(g) ==
  CASE g.err # "" -> g
    [] g.err = "" /\ g.stack = <<>> -> Raise(g, "StackUnderflow")
    [] OTHER -> [gen_close(g, Last(g.stack)) EXCEPT !.stack = Pop(@)]

NumberText(v) ==
  CASE v.t = "huge" -> <<49, 101, 43, 54, 54, 54>>
    [] v.t = "minushuge" -> <<45, 49, 101, 43, 54, 54, 54>>
    [] v.t = "nan" -> <<45, 48>>
    [] OTHER -> v.v

Numbers == {"number", "huge", "minushuge", "nan"}

\* A table is the sequence of its <<key, value>> in the order of lua_next.
is_array(tab) == \A k \in DOMAIN tab : tab[k][1].t = "number" /\ tab[k][1].whole
max(tab) == Max({0} \cup {tab[k][1].n : k \in DOMAIN tab})
Nil == [t |-> "nil", v |-> <<>>]
At(tab, i) ==
  LET hits == {k \in DOMAIN tab : tab[k][1].n = i} IN IF hits = {} THEN Nil ELSE tab[Max(hits)][2]

\* Values that are neither data nor made by __gen_json are left out.
RECURSIVE js_generator_value(_, _)
js_generator_value(g, v) ==
  LET element(h, i) == js_generator_value(h, At(v.v, i))
      pair(h, kv) == js_generator_value(js_generator_string(h, kv[1].v), kv[2])
  IN CASE v.t = "nil" -> gen_atom(g, Null, FALSE)
       [] v.t \in Numbers -> gen_atom(g, NumberText(v), FALSE)
       [] v.t = "boolean" -> gen_atom(g, IF v.v THEN True ELSE False, FALSE)
       [] v.t = "string" -> js_generator_string(g, v.v)
       [] v.t = "function" -> g
       [] v.t = "table" /\ is_array(v.v) ->
            js_generator_close(FoldLeft(element, gen_open(g, 91, "array_start"), [i \in 1..max(v.v) |-> i]))
       [] OTHER -> js_generator_close(FoldLeft(pair, gen_open(g, 123, "map_start"), v.v))

(* ---------------------------------------------------------------------- *)
(* Steps                                                                   *)
(* ---------------------------------------------------------------------- *)

Readers == {"to_value", "parser", "tree"}
Job(from, v, text, reader, comments, utf8) ==
  [phase |-> IF from = "text" THEN "read" ELSE "make", from |-> from, v |-> v, text |-> text,
   reader |-> reader, comments |-> comments \/ reader = "tree", utf8 |-> utf8 \/ reader = "tree"]

Init ==
  /\ fed = 0
  /\ \E indent \in BOOLEAN : gen = yajl_gen_alloc(indent)
  /\ \/ \E v \in Values, r \in Readers : job = Job("value", v, <<>>, r, FALSE, TRUE)
     \/ job = Job("calls", Nil, <<>>, "parser", FALSE, TRUE)
     \/ ~gen.beautify /\ \E x \in Texts, r \in Readers : job = Job("text", Nil, x.text, r, x.comments, x.utf8)
  /\ hand = yajl_alloc(job.comments, job.utf8)

js_to_string ==
  /\ job.phase = "make" /\ job.from = "value"
  /\ gen' = js_generator_value(gen, job.v)
  /\ job' = [job EXCEPT !.text = gen'.out, !.phase = IF gen'.err = "" THEN "read" ELSE "end"]
  /\ UNCHANGED <<hand, fed>>

\* A call on a generator; an error is caught by the caller, who gives up
\* after an overflow of the stack.
Called(g, c) ==
  CASE c.call = "open_object" -> gen_open(g, 123, "map_start")
    [] c.call = "open_array" -> gen_open(g, 91, "array_start")
    [] c.call = "close" -> js_generator_close(g)
    [] OTHER -> js_generator_value(g, c.v)

GeneratorCall(c) ==
  /\ job.phase = "make" /\ job.from = "calls"
  /\ gen.calls < MaxCalls /\ gen.err # "max_depth_exceeded"
  /\ gen' = [Called([gen EXCEPT !.err = ""], c) EXCEPT !.calls = gen.calls + 1]
  /\ UNCHANGED <<job, hand, fed>>

GetBuf ==
  /\ job.phase = "make" /\ job.from = "calls" /\ gen.calls > 0
  /\ job' = [job EXCEPT !.text = gen.out, !.phase = "read"]
  /\ UNCHANGED <<gen, hand, fed>>

js_parser_parse(n) ==
  LET to == Min({fed + n, Len(job.text)})
  IN /\ job.phase = "read" /\ job.reader = "parser" /\ hand.status = "ok" /\ fed < Len(job.text)
     /\ hand' = yajl_do_parse(hand, SubSeq(job.text, fed + 1, to), 0)
     /\ fed' = to
     /\ UNCHANGED <<job, gen>>

\* The parser called with nil.
Complete ==
  /\ job.phase = "read" /\ job.reader = "parser" /\ hand.status = "ok" /\ fed = Len(job.text)
  /\ hand' = yajl_do_finish(hand)
  /\ job' = [job EXCEPT !.phase = "end"]
  /\ UNCHANGED <<gen, fed>>

js_to_value ==
  /\ job.phase = "read" /\ job.reader = "to_value"
  /\ hand' = yajl_do_parse(hand, job.text, 0)
  /\ job' = [job EXCEPT !.phase = "end"]
  /\ fed' = Len(job.text) /\ UNCHANGED gen

yajl_tree_parse ==
  /\ job.phase = "read" /\ job.reader = "tree"
  /\ hand' = yajl_do_finish(yajl_do_parse(hand, job.text, 0))
  /\ job' = [job EXCEPT !.phase = "end"]
  /\ fed' = Len(job.text) /\ UNCHANGED gen

Next ==
  \/ js_to_string
  \/ \E c \in Calls : GeneratorCall(c)
  \/ GetBuf
  \/ \E n \in Gulps : js_parser_parse(n)
  \/ Complete \/ js_to_value \/ yajl_tree_parse

Spec == Init /\ [][Next]_vars

(* ---------------------------------------------------------------------- *)
(* Properties                                                              *)
(* ---------------------------------------------------------------------- *)

\* Feeding a parser piece by piece gives, after every piece, the events and
\* the errors of feeding it all at once (what readChar keeps of a token that
\* a piece cuts).
PiecesDoNotMatter ==
  job.reader = "parser" /\ job.phase = "read" =>
    LET whole == yajl_do_parse(yajl_alloc(job.comments, job.utf8), SubSeq(job.text, 1, fed), 0)
    IN hand.ev = whole.ev /\ hand.status = whole.status /\ hand.stateStack = whole.stateStack

\* What to_string may write of a value, and what is read back of it.
RECURSIVE Sound(_), Norm(_), AsValue(_)
Utf8(str) ==
  LET f[k \in 1..(Len(str) + 4)] ==
        LET cont(n) == k + n <= Len(str) /\ \A j \in 1..n : str[k + j] \in 128..191
        IN \/ k > Len(str)
           \/ str[k] <= 127 /\ f[k + 1]
           \/ str[k] \in 192..223 /\ cont(1) /\ f[k + 2]
           \/ str[k] \in 224..239 /\ cont(2) /\ f[k + 3]
           \/ str[k] \in 240..247 /\ cont(3) /\ f[k + 4]
  IN f[1]
Sound(v) ==
  CASE v.t = "function" -> FALSE
    [] v.t = "string" -> Utf8(v.v)
    [] v.t = "table" -> \A k \in DOMAIN v.v : Sound(v.v[k][2]) /\ (v.v[k][1].t = "string" => Utf8(v.v[k][1].v))
    [] OTHER -> TRUE
Norm(v) ==
  CASE v.t = "nil" -> Atom("null", <<>>)
    [] v.t \in Numbers -> Atom("number", NumberText(v))
    [] v.t = "table" /\ is_array(v.v) -> Atom("array", [i \in 1..max(v.v) |-> Norm(At(v.v, i))])
    [] v.t = "table" /\ ~is_array(v.v) ->
         Atom("map", [key \in {v.v[k][1].v : k \in DOMAIN v.v} |->
                        Norm(v.v[CHOOSE k \in DOMAIN v.v : v.v[k][1].v = key][2])])
    [] OTHER -> Atom(v.t, v.v)
AsValue(n) ==
  CASE n.t = "array" -> Atom("array", [i \in DOMAIN n.v |-> AsValue(n.v[i])])
    [] n.t = "map" -> Atom("map", [key \in {n.v[k][1] : k \in DOMAIN n.v} |-> AsValue(yajl_tree_get(n, <<key>>))])
    [] OTHER -> n

\* A value written by to_string is read back by every reader as it was, with
\* null for nil and text for the keys of an object, when its strings are
\* UTF-8 and it holds no function; to_value does not see the end of a bare
\* number, which its callers put in brackets.  What the calls of a generator
\* wrote is never refused by a parser before its end, unless an object was
\* closed behind a key.
ReadAsWritten ==
  /\ job.from = "value" /\ job.phase = "end" /\ gen.err = "" /\ Sound(job.v)
       /\ ~(job.reader = "to_value" /\ job.v.t \in Numbers /\ ~gen.beautify) =>
       /\ hand.status = "ok"
       /\ Norm(job.v) = (IF job.reader = "tree" THEN AsValue(TreeOf(hand.ev)) ELSE ValueOf(hand.ev))
  /\ job.from = "calls" /\ job.phase = "read" /\ ~gen.odd => hand.status = "ok"

=============================================================================
