-------------------------------- MODULE Teel ---------------------------------
(***************************************************************************)
(* The line editor of the remote shell (luafwk/shell/telnet: teel.c,       *)
(* editor.c, actions.c, history.c).  The edited text is kept as the rows   *)
(* of a window: a row shorter than the window ends with a line break, a    *)
(* full row goes on in the next one.  Positions are row * width + column.  *)
(*                                                                         *)
(* What is drawn on the terminal is left out; "txt" is the text a user who *)
(* pressed the same keys has in mind, with its cursor.  A line break is    *)
(* the character NL.                                                       *)
(***************************************************************************)
EXTENDS Integers, Sequences, FiniteSets, SequencesExt

CONSTANTS Inputs,    \* what the reader delivers: sequences of bytes
          Prompt,    \* the prompt
          Lines,     \* lines the history starts with
          Proposals, \* what the completion callback answers: sequences of words
          Widths,    \* widths of the client's window, at least 5
          HistorySize,
          MaxInputs  \* inputs and calls of the shell

VARIABLES ed,   \* Editor: [lines, cursorpos, userstartpos, windowwidth, editmode, spare]
          ti,   \* the rest of TeelInstance: [temp, currseq, state, prev, acs, list, widx, idx, curline, curpos]
          ref,  \* the user's view: [txt, cur, recent], and the line last returned
          hist  \* [n, win]: steps, windows met

vars == <<ed, ti, ref, hist>>

NL == 10
Stops == {NL, 32}
None == <<0>>

Lesser(a, b) == IF a < b THEN a ELSE b
Greater(a, b) == IF a < b THEN b ELSE a
Row(e, pos) == pos \div e.windowwidth
Col(e, pos) == pos % e.windowwidth
Front_(s, n) == SubSeq(s, 1, n)
From(s, n) == SubSeq(s, n + 1, Len(s))

(* ---------------------------------------------------------------------- *)
(* Rows.  Row r, counted from 0, is lines[r + 1].                          *)
(* ---------------------------------------------------------------------- *)

Line(e, r) == IF r < Len(e.lines) THEN e.lines[r + 1] ELSE <<>>
Breaks(e, r) == Len(Line(e, r)) < e.windowwidth

\* The rows up to r exist.
checkline(e, r) == [e EXCEPT !.lines = @ \o [k \in 1..Greater(0, r + 1 - Len(@)) |-> <<>>]]
SetLine(e, r, l) == [checkline(e, r) EXCEPT !.lines[r + 1] = l]
insertbuflines(e, r, n) ==
  [e EXCEPT !.lines = Front_(@, r) \o [k \in 1..n |-> <<>>] \o From(@, r)]
deletebufline(e, r) ==
  IF r < Len(e.lines) THEN [e EXCEPT !.lines = RemoveAt(@, r + 1)] ELSE e

tl_editor_init(w) ==
  [lines |-> << <<>> >>, cursorpos |-> 0, userstartpos |-> 0, windowwidth |-> w, editmode |-> 0,
   spare |-> FALSE]

lastcharpos(e) ==
  IF e.lines = <<>> THEN 0 ELSE (Len(e.lines) - 1) * e.windowwidth + Len(Last(e.lines))

\* Moves by nb characters from pos: where to, and what could not be moved.
\* A row that does not exist fails an assertion: "to" is -1.
RECURSIVE Forward(_, _, _, _, _)
Forward(e, r, c, to, nb) ==
  LET teol == Len(Line(e, r)) - c
  IN CASE nb = 0 -> [to |-> to, clipped |-> 0]
       [] r >= Len(e.lines) -> [to |-> -1, clipped |-> nb]
       [] nb <= teol -> [to |-> to + nb, clipped |-> 0]
       [] r + 1 >= Len(e.lines) -> [to |-> to + teol, clipped |-> nb - teol]
       [] OTHER -> Forward(e, r + 1, 0, to + teol + e.windowwidth - Len(Line(e, r)),
                           nb - teol - (IF Breaks(e, r) THEN 1 ELSE 0))

RECURSIVE Backward(_, _, _, _, _)
Backward(e, r, c, to, nb) ==
  CASE nb <= c -> [to |-> to - nb, clipped |-> 0]
    [] r = 0 -> [to |-> to - c, clipped |-> -(nb - c)]
    [] OTHER -> LET l == Len(Line(e, r - 1))
                IN Backward(e, r - 1, l, to - c - Greater(e.windowwidth - l, 1), nb - c - 1)

positionfromoffset(e, pos, nb) ==
  IF nb > 0 THEN Forward(e, Row(e, pos), Col(e, pos), pos, nb)
  ELSE Backward(e, Row(e, pos), Col(e, pos), pos, -nb)

\* Characters between two positions, a line break counting lb.
offsetfromposition(e, from, to, lb) ==
  LET RECURSIVE Sum(_)
      Sum(r) == IF r >= Row(e, to) THEN Col(e, to) - Col(e, from)
                ELSE Len(Line(e, r)) + (IF Breaks(e, r) THEN lb ELSE 0) + Sum(r + 1)
  IN Sum(Row(e, from))

\* The text between two positions.
copyline(e, from, to) ==
  LET RECURSIVE Rows(_)
      Rows(r) ==
        LET l == Line(e, r)
            a == IF r = Row(e, from) THEN Lesser(Col(e, from), Len(l)) ELSE 0
            z == IF r = Row(e, to) THEN Lesser(Col(e, to), Len(l)) ELSE Len(l)
        IN SubSeq(l, a + 1, z)
             \o (IF z = Len(l) /\ Breaks(e, r) /\ r < Row(e, to) THEN <<NL>> ELSE <<>>)
             \o (IF r < Row(e, to) THEN Rows(r + 1) ELSE <<>>)
  IN IF from > to THEN <<>> ELSE Rows(Row(e, from))

tl_editor_getline(e) == copyline(e, e.userstartpos, lastcharpos(e))

\* The offset of the next word boundary in a direction.
WordOffset(e, dir, w) == IF dir = -1 /\ w[1] > e.userstartpos THEN w[2] + 1 ELSE w[2]

tl_editor_offsetuntilchars(e, dir) ==
  LET last == lastcharpos(e) + (IF dir = -1 THEN 1 ELSE 0)
      first == e.userstartpos - (IF dir = 1 THEN 1 ELSE 0)
      back == dir = -1 /\ e.cursorpos > e.userstartpos
      RECURSIVE Walk(_, _, _)
      Walk(pos, offset, pol) ==
        LET l == Line(e, Row(e, pos))
            stop == Col(e, pos) >= Len(l) \/ l[Col(e, pos) + 1] \in Stops
        IN IF ~(pos > first /\ pos < last) \/ (~pol /\ stop) THEN <<pos, offset>>
           ELSE Walk(positionfromoffset(e, pos, dir).to, offset + dir, pol /\ stop)
  IN WordOffset(e, dir, Walk(IF back THEN positionfromoffset(e, e.cursorpos, -1).to ELSE e.cursorpos,
                             IF back THEN -1 ELSE 0, TRUE))

(* ---------------------------------------------------------------------- *)
(* Insertion                                                               *)
(* ---------------------------------------------------------------------- *)

tl_editor_movecursor(e, from, nb) ==
  [e EXCEPT !.cursorpos = Greater(positionfromoffset(e, from, nb).to, e.userstartpos)]

\* Overwrites from the cursor on, wrapping at the width of the window.
RowRoom(e, pos, buf) == Lesser(Len(buf), e.windowwidth - Col(e, pos))
WriteRow(e, pos, buf, s) ==
  LET l == Line(e, Row(e, pos))
  IN SetLine(e, Row(e, pos), Front_(l, Col(e, pos)) \o Front_(buf, s) \o From(l, Col(e, pos) + s))

RECURSIVE WriteRows(_, _, _)
WriteRows(e, pos, buf) ==
  IF buf = <<>> THEN [checkline(e, Row(e, pos)) EXCEPT !.cursorpos = pos]
  ELSE LET s == RowRoom(e, pos, buf) IN WriteRows(WriteRow(e, pos, buf, s), pos + s, From(buf, s))

writechars(e, buf) == WriteRows(e, e.cursorpos, buf)

insertblanklines(e, n, after) == insertbuflines(e, Row(e, e.cursorpos) + after, n)

\* The cursor goes to the start of the next row.
NextRow(e) == [e EXCEPT !.cursorpos = @ + e.windowwidth - Col(e, @)]

\* Inserts what fits in the row l of the cursor, n characters, and pushes k
\* out of it: [e, n, out], out to be inserted at the cursor.  A piece that
\* reaches the end of the last row leaves two rows after it, one of them a
\* break nobody typed: "spare" records it.
MakeRoom(e, buf, l, n, k) ==
  LET r == Row(e, e.cursorpos)  c == Col(e, e.cursorpos)
  IN IF n < e.windowwidth - c /\ Len(l) > c
       THEN SetLine(e, r, Front_(l, c) \o Front_(buf, n) \o SubSeq(l, c + 1, Len(l) - k)) ELSE checkline(e, r)
PushedOut(e, k) == IF k > 0 /\ Col(e, e.cursorpos) > 0 THEN NextRow(e) ELSE e
Filled(e, r, len) ==
  IF Len(Line(e, r)) = e.windowwidth /\ len < e.windowwidth
    THEN insertblanklines(e, 1, IF Col(e, e.cursorpos) = 0 THEN 0 ELSE 1) ELSE e
InsertRow(e, buf, l, n, k) ==
  LET r == Row(e, e.cursorpos)
  IN [e |-> [Filled(PushedOut(writechars(MakeRoom(e, buf, l, n, k), Front_(buf, n)), k), r, Len(l))
               EXCEPT !.spare = @ \/ (n = e.windowwidth - Col(e, e.cursorpos) /\ r = Len(e.lines) - 1)],
      n |-> n, out |-> From(l, Len(l) - k)]
insertlinechars(e, buf) ==
  LET l == Line(e, Row(e, e.cursorpos))
      n == RowRoom(e, e.cursorpos, buf)
  IN InsertRow(e, buf, l, n, Greater(Len(l) + n - e.windowwidth, 0))

\* Inserts until nothing is pushed out any more.
RECURSIVE PushOut(_)
PushOut(i) == IF i.out = <<>> THEN i.e ELSE PushOut(insertlinechars(i.e, i.out))

\* What does not fit in the row: nl whole lines, s characters of the rest and
\* t of what was pushed out, and then the last part.
LastPart(e, i, rest, s, t, e1, e2) ==
  [PushOut([e |-> e2, out |-> From(rest, s) \o From(i.out, t)]) EXCEPT
     !.cursorpos = CASE rest = <<>> /\ Len(i.out) < e.windowwidth -> e.cursorpos + i.n
                     [] Len(rest) > s -> e2.cursorpos + Len(rest) - s
                     [] OTHER -> e1.cursorpos]
WholeLines(e, i, rest, nl, s, e1) ==
  LET t == IF nl > 0 /\ Len(rest) = s THEN Lesser(Len(i.out), nl * e.windowwidth - s) ELSE 0
  IN LastPart(e, i, rest, s, t, e1, writechars(e1, Front_(i.out, t)))
InsertRest(e, i, rest) ==
  LET nl == (Len(rest) + Len(i.out)) \div e.windowwidth
      s == Lesser(Len(rest), nl * e.windowwidth)
  IN IF rest = <<>> /\ i.out = <<>> THEN i.e
     ELSE WholeLines(e, i, rest, nl, s,
                     writechars(IF nl > 0 THEN insertblanklines(i.e, nl, 0) ELSE i.e, Front_(rest, s)))
InsertFrom(e, i, buf) == InsertRest(e, i, From(buf, i.n))

insertunescapedchars(e, buf) ==
  IF e.cursorpos = lastcharpos(e) \/ e.editmode = 1 THEN writechars(e, buf)
  ELSE InsertFrom(e, insertlinechars(e, buf), buf)

insertlinebreak(e) ==
  LET r == Row(e, e.cursorpos)  c == Col(e, e.cursorpos)
      l == Line(e, r)
      next == [e EXCEPT !.cursorpos = (r + 1) * e.windowwidth]
  IN CASE e.cursorpos = lastcharpos(e) -> checkline(next, r + 1)
       [] c = Len(l) -> insertblanklines(next, 1, 0)
       [] OTHER ->
            LET cut == SetLine(next, r, Front_(l, c))
                open == IF Len(l) < e.windowwidth THEN insertblanklines(cut, 1, 0) ELSE cut
            IN [PushOut([e |-> open, out |-> From(l, c)]) EXCEPT !.cursorpos = next.cursorpos]

\* The pieces between line breaks.
InsertPiece(e, buf) == IF buf = <<>> THEN e ELSE insertunescapedchars(e, buf)
BreakAfter(e, more) == IF more THEN insertlinebreak(e) ELSE e

RECURSIVE tl_editor_insertchars(_, _)
tl_editor_insertchars(e, buf) ==
  LET nl == SelectInSeq(buf, LAMBDA x : x = NL)
      n == IF nl > 0 THEN nl - 1 ELSE Len(buf)
  IN IF buf = <<>> THEN e
     ELSE tl_editor_insertchars(BreakAfter(InsertPiece(e, Front_(buf, n)), nl > 0), From(buf, n + 1))

(* ---------------------------------------------------------------------- *)
(* Deletion                                                                *)
(* ---------------------------------------------------------------------- *)

\* Deletes in the row of the cursor and refills it from the rows after it:
\* [e, nb], nb characters being left to delete.
Refilled(e, left) == [e |-> IF Col(e, e.cursorpos) # 0 /\ left > 0 THEN NextRow(e) ELSE e, nb |-> left]
RefillFrom(e, pecl, nb, after) ==
  LET room == e.windowwidth - Col(e, pecl)
      la == From(Line(e, Row(e, after)), Col(e, after))
      tw == Lesser(room, Len(la))
  IN IF after > lastcharpos(e) THEN [e |-> e, nb |-> nb]
     ELSE Refilled(writechars([e EXCEPT !.cursorpos = pecl], Front_(la, tw)),
                   nb + tw + (IF room > Len(la) THEN 1 ELSE 0))
Refill(e, pecl, nb) == RefillFrom(e, pecl, nb, positionfromoffset(e, pecl, nb + 1).to)

deletelinechars(e, nb) ==
  LET r == Row(e, e.cursorpos)  c == Col(e, e.cursorpos)
      l == Line(e, r)
      teol == Len(l) - c
      brk == IF Len(l) < e.windowwidth THEN 1 ELSE 0
      n == Lesser(nb, teol + brk)
      rest == IF nb < teol + brk THEN Front_(l, c) \o From(l, c + nb) ELSE Front_(l, c)
  IN IF nb >= teol + brk /\ c = 0 THEN [e |-> deletebufline(e, r), nb |-> nb - n]
     ELSE IF nb > teol \/ brk = 0 THEN Refill(SetLine(e, r, rest), r * e.windowwidth + Len(rest), nb - n)
     ELSE [e |-> SetLine(e, r, rest), nb |-> nb - n]

RECURSIVE DeleteLoop(_, _)
DeleteLoop(d, fuel) ==
  IF d.nb = 0 \/ fuel = 0 THEN d.e ELSE DeleteLoop(deletelinechars(d.e, d.nb), fuel - 1)
DeleteFrom(e, nb) == [DeleteLoop([e |-> e, nb |-> nb], 20) EXCEPT !.cursorpos = e.cursorpos]

DeleteNb(e, nb) ==
  LET r == Row(e, e.cursorpos)  c == Col(e, e.cursorpos)
      prev == Line(e, r - 1)
      nbae == IF Len(prev) = e.windowwidth THEN 1 ELSE 0
  IN CASE nb = -1 /\ c = Len(Line(e, r)) /\ c > 0 ->
            [SetLine(e, r, Front_(Line(e, r), c - 1)) EXCEPT !.cursorpos = @ - 1]
       [] nb = -1 /\ c = Len(Line(e, r)) /\ c = 0 ->
            [deletebufline(SetLine(e, r - 1, Front_(prev, Len(prev) - nbae)), r)
               EXCEPT !.cursorpos = @ - (e.windowwidth - (Len(prev) - nbae))]
       [] OTHER -> DeleteFrom(IF nb < 0 THEN tl_editor_movecursor(e, e.cursorpos, nb) ELSE e, Greater(nb, -nb))
DeleteTo(e, nb, p) ==
  IF nb = 0 \/ Greater(p.to, e.userstartpos) = e.cursorpos THEN e
  ELSE DeleteNb(e, nb - p.clipped + (IF p.to < e.userstartpos
                                     THEN offsetfromposition(e, Greater(p.to, 0), e.userstartpos, 1) ELSE 0))
DeleteIn(e, nb) == DeleteTo(e, nb, positionfromoffset(e, e.cursorpos, nb))
tl_editor_deletechars(e, nb) == DeleteIn(checkline(e, Row(e, e.cursorpos)), nb)

(* ---------------------------------------------------------------------- *)
(* The whole area                                                          *)
(* ---------------------------------------------------------------------- *)

\* Writes buf over the text and cuts what is left of the old text.
CutAtCursor(e) ==
  LET r == Row(e, e.cursorpos)
  IN IF e.cursorpos < lastcharpos(e)
       THEN [e EXCEPT !.lines = Append(Front_(@, r), Front_(Line(e, r), Col(e, e.cursorpos)))] ELSE e
tl_editor_seteditcontent(e, buf) ==
  CutAtCursor([tl_editor_insertchars([e EXCEPT !.editmode = 1, !.cursorpos = e.userstartpos], buf)
                 EXCEPT !.editmode = e.editmode])

tl_editor_cleareditingarea(e) ==
  [e EXCEPT !.lines = << <<>> >>, !.cursorpos = 0, !.userstartpos = 0]

PromptTail(old, e, buf) ==
  LET s == Lesser(old, Len(buf))
  IN CASE s < Len(buf) -> insertunescapedchars(e, From(buf, s))
       [] old > s -> deletelinechars(e, old - s).e
       [] OTHER -> e
PromptWritten(e, x) ==
  [x EXCEPT !.userstartpos = x.cursorpos, !.cursorpos = e.cursorpos + x.cursorpos - e.userstartpos]
tl_editor_writeprompt(e, buf) ==
  LET s == Lesser(e.userstartpos, Len(buf))
  IN PromptWritten(e, PromptTail(e.userstartpos, writechars([e EXCEPT !.cursorpos = 0], Front_(buf, s)), buf))

\* The rows of the text in a window of another width; f is the new editor,
\* its row that is being filled and what is left of the old row.
FillRow(f, w) ==
  LET l == Line(f.e, f.row)
      s == Lesser(Len(f.buf), w - Len(l))
  IN [e |-> SetLine(f.e, f.row, l \o Front_(f.buf, s)), buf |-> From(f.buf, s),
      row |-> IF s = Len(f.buf) THEN f.row ELSE f.row + 1]
RECURSIVE Fill(_, _)
Fill(f, w) == IF f.buf = <<>> THEN f ELSE Fill(FillRow(f, w), w)
EndOfRow(f, brk) == [f EXCEPT !.e = checkline(@, f.row + brk), !.row = @ + brk]
Reformat(e, w) ==
  LET start == [e |-> [tl_editor_init(w) EXCEPT !.userstartpos = e.userstartpos, !.editmode = e.editmode],
                row |-> 0, buf |-> <<>>]
      Each(f, i) == EndOfRow(Fill([f EXCEPT !.buf = e.lines[i]], w),
                             IF Breaks(e, i - 1) /\ i < Len(e.lines) THEN 1 ELSE 0)
  IN FoldLeft(Each, start, [i \in DOMAIN e.lines |-> i]).e

CursorAt(e, nb) == [e EXCEPT !.cursorpos = positionfromoffset(e, 0, nb).to]
tl_editor_setdisplaysize(e, w) == CursorAt(Reformat(e, w), offsetfromposition(e, 0, e.cursorpos, 1))

(* ---------------------------------------------------------------------- *)
(* History: a ring of HistorySize lines, widx the next to write            *)
(* ---------------------------------------------------------------------- *)

tl_history_addhistory(h, line) ==
  LET prev == (h.widx - 1 + HistorySize) % HistorySize
  IN IF h.list[prev] = line THEN h
     ELSE [h EXCEPT !.list[h.widx] = line, !.widx = (@ + 1) % HistorySize]

\* The entry of age pos, None when there is none.
tl_history_getentry(h, pos) ==
  IF pos > HistorySize \/ pos <= 0 THEN None ELSE h.list[(h.widx + HistorySize - pos) % HistorySize]

tl_history_resetcontext(h) == [h EXCEPT !.curline = None, !.curpos = 0, !.idx = 0]

\* teel_addhistory: also forgets where the user was browsing.
teel_addhistory(h, line) ==
  LET g == [h EXCEPT !.idx = 0] IN IF line = <<>> THEN g ELSE tl_history_addhistory(g, line)

(* ---------------------------------------------------------------------- *)
(* The user's view                                                         *)
(* ---------------------------------------------------------------------- *)

View(u, txt, cur) == [u EXCEPT !.txt = txt, !.cur = cur]
Inserted(u, buf) == View(u, Front_(u.txt, u.cur) \o buf \o From(u.txt, u.cur), u.cur + Len(buf))
Deleted(u, a, z) == View(u, Front_(u.txt, a) \o From(u.txt, z), a)
\* Overwriting replaces characters, but a line break is pushed on.
Overwritten(u, buf) ==
  LET RECURSIVE O(_, _)
      O(x, b) == IF b = <<>> THEN x
                 ELSE LET room == x.cur < Len(x.txt) /\ x.txt[x.cur + 1] # NL /\ b[1] # NL
                          y == Inserted(x, <<b[1]>>)
                      IN O(IF room THEN Deleted(y, y.cur, y.cur + 1) ELSE y, From(b, 1))
  IN O(u, buf)

\* The end of the word after the cursor, the start of the word before it (the
\* first character of the text is taken for a part of the word after it).
WordEnd(u) ==
  LET k == {j \in u.cur + 1..Len(u.txt) :
              u.txt[j] \notin Stops /\ (j < Len(u.txt) => u.txt[j + 1] \in Stops)}
  IN IF k = {} THEN Len(u.txt) ELSE CHOOSE j \in k : \A i \in k : j <= i
WordStart(u) ==
  LET k == {j \in 2..u.cur - 1 : u.txt[j + 1] \notin Stops /\ u.txt[j] \in Stops}
  IN IF k = {} THEN 0 ELSE CHOOSE j \in k : \A i \in k : i <= j

(* ---------------------------------------------------------------------- *)
(* Actions of the keys, on S = [ed, ti, ref, win]                          *)
(* ---------------------------------------------------------------------- *)

Editor(S, e, u) == [S EXCEPT !.ed = e, !.ref = u]

\* Windows: keys after which the rows no longer hold the text.
\* Overwriting up to the end of a row swallows the break it ended with.
OverBreak(e, buf) ==
  /\ e.editmode = 1
  /\ \E r \in Row(e, e.cursorpos)..Row(e, e.cursorpos + Len(buf)) - 1 : Breaks(e, r) /\ r < Len(e.lines) - 1
\* A prompt shown before what was typed ahead moves the cursor by its length
\* even when it is on another line, and overwrites in overwrite mode.
TypedAhead(S) ==
  /\ S.ed.userstartpos < Len(Prompt)
  /\ S.ref.txt # <<>>
  /\ \/ S.ed.editmode = 1
     \/ NL \in ToSet(Front_(S.ref.txt, S.ref.cur))
\* A line that exactly fills rows of the new width loses its break, or the row
\* after it when it is the last one.
ExactLine(e, w) ==
  LET t == <<NL>> \o copyline(e, 0, lastcharpos(e)) \o <<NL>>
      nl == {i \in DOMAIN t : t[i] = NL}
  IN \E i, j \in nl : i + 1 < j /\ (\A k \in nl : k <= i \/ j <= k) /\ (j - i - 1) % w = 0
\* A move back that ends one character before a full row counts that row one
\* character too long: it ends past the break it should have stopped at.
PastBreak(e, nb) ==
  LET to == positionfromoffset(e, e.cursorpos, nb).to
  IN nb < 0 /\ to >= e.userstartpos /\ Col(e, to) > Len(Line(e, Row(e, to)))
\* Several characters deleted at once, on more than one row, take characters
\* after them along.
SpansRows(e, nb) ==
  LET to == Greater(positionfromoffset(e, e.cursorpos, nb).to, e.userstartpos)
  IN nb \notin -1..1 /\ Row(e, to) # Row(e, e.cursorpos)
Window(S, name, cond) == IF cond THEN [S EXCEPT !.win = @ \cup {name}] ELSE S

Types(S, buf) ==
  Editor(Window(S, "over a break", OverBreak(S.ed, buf)),
         tl_editor_insertchars(S.ed, buf),
         IF S.ed.editmode = 0 THEN Inserted(S.ref, buf) ELSE Overwritten(S.ref, buf))

Deletes(S, nb, a, z) ==
  IF SpansRows(S.ed, nb) \/ PastBreak(S.ed, nb) THEN Window(S, "deletion", TRUE)
  ELSE Editor(S, tl_editor_deletechars(S.ed, nb), Deleted(S.ref, a, z))
Moves(S, from, nb, cur) ==
  Editor(Window(S, "past a break", PastBreak(S.ed, nb)),
         tl_editor_movecursor(S.ed, from, nb), View(S.ref, S.ref.txt, cur))

\* editdone, ip and susp: the line is kept for teel_getline, the area cleared.
saveandclear(S) ==
  [Editor(S, tl_editor_cleareditingarea(S.ed), View(S.ref, <<>>, 0))
     EXCEPT !.ti.prev = tl_editor_getline(S.ed), !.ti.state = "EDITLINE_DONE"]

tl_act_historypreventry(S0) ==
  LET S == [S0 EXCEPT !.ti.state = "HISTORY_BROWSE"]
      pos == S.ti.idx + 1
      e == tl_history_getentry(S.ti, pos)
      K == IF pos = 1 THEN [S EXCEPT !.ti.curline = tl_editor_getline(S.ed),
                                     !.ti.curpos = offsetfromposition(S.ed, S.ed.userstartpos, S.ed.cursorpos, 1),
                                     !.ref.saved = <<S.ref.txt, S.ref.cur>>] ELSE S
  IN IF e = None THEN S
     ELSE [Editor(K, tl_editor_seteditcontent(K.ed, e), View(K.ref, K.ref.recent[pos], Len(e))) EXCEPT !.ti.idx = pos]

\* Below the newest line is the line that was being edited.
NextEntry(S, pos, line, e) ==
  IF pos = 0
    THEN [Editor(S, tl_editor_movecursor(e, e.userstartpos, S.ti.curpos), View(S.ref, S.ref.saved[1], S.ref.saved[2]))
            EXCEPT !.ti.idx = 0, !.ti.curline = None, !.ti.curpos = 0]
    ELSE [Editor(S, e, View(S.ref, S.ref.recent[pos], Len(line))) EXCEPT !.ti.idx = pos]

tl_act_historynextentry(S0) ==
  LET S == [S0 EXCEPT !.ti.state = "HISTORY_BROWSE"]
      pos == S.ti.idx - 1
      line == IF pos = 0 THEN S.ti.curline ELSE tl_history_getentry(S.ti, pos)
  IN IF pos < 0 THEN S ELSE NextEntry(S, pos, line, tl_editor_seteditcontent(S.ed, line))

\* The part of a word that is not typed yet.
completeline(S, word) ==
  LET u == S.ref
      o == {k \in 0..Lesser(Len(word), u.cur) : SubSeq(u.txt, u.cur - k + 1, u.cur) = Front_(word, k)}
  IN Types(S, From(word, CHOOSE k \in o : \A j \in o : j <= k))

CommonPrefix(tab) ==
  LET k == {n \in 0..Len(tab[1]) : \A i \in DOMAIN tab : Len(tab[i]) >= n /\ Front_(tab[i], n) = Front_(tab[1], n)}
  IN Front_(tab[1], CHOOSE n \in k : \A j \in k : j <= n)

tl_act_autocomplete(S, tab) ==
  CASE tab = <<>> -> S
    [] tab # <<>> /\ (Len(tab) = 1 \/ S.ti.acs) -> completeline(S, tab[1])
    [] OTHER -> [completeline(S, CommonPrefix(tab)) EXCEPT !.ti.state = "COMPLETION_DISP", !.ti.acs = TRUE]

\* The action of a key; tab is what the completion callback answers.
Act(S, act, tab) ==
  LET u == S.ref  e == S.ed  n == Len(u.txt)
      pw == tl_editor_offsetuntilchars(e, -1)
      nw == tl_editor_offsetuntilchars(e, 1)
  IN CASE act = "backspace" -> Deletes(S, -1, Greater(u.cur - 1, 0), u.cur)
       [] act = "delete" -> Deletes(S, 1, u.cur, Lesser(u.cur + 1, n))
       [] act = "deleteprevword" -> Deletes(S, pw, WordStart(u), u.cur)
       [] act = "deletenextword" -> Deletes(S, nw, u.cur, WordEnd(u))
       [] act = "linebreak" -> Types(S, <<NL>>)
       [] act = "moveleft" -> Moves(S, e.cursorpos, -1, Greater(u.cur - 1, 0))
       [] act = "moveright" -> Moves(S, e.cursorpos, 1, Lesser(u.cur + 1, n))
       [] act = "movetoprevword" -> Moves(S, e.cursorpos, pw, WordStart(u))
       [] act = "movetonextword" -> Moves(S, e.cursorpos, nw, WordEnd(u))
       [] act = "movetostartpos" -> Moves(S, e.userstartpos, 0, 0)
       [] act = "movetoendpos" -> Moves(S, lastcharpos(e), 0, n)
       [] act = "overwriteinserttoggle" -> [S EXCEPT !.ed.editmode = 1 - @]
       [] act \in {"editdone", "ip", "susp"} -> saveandclear(S)
       [] act \in {"eof", "debugF12"} -> S
       [] act = "historypreventry" -> tl_act_historypreventry(S)
       [] act = "historynextentry" -> tl_act_historynextentry(S)
       [] act = "autocomplete" -> tl_act_autocomplete(S, tab)

\* Leaving a state drops what belongs to it.
tl_statechanged(t, last) ==
  CASE t.state = last -> t
    [] last = "EDITLINE_DONE" -> [t EXCEPT !.prev = None]
    [] last = "HISTORY_BROWSE" -> tl_history_resetcontext(t)
    [] last = "COMPLETION_DISP" -> [t EXCEPT !.acs = FALSE]
    [] OTHER -> t

(* ---------------------------------------------------------------------- *)
(* Key sequences                                                           *)
(* ---------------------------------------------------------------------- *)

Key(seq, act) == [seq |-> seq, act |-> act]

\* The key sequences, in the order compareksa sorts them in.
defaultksa ==
  << Key(<<1>>, "movetostartpos"), Key(<<3>>, "ip"), Key(<<4>>, "eof"), Key(<<5>>, "movetoendpos"),
     Key(<<8>>, "backspace"), Key(<<9>>, "autocomplete"), Key(<<10>>, "editdone"),
     Key(<<13, 0>>, "editdone"), Key(<<13, 10>>, "editdone"), Key(<<26>>, "susp"),
     Key(<<27, 10>>, "linebreak"), Key(<<27, 13, 0>>, "linebreak"),
     Key(<<27, 27, 91, 51, 126>>, "deletenextword"), Key(<<27, 27, 91, 67>>, "movetonextword"),
     Key(<<27, 27, 91, 68>>, "movetoprevword"), Key(<<27, 79, 70>>, "movetoendpos"),
     Key(<<27, 79, 72>>, "movetostartpos"), Key(<<27, 91, 49, 59, 51, 67>>, "movetonextword"),
     Key(<<27, 91, 49, 59, 51, 68>>, "movetoprevword"), Key(<<27, 91, 49, 126>>, "movetostartpos"),
     Key(<<27, 91, 50, 52, 126>>, "debugF12"), Key(<<27, 91, 50, 126>>, "overwriteinserttoggle"),
     Key(<<27, 91, 51, 59, 51, 126>>, "deletenextword"), Key(<<27, 91, 51, 126>>, "delete"),
     Key(<<27, 91, 52, 126>>, "movetoendpos"), Key(<<27, 91, 55, 126>>, "movetostartpos"),
     Key(<<27, 91, 56, 126>>, "movetoendpos"), Key(<<27, 91, 65>>, "historypreventry"),
     Key(<<27, 91, 66>>, "historynextentry"), Key(<<27, 91, 67>>, "moveright"),
     Key(<<27, 91, 68>>, "moveleft"), Key(<<27, 91, 70>>, "movetoendpos"),
     Key(<<27, 91, 72>>, "movetostartpos"), Key(<<27, 127>>, "deleteprevword"), Key(<<127>>, "backspace") >>

\* The search goes down the sorted sequences from the one that matched so far
\* and compares the last byte only: [found, curr], found is 0, 1 or 2.
RECURSIVE Search(_, _, _)
Search(curr, pos, byte) ==
  IF curr = 0 THEN [found |-> 0, curr |-> 0]
  ELSE LET seq == defaultksa[curr].seq
           v == IF pos < Len(seq) THEN seq[pos + 1] ELSE 0
       IN CASE pos > Len(seq) \/ byte < v -> Search(curr - 1, pos, byte)
            [] byte > v -> [found |-> 0, curr |-> 0]
            [] OTHER -> [found |-> IF pos = Len(seq) - 1 THEN 2 ELSE 1, curr |-> curr]

\* teel_run on one byte.
OnByte(S, byte, tab, f) ==
  LET t == S.ti
      reset == [S EXCEPT !.ti.temp = <<>>, !.ti.currseq = Len(defaultksa), !.ti.state = "CHARACTER_INPUT"]
  IN IF f.found = 1 THEN [S EXCEPT !.ti.temp = Append(@, byte), !.ti.currseq = f.curr]
     ELSE [IF f.found = 2 THEN Act(reset, defaultksa[f.curr].act, tab) ELSE Types(reset, Append(t.temp, byte))
             EXCEPT !.ti = tl_statechanged(@, t.state)]
Byte(S, byte, tab) == OnByte(S, byte, tab, Search(S.ti.currseq, Len(S.ti.temp), byte))

teel_run(S0, bytes, tab) == FoldLeft(LAMBDA S, byte : Byte(S, byte, tab), S0, bytes)

(* ---------------------------------------------------------------------- *)
(* The specification                                                       *)
(* ---------------------------------------------------------------------- *)

Recent(lines, line) ==
  IF line = <<>> \/ (lines # <<>> /\ lines[1] = line) THEN lines
  ELSE SubSeq(<<line>> \o lines, 1, Lesser(HistorySize, Len(lines) + 1))

teel_initialize ==
  LET h == [list |-> [i \in 0..HistorySize - 1 |-> None], widx |-> 0, idx |-> 0, curline |-> None, curpos |-> 0,
            temp |-> <<>>, currseq |-> Len(defaultksa), state |-> "CHARACTER_INPUT", prev |-> None, acs |-> FALSE]
  IN FoldLeft(teel_addhistory, h, Lines)

Init ==
  /\ \E w \in Widths : ed = tl_editor_writeprompt(tl_editor_init(w), Prompt)
  /\ ti = teel_initialize
  /\ ref = [txt |-> <<>>, cur |-> 0, saved |-> <<>>, recent |-> FoldLeft(Recent, <<>>, Lines)]
  /\ hist = [n |-> 0, win |-> {}]

\* What follows a window depends on bytes past the end of a row: it is not modelled.
Steps == hist.n < MaxInputs /\ hist.win = {} /\ ~ed.spare
Becomes(S) ==
  /\ ed' = S.ed /\ ti' = S.ti /\ ref' = S.ref
  /\ hist' = [n |-> hist.n + 1, win |-> S.win]
Now == [ed |-> ed, ti |-> ti, ref |-> ref, win |-> hist.win]

Input(bytes, tab) == Steps /\ Becomes(teel_run(Now, bytes, tab))
ShowPrompt == Steps /\ Becomes([Window(Now, "typed ahead", TypedAhead(Now)) EXCEPT !.ed = tl_editor_writeprompt(@, Prompt)])
AddHistory(line) ==
  Steps /\ Becomes([Now EXCEPT !.ti = teel_addhistory(@, line), !.ref.recent = Recent(@, line)])
Resize(w) == Steps /\ Becomes([Window(Now, "exact line", ExactLine(ed, w)) EXCEPT !.ed = tl_editor_setdisplaysize(@, w)])

Next ==
  \/ \E b \in Inputs, tab \in Proposals : Input(b, tab)
  \/ ShowPrompt
  \/ \E l \in ToSet(Lines) : AddHistory(l)
  \/ \E w \in Widths : Resize(w)

Spec == Init /\ [][Next]_vars

(* ---------------------------------------------------------------------- *)
(* Properties                                                              *)
(* ---------------------------------------------------------------------- *)

\* The rows hold the text the keys make, the cursor is where the keys put it,
\* and the history gives back the latest lines, newest first.  This is what
\* editor.c is for: insertion pushes characters from row to row, deletion pulls
\* them back, a resize lays the text out again, and the line handed to the
\* shell is read back from the rows.  The windows are the exceptions.
EditIsText ==
  hist.win = {} /\ ~ed.spare =>
    /\ tl_editor_getline(ed) = ref.txt
    /\ offsetfromposition(ed, ed.userstartpos, ed.cursorpos, 1) = ref.cur
    /\ \A pos \in 1..HistorySize :
         tl_history_getentry(ti, pos) = IF pos <= Len(ref.recent) THEN ref.recent[pos] ELSE None
==============================================================================
