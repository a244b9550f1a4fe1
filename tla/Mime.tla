-------------------------------- MODULE Mime --------------------------------
(***************************************************************************)
(* The filters of luasocket's mime.c: base64 and quoted-printable both     *)
(* ways, line wrapping, line ends and SMTP dot stuffing.  A filter is      *)
(* called once per chunk with what it returned as its context, and a last  *)
(* time with nil.                                                          *)
(*                                                                         *)
(* A character is its code; in base64 text the 64 digits are 0..63, Pad is *)
(* the padding character and anything above is not base64.                 *)
(***************************************************************************)
EXTENDS Integers, Sequences, SequencesExt

CONSTANTS Jobs,   \* [filter, text] to be filtered
          Gulps,  \* lengths of chunks
          length  \* of the lines wrapped

VARIABLES job, st, out

vars == <<job, st, out>>

CR == 13
LF == 10
EQ == 61
CRLF == <<CR, LF>>
EQCRLF == <<EQ, CR, LF>>
Pad == 64

-----------------------------------------------------------------------------
(* One character at a time: the context, and what is put out. *)

Ctx(c, o) == [ctx |-> c, out |-> o]

b64encode(c, atom) ==
    LET in == Append(atom, c)
        value == (65536 * in[1]) + (256 * in[2]) + in[3]
    IN  IF Len(in) < 3 THEN Ctx(in, <<>>)
        ELSE Ctx(<<>>, <<value \div 262144, (value \div 4096) % 64, (value \div 64) % 64, value % 64>>)

b64pad(atom) ==
    CASE Len(atom) = 1 -> LET v == 16 * atom[1] IN <<v \div 64, v % 64, Pad, Pad>>
      [] Len(atom) = 2 -> LET v == 4 * ((256 * atom[1]) + atom[2])
                          IN  <<v \div 4096, (v \div 64) % 64, v % 64, Pad>>
      [] OTHER -> <<>>

b64unbase(c) == IF c = Pad THEN 0 ELSE IF c < Pad THEN c ELSE 255

b64decode(c, atom) ==
    LET in == Append(atom, c)
        value == (262144 * b64unbase(in[1])) + (4096 * b64unbase(in[2]))
                 + (64 * b64unbase(in[3])) + b64unbase(in[4])
        valid == IF in[3] = Pad THEN 1 ELSE IF in[4] = Pad THEN 2 ELSE 3
    IN  IF b64unbase(c) > 64 THEN Ctx(atom, <<>>)
        ELSE IF Len(in) < 4 THEN Ctx(in, <<>>)
        ELSE Ctx(<<>>, SubSeq(<<(value \div 65536) % 256, (value \div 256) % 256, value % 256>>,
                              1, valid))

qpclass(c) ==
    IF c = CR THEN "CR" ELSE IF c \in {9, 32} THEN "IF_LAST"
    ELSE IF c \in 33..126 /\ c # EQ THEN "PLAIN" ELSE "QUOTED"

qpbase(d) == IF d < 10 THEN 48 + d ELSE 55 + d

qpunbase(c) ==
    IF c \in 48..57 THEN c - 48 ELSE IF c \in 65..70 THEN c - 55
    ELSE IF c \in 97..102 THEN c - 87 ELSE 255

qpquote(c) == <<EQ, qpbase(c \div 16), qpbase(c % 16)>>

\* Puts out what it can tell how to encode: a space needs two characters more.
RECURSIVE qpTell(_)
qpTell(in) ==
    LET more(o) == LET r == qpTell(Tail(in)) IN Ctx(r.ctx, o \o r.out) IN
    IF in = <<>> THEN Ctx(<<>>, <<>>)
    ELSE CASE qpclass(in[1]) = "CR" ->
                IF Len(in) < 2 THEN Ctx(in, <<>>)
                ELSE IF in[2] = LF THEN Ctx(<<>>, CRLF) ELSE more(qpquote(in[1]))
           [] qpclass(in[1]) = "IF_LAST" ->
                IF Len(in) < 3 THEN Ctx(in, <<>>)
                ELSE IF in[2] = CR /\ in[3] = LF THEN Ctx(<<>>, qpquote(in[1]) \o CRLF)
                ELSE more(<<in[1]>>)
           [] qpclass(in[1]) = "QUOTED" -> more(qpquote(in[1]))
           [] OTHER -> more(<<in[1]>>)

qpencode(c, atom) == qpTell(Append(atom, c))

qppad(atom) ==
    FlattenSeq([i \in DOMAIN atom |-> IF qpclass(atom[i]) = "PLAIN" THEN <<atom[i]>>
                                      ELSE qpquote(atom[i])])
    \o (IF atom # <<>> THEN EQCRLF ELSE <<>>)

\* A CR that is not followed by LF goes, and what follows it.
qpdecode(c, atom) ==
    LET in == Append(atom, c) IN
    CASE in[1] = EQ ->
           IF Len(in) < 3 THEN Ctx(in, <<>>)
           ELSE IF Tail(in) = CRLF THEN Ctx(<<>>, <<>>)
           ELSE IF qpunbase(in[2]) > 15 \/ qpunbase(in[3]) > 15 THEN Ctx(<<>>, in)
           ELSE Ctx(<<>>, <<(16 * qpunbase(in[2])) + qpunbase(in[3])>>)
      [] in[1] = CR ->
           IF Len(in) < 2 THEN Ctx(in, <<>>) ELSE Ctx(<<>>, IF in[2] = LF THEN in ELSE <<>>)
      [] OTHER -> Ctx(<<>>, IF in[1] = 9 \/ in[1] \in 32..126 THEN in ELSE <<>>)

\* The context of wrp and qpwrp is what is left of the line.
wrp(c, left) ==
    IF c = CR THEN Ctx(left, <<>>)
    ELSE IF c = LF THEN Ctx(length, CRLF)
    ELSE IF left <= 0 THEN Ctx(length - 1, CRLF \o <<c>>) ELSE Ctx(left - 1, <<c>>)

qpwrp(c, left) ==
    IF c = CR THEN Ctx(left, <<>>)
    ELSE IF c = LF THEN Ctx(length, CRLF)
    ELSE IF left <= (IF c = EQ THEN 3 ELSE 1) THEN Ctx(length - 1, EQCRLF \o <<c>>)
    ELSE Ctx(left - 1, <<c>>)

\* Mutant of eolprocess: forgets that a line end was seen.
eolforget(c, last) == IF c \in {CR, LF} THEN Ctx(0, CRLF) ELSE Ctx(0, <<c>>)

\* A pair of different line ends is one.
eolprocess(c, last) ==
    IF c \notin {CR, LF} THEN Ctx(0, <<c>>)
    ELSE IF last \in {CR, LF} THEN Ctx(0, IF c = last THEN CRLF ELSE <<>>)
    ELSE Ctx(c, CRLF)

\* A dot that starts a line is doubled; 2 after CRLF and at the start.
dot(c, state) ==
    Ctx(IF c = CR THEN 1 ELSE IF c = LF /\ state = 1 THEN 2 ELSE 0,
        IF c = 46 /\ state = 2 THEN <<46, 46>> ELSE <<c>>)

-----------------------------------------------------------------------------
(* A call per chunk, and the last one. *)

Char(f, c, ctx) ==
    CASE f = "b64" -> b64encode(c, ctx) [] f = "unb64" -> b64decode(c, ctx)
      [] f = "qp" -> qpencode(c, ctx) [] f = "unqp" -> qpdecode(c, ctx)
      [] f = "wrp" -> wrp(c, ctx) [] f = "qpwrp" -> qpwrp(c, ctx)
      [] f = "eol" -> eolprocess(c, ctx) [] OTHER -> dot(c, ctx)

\* One more character; the previous result is evaluated first.
Put(f, c, prev) ==
    CHOOSE q \in {LET r == Char(f, c, p.ctx) IN Ctx(r.ctx, p.out \o r.out) : p \in {prev}} : TRUE

Run(f, ctx, in) ==
    LET R[i \in 0..Len(in)] == IF i = 0 THEN Ctx(ctx, <<>>) ELSE Put(f, in[i], R[i - 1])
    IN  R[Len(in)]

\* What is left in the atom goes in again before the chunk: C .. D.
Carries == {"b64", "unb64", "qp", "unqp"}

Chunk(f, ctx, in) == IF f \in Carries THEN Run(f, <<>>, ctx \o in) ELSE Run(f, ctx, in)

Final(f, ctx) ==
    CASE f = "b64" -> LET r == Run(f, <<>>, ctx) IN r.out \o b64pad(r.ctx)
      [] f = "qp" -> LET r == Run(f, <<>>, ctx) IN r.out \o qppad(r.ctx)
      [] f = "wrp" -> IF ctx < length THEN CRLF ELSE <<>>
      [] f = "qpwrp" -> IF ctx < length THEN EQCRLF ELSE <<>>
      [] OTHER -> <<>>

First(f) ==
    CASE f \in Carries -> <<>> [] f \in {"wrp", "qpwrp"} -> length [] f = "dot" -> 2 [] OTHER -> 0

Whole(f, in) == LET r == Chunk(f, First(f), in) IN r.out \o Final(f, r.ctx)

Init == \E j \in Jobs : job = j /\ st = [ctx |-> First(j.filter), rest |-> j.text] /\ out = <<>>

Feed ==
    /\ st.rest # <<>>
    /\ \E n \in Gulps :
          /\ n <= Len(st.rest)
          /\ LET r == Chunk(job.filter, st.ctx, SubSeq(st.rest, 1, n)) IN
             /\ st' = [ctx |-> r.ctx, rest |-> SubSeq(st.rest, n + 1, Len(st.rest))]
             /\ out' = out \o r.out
    /\ UNCHANGED job

Next == Feed

Spec == Init /\ [][Next]_vars

-----------------------------------------------------------------------------
(* Properties. *)

Ended == out \o Final(job.filter, st.ctx)

\* The lines of a text, by their CRLF.
LinesFit(s) ==
    \A i, j \in DOMAIN s :
       i <= j /\ (\A k \in i..j : s[k] \notin {CR, LF}) => j - i < length

\* Every line end becomes CRLF.
Lines(s) == FlattenSeq([i \in DOMAIN s |-> IF s[i] \in {CR, LF} THEN CRLF ELSE <<s[i]>>])

\* However a text is cut into chunks, a filter makes of it what it makes of the
\* whole, and that is right: what is encoded decodes to the text, wrapped lines
\* fit and hold the text, line ends and dots are as they should be (b64encode to
\* dot, whose contexts carry over from call to call).
FilteredIsWhole ==
    st.rest = <<>> =>
       /\ Ended = Whole(job.filter, job.text)
       /\ job.filter = "b64" => Whole("unb64", Ended) = job.text
       /\ job.filter = "qp" => /\ Whole("unqp", Ended) = job.text
                               /\ Whole("unqp", Whole("qpwrp", Ended)) = job.text
                               /\ LinesFit(Whole("qpwrp", Ended))
       /\ job.filter = "wrp" => LinesFit(Ended)
       /\ job.filter = "eol" => /\ Whole("eol", Ended) = Ended
                                /\ {CR, LF} \subseteq Range(job.text) \/ Ended = Lines(job.text)
       /\ job.filter = "dot" =>
            \A i \in DOMAIN Ended :
               (Ended[i] = 46 /\ (i = 1 \/ (i > 2 /\ SubSeq(Ended, i - 2, i - 1) = CRLF)))
                  => i < Len(Ended) /\ Ended[i + 1] = 46
=============================================================================
