-------------------------------- MODULE Sms ----------------------------------
(***************************************************************************)
(* SMS: the PDU codec (luafwk/messaging/smspdu.c) and the reassembly of    *)
(* long messages (messaging.lua).  A message of more than 140 bytes is cut *)
(* in parts that carry a common random reference; the parts of several     *)
(* messages reach a device in any order and may be delivered again, since  *)
(* the modem keeps an SMS until it is deleted.                             *)
(*                                                                         *)
(* A PDU is the sequence of its hexadecimal digits, as the AT commands     *)
(* carry it, each digit as a number.  The network, which turns the PDU a   *)
(* device submits into the one another receives, and the telephones that   *)
(* send text in the 7-bit alphabet are external.                           *)
(***************************************************************************)
EXTENDS Integers, Sequences, FiniteSets, SequencesExt

CONSTANTS Binary,    \* what devices send: [address, from, message] of bytes
          Texts,     \* what telephones send: [from, header, text, dcs]
          Refs,      \* the pairs of random bytes drawn as references
          MaxSends,  \* messages sent
          MaxDups    \* PDUs delivered twice

VARIABLES net,        \* DELIVER PDUs in transit: [pdu, id, seq, of]
          concatsms,  \* [ref -> [seqnb -> message]] of incomplete messages
          got,        \* the messages signalled: [address, message, ports]
          hist        \* [sent, parts, owner, n, dups, clash]

vars == <<net, concatsms, got, hist>>

NPC8 == 63
SMS_MAX == 140

(* ---------------------------------------------------------------------- *)
(* Digits, bytes and septets; positions are counted from 0                 *)
(* ---------------------------------------------------------------------- *)

readbyte(p, pos) == 16 * p[2 * pos + 1] + p[2 * pos + 2]

writebyte(v) == <<(v \div 16) % 16, v % 16>>

hextobin(p, pos, len) == [k \in 1..len |-> readbyte(p, pos + k - 1)]

bintohex(bytes) == [k \in 1..2 * Len(bytes) |-> writebyte(bytes[(k + 1) \div 2])[2 - (k % 2)]]

\* The septet at a bit position; it may straddle two bytes.
read7bits(p, bit) ==
  LET s == bit % 8
      a == readbyte(p, bit \div 8) \div 2 ^ s
      b == IF s > 1 THEN readbyte(p, bit \div 8 + 1) * 2 ^ (8 - s) ELSE 0
  IN (a + b) % 128

\* p holds the bytes before the one of the bit position, and that one when
\* the position is inside it.
write7bits(p, val, bit) ==
  LET s == bit % 8
      k == bit \div 8
      old == readbyte(p, k)
  IN CASE s = 0 -> p \o writebyte(val)
       [] s = 1 -> SubSeq(p, 1, 2 * k) \o writebyte(old + 2 * val)
       [] OTHER -> SubSeq(p, 1, 2 * k) \o writebyte((old + val * 2 ^ s) % 256)
                     \o writebyte(val \div 2 ^ (8 - s))

\* ISO characters 0 to 127 in the 7-bit alphabet; plus 128: after an escape.
lookup_low ==
  <<63, 63, 63, 63, 63, 63, 63, 63, 63, 63, 10, 63, 138, 13, 63, 63, 63, 63,
    63, 63, 63, 63, 63, 63, 63, 63, 63, 63, 63, 63, 63, 63, 32, 33, 34, 35,
    2, 37, 38, 39, 40, 41, 42, 43, 44, 45, 46, 47, 48, 49, 50, 51, 52, 53,
    54, 55, 56, 57, 58, 59, 60, 61, 62, 63, 0, 65, 66, 67, 68, 69, 70, 71,
    72, 73, 74, 75, 76, 77, 78, 79, 80, 81, 82, 83, 84, 85, 86, 87, 88, 89,
    90, 188, 175, 190, 148, 17, 217, 97, 98, 99, 100, 101, 102, 103, 104,
    105, 106, 107, 108, 109, 110, 111, 112, 113, 114, 115, 116, 117, 118,
    119, 120, 121, 122, 168, 192, 169, 189, 63>>

\* ISO characters 128 to 255.
lookup_high ==
  <<63, 63, 39, 102, 34, 63, 63, 63, 63, 63, 83, 39, 214, 63, 63, 63, 63, 39,
    39, 34, 34, 42, 45, 45, 39, 63, 115, 39, 111, 63, 63, 89, 32, 64, 99, 1,
    36, 3, 33, 95, 34, 63, 63, 60, 63, 45, 63, 63, 63, 63, 50, 51, 39, 117,
    63, 63, 63, 49, 63, 62, 63, 63, 63, 96, 65, 65, 65, 65, 91, 14, 28, 9,
    31, 31, 31, 31, 73, 73, 73, 73, 68, 93, 79, 79, 79, 79, 92, 42, 11, 85,
    85, 85, 94, 89, 63, 30, 127, 97, 97, 97, 123, 15, 29, 9, 4, 5, 101, 101,
    7, 7, 105, 105, 63, 125, 8, 111, 111, 111, 24, 47, 12, 6, 117, 117, 126,
    121, 63, 121>>

lookup_ascii8to7 == lookup_low \o lookup_high

\* The 7-bit alphabet in ISO characters.
lookup_ascii7to8 ==
  <<64, 163, 36, 165, 232, 233, 249, 236, 242, 199, 10, 216, 248, 13, 197, 229,
    63, 95, 63, 63, 63, 63, 63, 63, 63, 63, 63, 27, 198, 230, 223, 201, 32,
    33, 34, 35, 164, 37, 38, 39, 40, 41, 42, 43, 44, 45, 46, 47, 48, 49, 50,
    51, 52, 53, 54, 55, 56, 57, 58, 59, 60, 61, 62, 63, 161, 65, 66, 67, 68,
    69, 70, 71, 72, 73, 74, 75, 76, 77, 78, 79, 80, 81, 82, 83, 84, 85, 86,
    87, 88, 89, 90, 196, 214, 209, 220, 167, 191, 97, 98, 99, 100, 101, 102,
    103, 104, 105, 106, 107, 108, 109, 110, 111, 112, 113, 114, 115, 116,
    117, 118, 119, 120, 121, 122, 228, 246, 241, 252, 224>>

\* The character after an escape.  The code is looked up in the table first,
\* so 20 and 64, the circumflex and the bar, are no longer themselves.
Escaped(code) ==
  LET c == lookup_ascii7to8[code + 1]
  IN CASE c = 10 -> 12 [] c = 20 -> 94 [] c = 40 -> 123 [] c = 41 -> 125 [] c = 47 -> 92
       [] c = 60 -> 91 [] c = 61 -> 126 [] c = 62 -> 93 [] c = 64 -> 124 [] OTHER -> NPC8

\* The text of the septets pos to pos + length - 1.
convert_7bit_to_ascii(p, pos, length) ==
  LET code(r) == read7bits(p, 7 * r)
      f[r \in pos..pos + length + 1] ==
        CASE r >= pos + length -> <<>>
          [] lookup_ascii7to8[code(r) + 1] # 27 -> <<lookup_ascii7to8[code(r) + 1]>> \o f[r + 1]
          [] OTHER -> <<Escaped(code(r + 1))>> \o f[r + 2]
  IN f[pos]

\* The septets of a text.
Septets(text) ==
  FlattenSeq([k \in DOMAIN text |->
    LET c == lookup_ascii8to7[text[k] + 1] IN IF c < 128 THEN <<c>> ELSE <<27, c - 128>>])

\* Writes the septets of a text from the septet w on.
convert_ascii_to_7bit(p, text, w) ==
  LET s == Septets(text)
  IN FoldLeft(LAMBDA q, k: write7bits(q, s[k], 7 * (w + k - 1)), p, [k \in DOMAIN s |-> k])

(* ---------------------------------------------------------------------- *)
(* Decoding                                                                *)
(* ---------------------------------------------------------------------- *)

\* Digits are swapped two by two.
Digits(p, n) == [i \in 1..n |-> p[IF i % 2 = 1 THEN i + 1 ELSE i - 1]]

\* A number is the sequence of its digits, "+" before an international one.
Address(toa, p, n) ==
  CASE (toa \div 16) % 8 = 5 -> [kind |-> "name", val |-> convert_7bit_to_ascii(p, 0, (4 * n) \div 7)]
    [] (toa \div 16) % 8 = 1 -> [kind |-> "+", val |-> Digits(p, n)]
    [] OTHER -> [kind |-> "", val |-> Digits(p, n)]

Word(p, pos) == 256 * readbyte(p, pos) + readbyte(p, pos + 1)

NoHeader == [ref |-> 0, maxnb |-> 1, seqnb |-> 1, ports |-> <<>>]

\* The information elements of a user data header, c bytes of them left.
Element(p, id, pos, h) ==
  CASE id = 0 -> [h EXCEPT !.ref = readbyte(p, pos), !.maxnb = readbyte(p, pos + 1), !.seqnb = readbyte(p, pos + 2)]
    [] id = 8 -> [h EXCEPT !.ref = Word(p, pos), !.maxnb = readbyte(p, pos + 2), !.seqnb = readbyte(p, pos + 3)]
    [] id = 4 -> [h EXCEPT !.ports = <<readbyte(p, pos), readbyte(p, pos + 1)>>]
    [] id = 5 -> [h EXCEPT !.ports = <<Word(p, pos), Word(p, pos + 2)>>]
    [] OTHER -> h

Elements(p, from, length) ==
  LET f[at \in Nat, c \in Int] ==
        IF c <= 0 THEN NoHeader
        ELSE LET l == readbyte(p, at + 1)
             IN Element(p, readbyte(p, at), at + 2, f[at + 2 + l, c - l - 2])
  IN f[from, length]

Undecoded(n) == [error |-> n]

\* 0: 7 bits, 1: 8 bits, negative: not supported.
Encoding(dcs) ==
  CASE dcs \div 64 = 0 -> IF (dcs \div 4) % 4 \in {0, 1} THEN (dcs \div 4) % 4 ELSE -2
    [] dcs \div 16 = 15 -> (dcs \div 4) % 2
    [] OTHER -> -1

Received(address, h, message) ==
  [error |-> 0, address |-> address, message |-> message,
   ref |-> h.ref, maxnb |-> h.maxnb, seqnb |-> h.seqnb, ports |-> h.ports]

\* The user data u of udl septets or bytes, a header of udhl bytes first
\* when there is one.
UserData(u, udhi, udhl, udl, encoding, address) ==
  LET hdr == IF udhl > 0 THEN udhl + 1 ELSE 0
      n7 == (7 * udl - 8 * hdr) \div 7
  IN CASE encoding < 0 -> Undecoded(encoding)
       [] encoding = 0 /\ n7 <= 0 -> Undecoded(-11)
       [] OTHER -> Received(address, Elements(u, 1, udhl),
                            IF encoding = 1 THEN hextobin(u, IF udhi THEN 1 + udhl ELSE 0, udl - hdr)
                            ELSE convert_7bit_to_ascii(u, (8 * hdr + 6) \div 7, n7))

\* s is where the first byte of the message is, a where its address ends.
AfterAddress(p, s, a) ==
  LET udhi == (readbyte(p, s) \div 64) % 2 = 1
      u == SubSeq(p, 2 * (a + 10) + 1, Len(p))
      sender == SubSeq(p, 2 * (s + 3) + 1, 2 * a)
  IN UserData(u, udhi, IF udhi THEN readbyte(u, 0) ELSE 0, readbyte(p, a + 9), Encoding(readbyte(p, a + 1)),
              Address(readbyte(p, s + 2), sender, readbyte(p, s + 1)))
AfterSmsc(p, s) == AfterAddress(p, s, s + 3 + (readbyte(p, s + 1) + 1) \div 2)
decode_smspdu(p) == AfterSmsc(p, 1 + readbyte(p, 0))

(* ---------------------------------------------------------------------- *)
(* Encoding                                                                *)
(* ---------------------------------------------------------------------- *)

\* A number of an odd length is completed with an F.
Number(a) == LET d == IF Len(a.val) % 2 = 1 THEN Append(a.val, 15) ELSE a.val IN Digits(d, Len(d))

MaxPart(message) == IF Len(message) > SMS_MAX THEN SMS_MAX - 7 ELSE SMS_MAX

Parts(message) ==
  IF Len(message) > SMS_MAX THEN (Len(message) + MaxPart(message) - 1) \div MaxPart(message) ELSE 1

Lesser(a, b) == IF a < b THEN a ELSE b

\* Mutant of UserHeader: the parts are numbered from zero.
HeaderFromZero(n, nb, ref) == IF nb > 1 THEN <<6, 8, 4, ref[1], ref[2], nb, n - 1>> ELSE <<>>

UserHeader(n, nb, ref) == IF nb > 1 THEN <<6, 8, 4, ref[1], ref[2], nb, n>> ELSE <<>>

\* The SUBMIT PDUs of a message, or none.
encode_smspdu(message, address, ref) ==
  LET max == MaxPart(message)
      nb == Parts(message)
      part(n) == SubSeq(message, (n - 1) * max + 1, Lesser(n * max, Len(message)))
      pdu(n) == bintohex(<<0, IF nb > 1 THEN 81 ELSE 17, 0, Len(address.val),
                           IF address.kind = "+" THEN 145 ELSE 129>>) \o Number(address)
                \o bintohex(<<0, 4, 173, Len(part(n)) + (IF nb > 1 THEN 7 ELSE 0)>>
                            \o UserHeader(n, nb, ref) \o part(n))
  IN IF Len(message) > 255 * 133 \/ Len(address.val) + Len(address.kind) > 20 THEN <<>>
     ELSE [n \in 1..nb |-> pdu(n)]

(* ---------------------------------------------------------------------- *)
(* The network and the telephones                                          *)
(* ---------------------------------------------------------------------- *)

Smsc == bintohex(<<2, 145, 51>>)
TimeStamp == bintohex(<<9, 9, 9, 9, 9, 9, 9>>)

Origin(from) ==
  CASE from.kind = "name" ->
         bintohex(<<(7 * Len(Septets(from.val)) + 3) \div 4, 208>>) \o convert_ascii_to_7bit(<<>>, from.val, 0)
    [] OTHER -> bintohex(<<Len(from.val), IF from.kind = "+" THEN 145 ELSE 129>>) \o Number(from)

\* The DELIVER PDU of a SUBMIT PDU: the sender for the recipient, a time
\* stamp for the validity.
Delivered(p, from) ==
  LET a == 5 + (readbyte(p, 3) + 1) \div 2
      udhi == (readbyte(p, 1) \div 64) % 2
  IN Smsc \o bintohex(<<4 + 64 * udhi>>) \o Origin(from) \o SubSeq(p, 2 * a + 1, 2 * a + 4)
       \o TimeStamp \o SubSeq(p, 2 * a + 7, Len(p))

\* The DELIVER PDU of a text, with a header of its own.
TextPdu(t) ==
  LET hdr == IF t.header = <<>> THEN <<>> ELSE <<Len(t.header)>> \o t.header
      w == (8 * Len(hdr) + 6) \div 7
      fill == IF (7 * w) % 8 # 0 THEN <<0>> ELSE <<>>
  IN Smsc \o bintohex(<<IF hdr = <<>> THEN 4 ELSE 68>>) \o Origin(t.from) \o bintohex(<<0, t.dcs>>)
       \o TimeStamp \o bintohex(<<w + Len(Septets(t.text))>>)
       \o convert_ascii_to_7bit(bintohex(hdr \o fill), t.text, w)

(* ---------------------------------------------------------------------- *)
(* Messages                                                                *)
(* ---------------------------------------------------------------------- *)

None == <<>>
KeyOf(ref) == 256 * ref[1] + ref[2]

Init ==
  /\ net = {} /\ got = {}
  /\ concatsms = [r \in {KeyOf(ref) : ref \in Refs} |-> None]
  /\ hist = [sent |-> {}, parts |-> {}, owner |-> [r \in DOMAIN concatsms |-> {}],
             n |-> 0, dups |-> 0, clash |-> FALSE]

\* encodePdu: one PDU for each part.
l_encodePdu(b, ref) == encode_smspdu(b.message, b.address, ref)

\* sendSMS: the parts leave in order, until all have left or sendSMSPDU fails;
\* those that have left stay in the network.
sendSMS(b, ref) ==
  LET id == hist.n + 1
  IN /\ hist.n < MaxSends
     /\ \E pdus \in {l_encodePdu(b, ref)} :
          LET what == [id |-> id, address |-> b.from, message |-> b.message, ports |-> <<>>, nb |-> Len(pdus), text |-> FALSE]
          IN \E left \in 0..Len(pdus) :
               /\ net' = net \cup {[pdu |-> Delivered(pdus[k], b.from), id |-> id, seq |-> k] : k \in 1..left}
               /\ hist' = [hist EXCEPT !.n = id, !.sent = IF left = 0 THEN @ ELSE @ \cup {what}]
     /\ UNCHANGED <<concatsms, got>>

SendText(t) ==
  LET id == hist.n + 1
      what == [id |-> id, address |-> t.from, message |-> t.text,
               ports |-> IF t.header # <<>> /\ t.header[1] = 5 THEN <<2948, 2948>> ELSE <<>>, nb |-> 1, text |-> TRUE]
  IN /\ hist.n < MaxSends
     /\ net' = net \cup {[pdu |-> TextPdu(t), id |-> id, seq |-> 1]}
     /\ hist' = [hist EXCEPT !.n = id,
                             !.sent = IF t.text # <<>> /\ t.dcs = 0 THEN @ \cup {what} ELSE @]
     /\ UNCHANGED <<concatsms, got>>

Message(sms, body) == [address |-> sms.address, message |-> body, ports |-> sms.ports]

\* Part seqnb of a long message: all the parts there are, from the first to
\* the last one present, make the message once none is missing.
add_concat_sms(sms) ==
  LET old == concatsms[sms.ref]
      t == [k \in DOMAIN old \cup {sms.seqnb} |-> IF k = sms.seqnb THEN sms.message ELSE old[k]]
      top == CHOOSE k \in DOMAIN t : k + 1 \notin DOMAIN t /\ 1..k \subseteq DOMAIN t
  IN IF 1..sms.maxnb \subseteq DOMAIN t
       THEN /\ concatsms' = [concatsms EXCEPT ![sms.ref] = None]
            /\ got' = got \cup {Message(sms, FlattenSeq([k \in 1..top |-> t[k]]))}
       ELSE /\ concatsms' = [concatsms EXCEPT ![sms.ref] = t]
            /\ UNCHANGED got

\* A PDU is received; the modem may keep it and deliver it again.
Signalled(d, sms, again) ==
  LET long == sms.error = 0 /\ sms.maxnb > 1
      held == IF long /\ concatsms[sms.ref] # None THEN hist.owner[sms.ref] ELSE {}
  IN /\ CASE sms.error # 0 -> UNCHANGED <<concatsms, got>>
          [] long -> add_concat_sms(sms)
          [] OTHER -> got' = got \cup {Message(sms, sms.message)} /\ UNCHANGED concatsms
     /\ hist' = [hist EXCEPT !.dups = IF again THEN @ + 1 ELSE @, !.parts = @ \cup {<<d.id, d.seq>>},
                             !.owner = IF long THEN [@ EXCEPT ![sms.ref] = held \cup {d.id}] ELSE @,
                             !.clash = @ \/ held \ {d.id} # {}]

new_sms_pdu(d, again) ==
  /\ d \in net
  /\ again => hist.dups < MaxDups
  /\ net' = IF again THEN net ELSE net \ {d}
  /\ \E sms \in {decode_smspdu(d.pdu)} : Signalled(d, sms, again)

Next ==
  \/ \E b \in Binary, ref \in Refs : sendSMS(b, ref)
  \/ \E t \in Texts : SendText(t)
  \/ \E d \in net, again \in BOOLEAN : new_sms_pdu(d, again)

Spec == Init /\ [][Next]_vars

(* ---------------------------------------------------------------------- *)
(* Property                                                                *)
(* ---------------------------------------------------------------------- *)

\* The circumflex and the bar, which the decoder takes for unknown escapes:
\* smspdu.c means to read them ("must be handled separately after the table
\* lookup"), and converts the second septet before it compares it.
Unknown == {94, 124}

\* What was signalled, m, is the message s: its text, its sender, its ports.
Same(s, m) ==
  /\ m.address = s.address /\ m.ports = s.ports /\ DOMAIN m.message = DOMAIN s.message
  /\ \A k \in DOMAIN s.message : m.message[k] = s.message[k] \/ (s.text /\ s.message[k] \in Unknown)

\* Whatever the order of the parts, and with parts delivered again or never
\* sent, what is signalled to the application is a whole message with its
\* sender, and a message all the parts of which have come was signalled; unless
\* parts of two messages with one reference were held together, the parts being
\* kept by the reference alone.  Of a circumflex or a bar in a text, only the
\* place is claimed.
MessageIsWhole ==
  ~hist.clash =>
    /\ \A m \in got : \E s \in hist.sent : Same(s, m)
    /\ \A s \in hist.sent :
         (\A k \in 1..s.nb : <<s.id, k>> \in hist.parts) => \E m \in got : Same(s, m)
=============================================================================
