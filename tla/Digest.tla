------------------------------- MODULE Digest -------------------------------
(***************************************************************************)
(* Message digests: SHA-1 (libs/sha1/sha1.c), MD5                          *)
(* (libs/hmac-md5/md5_rfc1321/md5.c), HMAC in one call                     *)
(* (libs/hmac-md5/hmac_rfc2104/hmac-md5.c) and in pieces                   *)
(* (luafwk/crypto/hmac.c), and the Lua contexts of luafwk/crypto, of which *)
(* the ones of crypto.sha1 are MD5 contexts.                               *)
(*                                                                         *)
(* The compression function is opaque: the state of a digest is the        *)
(* sequence of the blocks it has swallowed.  A byte is a pair of a tag and *)
(* a value, so that bytes of the message, of keys, of padding, of lengths  *)
(* and of other digests are told apart.                                    *)
(***************************************************************************)
EXTENDS Integers, SequencesExt

CONSTANTS Block,      \* 64: bytes of a block
          LenB,       \* 8: bytes of the length that ends the last block
          DIGEST_LEN, \* 16
          Sizes,      \* sizes of the pieces callers feed
          MaxBytes, MaxCalls

VARIABLES ctx,  \* the context of the caller
          fed,  \* the bytes given to update since the context was made
          ans,  \* the last digest returned
          hist

vars == <<ctx, fed, ans, hist>>

Kinds == {"md5", "sha1", "hmac-md5", "hmac-sha1"}

Zeros(n) == [i \in 1..n |-> <<"zero", 0>>]

Marker == <<<<"0x80", 0>>>>

\* Encode, and the last eight octets of SHA1PadMessage: the length in bits.
Length(n) == [i \in 1..LenB |-> <<"length", <<n, i>>>>]

\* The bytes of the digest whose blocks are c; SHA-1 writes four more than MD5.
DigestBytes(h, c) ==
    [i \in 1..(DIGEST_LEN + IF h = "sha1" THEN 1 ELSE 0) |-> <<h, <<c, i>>>>]

Blank == [start |-> "none", chain |-> <<>>, buf |-> <<>>, count |-> 0,
          computed |-> FALSE, corrupted |-> FALSE]

-----------------------------------------------------------------------------
(* SHA-1: one byte at a time. *)

SHA1Reset == [Blank EXCEPT !.start = "sha1"]

SHA1ProcessMessageBlock(c) == [c EXCEPT !.chain = Append(@, c.buf), !.buf = <<>>]

\* One turn of the loop of SHA1Input.
SHA1Byte(c, x) ==
    LET d == [c EXCEPT !.buf = Append(@, x), !.count = @ + 1]
    IN  IF Len(d.buf) = Block THEN SHA1ProcessMessageBlock(d) ELSE d

SHA1Input(c, s) ==
    LET Given[i \in 0..Len(s)] == IF i = 0 THEN c ELSE SHA1Byte(Given[i - 1], s[i])
    IN  IF s = <<>> \/ c.corrupted THEN c
        ELSE IF c.computed THEN [c EXCEPT !.corrupted = TRUE]
        ELSE Given[Len(s)]

SHA1PadMessage(c) ==
    LET room == Block - LenB
        one  == [c EXCEPT !.buf = @ \o Marker \o Zeros(Block - Len(@) - 1)]
        d    == IF Len(c.buf) > room - 1
                THEN [SHA1ProcessMessageBlock(one) EXCEPT !.buf = Zeros(room)]
                ELSE [c EXCEPT !.buf = @ \o Marker \o Zeros(room - Len(@) - 1)]
    IN  SHA1ProcessMessageBlock([d EXCEPT !.buf = @ \o Length(c.count)])

\* Pads once; a corrupted context leaves the caller's buffer as it was.
SHA1Result(c) ==
    IF c.corrupted THEN [c |-> c, digest |-> [i \in 1..DIGEST_LEN |-> <<"stack", i>>]]
    ELSE LET d == IF c.computed THEN c
                  ELSE [SHA1PadMessage(c) EXCEPT !.computed = TRUE, !.count = 0, !.buf = <<>>]
         IN  [c |-> d, digest |-> DigestBytes("sha1", <<d.start, d.chain>>)]

-----------------------------------------------------------------------------
(* MD5: whole blocks straight from the input. *)

MD5Init == [Blank EXCEPT !.start = "md5"]

MD5Transform(c, b) == [c EXCEPT !.chain = Append(@, b)]

MD5Update(c, s) ==
    LET index   == c.count % Block
        partLen == Block - index
        whole   == (Len(s) - partLen) \div Block
        first   == MD5Transform(c, SubSeq(c.buf, 1, index) \o SubSeq(s, 1, partLen))
        At(i)   == partLen + (Block * i)
        next    == FoldLeft(LAMBDA d, i : MD5Transform(d, SubSeq(s, At(i - 1) + 1, At(i))),
                            first, [i \in 1..whole |-> i])
    IN  IF Len(s) >= partLen
        THEN [next EXCEPT !.count = @ + Len(s), !.buf = SubSeq(s, At(whole) + 1, Len(s))]
        ELSE [c EXCEPT !.count = @ + Len(s), !.buf = SubSeq(@, 1, index) \o s]

\* Mutant of padLen: the marker is left out when the length just fits.
PadNone(index) ==
    IF index <= Block - LenB THEN Block - LenB - index ELSE (2 * Block) - LenB - index

padLen(index) ==
    IF index < Block - LenB THEN Block - LenB - index ELSE (2 * Block) - LenB - index

\* The context is zeroed: a second digest would be of another start.
MD5Final(c) ==
    LET n == padLen(c.count % Block)
        d == MD5Update(MD5Update(c, SubSeq(Marker \o Zeros(Block), 1, n)), Length(c.count))
    IN  [c |-> Blank, digest |-> DigestBytes("md5", <<d.start, d.chain>>)]

-----------------------------------------------------------------------------
(* HMAC. *)

\* The functions a context calls: those of crypto.sha1 call the ones of MD5.
Hash(kind) == IF kind = "hmac-sha1" THEN "sha1" ELSE "md5"

h_init(h) == IF h = "md5" THEN MD5Init ELSE SHA1Reset

h_update(h, c, s) == IF h = "md5" THEN MD5Update(c, s) ELSE SHA1Input(c, s)

\* The digest is in an array of DIGEST_LEN bytes, also that of SHA-1.
h_digest(h, c) ==
    LET r == IF h = "md5" THEN MD5Final(c) ELSE SHA1Result(c)
    IN  [c |-> r.c, digest |-> SubSeq(r.digest, 1, DIGEST_LEN)]

\* The key, filled with zeros to a block and mixed with 0x36 or 0x5c.
KeyPad(pad) == [i \in 1..Block |-> <<pad, i>>]

hmac_md5(text) ==
    LET inner == MD5Final(MD5Update(MD5Update(MD5Init, KeyPad("0x36")), text)).digest
    IN  MD5Final(MD5Update(MD5Update(MD5Init, KeyPad("0x5c")), inner)).digest

api_hmac_digest(h, c) ==
    LET inner == h_digest(h, c).digest
        outer == h_update(h, h_update(h, h_init(h), KeyPad("0x5c")), inner)
    IN  h_digest(h, outer)

-----------------------------------------------------------------------------
(* The Lua contexts. *)

Step == hist.calls < MaxCalls /\ hist' = [hist EXCEPT !.calls = @ + 1]

\* crypto.md5(), crypto.sha1() and crypto.hmac(name, keyidx).
New ==
    /\ ctx = <<>> /\ Step
    /\ \E kind \in Kinds :
          LET c == h_init(Hash(kind))
          IN  ctx' = [kind |-> kind, digested |-> FALSE,
                      c |-> IF kind \in {"md5", "sha1"} THEN c
                            ELSE h_update(Hash(kind), c, KeyPad("0x36"))]
    /\ UNCHANGED <<fed, ans>>

IsHmac == ctx.kind \in {"hmac-md5", "hmac-sha1"}

\* update(data), and a piece going through filter().
Update ==
    /\ ctx # <<>> /\ Step
    /\ \E n \in Sizes :
          LET data == [i \in 1..n |-> <<"data", Len(fed) + i>>] IN
          /\ Len(fed) + n <= MaxBytes
          /\ IF IsHmac /\ ctx.digested THEN UNCHANGED <<ctx, fed>>
             ELSE /\ ctx' = [ctx EXCEPT !.c = h_update(Hash(ctx.kind), @, data)]
                  /\ fed' = fed \o data
    /\ ans' = <<>>

\* digest(): a context of hmac answers once, one of md5 or sha1 any time.
GetDigest ==
    /\ ctx # <<>> /\ Step
    /\ IF IsHmac /\ ctx.digested THEN ans' = <<"already computed">> /\ UNCHANGED ctx
       ELSE LET r == IF IsHmac THEN api_hmac_digest(Hash(ctx.kind), ctx.c)
                     ELSE h_digest(Hash(ctx.kind), ctx.c)
            IN  /\ ctx' = [ctx EXCEPT !.c = r.c, !.digested = TRUE]
                /\ ans' = <<"digest", r.digest, ~ctx.digested>>
    /\ UNCHANGED fed

\* keystore_hmac_md5(key, nonce): the whole message at once.
OneCall ==
    /\ ctx # <<>> /\ ctx.kind = "hmac-md5" /\ ~ctx.digested /\ Step
    /\ ans' = <<"digest", hmac_md5(fed), TRUE>>
    /\ UNCHANGED <<ctx, fed>>

Init == ctx = <<>> /\ fed = <<>> /\ ans = <<>> /\ hist = [calls |-> 0]

Next == New \/ Update \/ GetDigest \/ OneCall

Spec == Init /\ [][Next]_vars

-----------------------------------------------------------------------------
(* What the digests should be. *)

Padded(m) ==
    LET zeros == (Block - ((Len(m) + 1 + LenB) % Block)) % Block
    IN  m \o Marker \o Zeros(zeros) \o Length(Len(m))

Digested(h, m) ==
    LET p == Padded(m)
        blocks == [i \in 1..(Len(p) \div Block) |-> SubSeq(p, (Block * (i - 1)) + 1, Block * i)]
    IN  DigestBytes(h, <<h, blocks>>)

HMAC(h, m) == Digested(h, KeyPad("0x5c") \o Digested(h, KeyPad("0x36") \o m))

\* What the functions of hmac.c give for a message that comes in one piece.
AtOnce(m) ==
    api_hmac_digest("sha1", SHA1Input(SHA1Input(SHA1Reset, KeyPad("0x36")), m)).digest

\* The first digest of a context is the MD5 digest, or the HMAC-MD5, of all the
\* bytes fed to it, in order, wherever the pieces were cut and whichever way
\* the padding falls; HMAC in pieces and in one call compute the same.  The
\* context inside HMAC-SHA1 holds the SHA-1 of the key and all these bytes, and
\* the result, which is not HMAC-SHA1 (hmac.c keeps 16 bytes of a digest of
\* 20), does not depend on the cuts (MD5Update, MD5Final, SHA1Input,
\* SHA1PadMessage, hmac.c).
DigestIsOfAll ==
    /\ Len(ans) = 3 /\ ans[3] =>
         CASE ctx.kind = "md5" -> ans[2] = Digested("md5", fed)
           [] ctx.kind = "hmac-md5" -> ans[2] = HMAC("md5", fed)
           [] ctx.kind = "hmac-sha1" -> ans[2] = AtOnce(fed)
           [] OTHER -> TRUE
    /\ ctx # <<>> /\ ctx.kind = "hmac-sha1" /\ ~ctx.digested =>
         SHA1Result(ctx.c).digest = Digested("sha1", KeyPad("0x36") \o fed)

\* "Streaming implementation of SHA1 for Lua" (luafwk/crypto/sha1.c): the first
\* digest of a context of crypto.sha1 is the SHA-1 of the bytes fed to it.
Sha1IsComputed ==
    Len(ans) = 3 /\ ans[3] /\ ctx.kind = "sha1" => ans[2] = Digested("sha1", fed)
=============================================================================
