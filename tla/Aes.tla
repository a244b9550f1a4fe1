-------------------------------- MODULE Aes --------------------------------
(***************************************************************************)
(* Ciphering: the OpenAES library (libs/openaes/oaes_lib.c), its Lua       *)
(* binding (luafwk/crypto/openaes_core.c), the CBC filter of M3DA sessions *)
(* (luafwk/crypto/aes.lua) and the key store (libs/keystore/keystore.c,    *)
(* luafwk/crypto/keystore.c).                                              *)
(*                                                                         *)
(* What a round computes is abstracted, the order of the rounds is not: a  *)
(* block of B bytes is the set of the terms it is the exclusive or of, a   *)
(* term being plain bytes, an initial vector or an enciphered block, which *)
(* comes back when its rounds are undone last first.                       *)
(***************************************************************************)
EXTENDS Integers, FiniteSets, SequencesExt

CONSTANTS B,          \* OAES_BLOCK_SIZE
          Plains,     \* messages given to oaes_encrypt, sequences of bytes
          Chunks,     \* pieces given to the filter
          MaxPlain,   \* longest text ciphered by the filter
          KeyIds, KeyLens, \* keys and key lengths (in bytes) callers pass
          Slots,      \* the first indices (from 0) keys are written at
          MaxCalls, MaxFilters,
          MaxWrites,  \* rewrites of the key file: in a session, and without one
          MaxFaults   \* stops of the agent and failed accesses to the key file

VARIABLES disk,  \* the key file: its slots of 33 characters
          job,   \* the rewrite of the key file in progress
          ctx,   \* the OAES context of a C caller
          flt,   \* a ciphering filter and the text it was given
          got,   \* what the caller holds: exported key, messages, last answer
          hist

vars == <<disk, job, ctx, flt, got, hist>>

-----------------------------------------------------------------------------
(* Blocks and rounds. *)

Xor(a, b) == (a \ b) \cup (b \ a)

Bytes(s) == {<<"bytes", s, {}>>}

\* The bytes of a block that is not plain text: no value of a byte.
BytesOf(b) ==
    IF \E t \in b : b = {t} /\ t[1] = "bytes"
    THEN (CHOOSE t \in b : TRUE)[2] ELSE [i \in 1..B |-> -1]

oaes_header == [magic |-> "OAES", version |-> 1, type |-> 2]

SubBytes == <<"S", 0, 0>>

ShiftRows == <<"R", 0, 0>>

MixColumns == <<"M", 0, 0>>

AddRoundKey(key, i) == <<"K", key.id, i>>

\* key_base + OAES_ROUND_BASE round keys, the first ones copied from the key.
oaes_key_expand(id, len) == [id |-> id, len |-> len, num_keys |-> (len \div 4) + 7]

NoKey == [id |-> "none", len |-> 0, num_keys |-> 0]

\* The operations oaes_encrypt_block applies, in order.
oaes_encrypt_block(key) ==
    <<AddRoundKey(key, 0)>>
    \o FlattenSeq([i \in 1..(key.num_keys - 2) |->
           <<SubBytes, ShiftRows, MixColumns, AddRoundKey(key, i)>>])
    \o <<SubBytes, ShiftRows, AddRoundKey(key, key.num_keys - 1)>>

\* The operations oaes_decrypt_block undoes, in order.
oaes_decrypt_block(key) ==
    <<AddRoundKey(key, key.num_keys - 1)>>
    \o FlattenSeq([j \in 1..(key.num_keys - 2) |->
           LET i == key.num_keys - 1 - j
           IN  <<ShiftRows, SubBytes, AddRoundKey(key, i), MixColumns>>])
    \o <<ShiftRows, SubBytes, AddRoundKey(key, 0)>>

Encipher(key, b) == {<<"enc", key, b>>}

\* A block comes back when every round of its encryption has been undone.
Decipher(key, b) ==
    IF \E t \in b : b = {t} /\ t[1] = "enc"
                    /\ oaes_decrypt_block(key) = Reverse(oaes_encrypt_block(t[2]))
    THEN (CHOOSE t \in b : TRUE)[3]
    ELSE {<<"dec", key, b>>}

-----------------------------------------------------------------------------
(* The OpenAES context. *)

NoCtx == [on |-> FALSE, key |-> NoKey, opt |-> {}, iv |-> {}]

RandomIv == {<<"iv", "random", {}>>}

\* The vector both sides derive from the nonce: its MD5.
NonceIv == {<<"iv", "nonce", {}>>}

oaes_set_option(c, option, iv) ==
    IF option = "ECB" THEN [c EXCEPT !.opt = (@ \ {"CBC"}) \cup {"ECB"}, !.iv = {}]
    ELSE [c EXCEPT !.opt = (@ \ {"ECB"}) \cup {"CBC"}, !.iv = iv]

oaes_alloc == oaes_set_option([NoCtx EXCEPT !.on = TRUE], "CBC", RandomIv)

oaes_key_import_data(c, id, len) ==
    IF len \notin {16, 24, 32} THEN [rc |-> "ARG3", c |-> c]
    ELSE [rc |-> "OK", c |-> [c EXCEPT !.key = oaes_key_expand(id, len)]]

oaes_key_gen(c, len) == [c EXCEPT !.key = oaes_key_expand("random", len)]

oaes_key_export(c) == [oaes_header EXCEPT !.type = 1] @@ [len |-> c.key.len, id |-> c.key.id]

oaes_key_import(c, data) ==
    IF \/ data.magic # "OAES" \/ data.version # 1 \/ data.type # 1
       \/ data.len \notin {16, 24, 32}
    THEN [rc |-> "HEADER", c |-> c]
    ELSE [rc |-> "OK", c |-> [c EXCEPT !.key = oaes_key_expand(data.id, data.len)]]

PadLen(m) == IF Len(m) % B = 0 THEN 0 ELSE B - (Len(m) % B)

\* The i-th block of the message, its end filled with 1, 2, 3...
PaddedBlock(m, i) ==
    LET here == SubSeq(m, (B * (i - 1)) + 1, IF B * i < Len(m) THEN B * i ELSE Len(m))
    IN  here \o [j \in 1..(B - Len(here)) |-> j]


\* One block: mixed with the vector, which becomes the block just enciphered.
Chained(c, b) ==
    LET e == Encipher(c.key, IF "CBC" \in c.opt THEN Xor(b, c.iv) ELSE b)
    IN  [c |-> IF "CBC" \in c.opt THEN [c EXCEPT !.iv = e] ELSE c, e |-> e]

\* The vector of the context runs on from one message to the next; the header
\* carries the one the message started with.
oaes_encrypt(c, m) ==
    IF c.key = NoKey THEN [rc |-> "NOKEY", c |-> c, msg |-> <<>>]
    ELSE LET n == (Len(m) + PadLen(m)) \div B
             r == FoldLeft(LAMBDA acc, i :
                      LET x == Chained(acc.c, Bytes(PaddedBlock(m, i)))
                      IN  [c |-> x.c, blocks |-> Append(acc.blocks, x.e)],
                      [c |-> c, blocks |-> <<>>], [i \in 1..n |-> i])
         IN  [rc |-> "OK", c |-> r.c,
              msg |-> oaes_header @@ [opt |-> c.opt, pad |-> PadLen(m) # 0,
                                      iv |-> c.iv, blocks |-> r.blocks]]

\* Taking the pad off: the last byte says how long it is, its bytes count up.
Unpadded(m) ==
    LET p == m[Len(m)] IN
    IF p <= 0 \/ p > B - 1 \/ \E i \in 0..(p - 1) : m[Len(m) - i] # p - i
    THEN [rc |-> "HEADER", m |-> m]
    ELSE [rc |-> "OK", m |-> SubSeq(m, 1, Len(m) - p)]

oaes_decrypt(c, msg) ==
    IF c.key = NoKey THEN [rc |-> "NOKEY", m |-> <<>>]
    ELSE IF \/ msg.magic # "OAES" \/ msg.version # 1 \/ msg.type # 2
            \/ msg.opt \in {{}, {"ECB", "CBC"}}
         THEN [rc |-> "HEADER", m |-> <<>>]
    ELSE LET Vector(i) == IF i = 1 THEN msg.iv ELSE msg.blocks[i - 1]
             Plain(i) == LET d == Decipher(c.key, msg.blocks[i])
                         IN  BytesOf(IF "CBC" \in msg.opt THEN Xor(d, Vector(i)) ELSE d)
             m == FlattenSeq([i \in DOMAIN msg.blocks |-> Plain(i)])
         IN  IF msg.pad THEN Unpadded(m) ELSE [rc |-> "OK", m |-> m]

-----------------------------------------------------------------------------
(* The key store.  A slot holds a key, "zero" when the file was lengthened *)
(* past it, or "torn" when a rewrite stopped in the middle of it.          *)

\* get_obfuscated_bin_key, get_plain_bin_key: a short read is an error.
HasKey(f, i) == i + 1 <= Len(f.slots)

KeyAt(f, i) == f.slots[i + 1]

\* set_obfuscated_bin_keys: the image of the file, lengthened if needed.
NewContent(f, first, keys) ==
    LET old == f.slots \o (IF f.part THEN <<"torn">> ELSE <<>>)
        n   == IF Len(old) > first + Len(keys) THEN Len(old) ELSE first + Len(keys)
    IN  [i \in 1..n |->
            IF i \in (first + 1)..(first + Len(keys)) THEN keys[i - first]
            ELSE IF i <= Len(old) THEN old[i] ELSE "zero"]

\* The session key derived from the stored key and the nonce.  When the key
\* cannot be read the caller's buffer keeps whatever was on the stack.
get_cipher_key(i) ==
    IF HasKey(disk, i) THEN {KeyAt(disk, i)} ELSE {"stack1", "stack2"}

\* openaes_core.c api_new; the result of get_cipher_key is not looked at.
api_new(k, iv) ==
    LET c == oaes_key_import_data(oaes_alloc, k, 16).c
    IN  IF iv = {} THEN c ELSE oaes_set_option(c, "CBC", iv)

NoJob == [on |-> FALSE, content |-> <<>>, first |-> 0, keys |-> <<>>]

Fault == hist.faults < MaxFaults

\* The indices (from 1) a rewrite is about.
Written == (job.first + 1)..(job.first + Len(job.keys))

\* Reads the file, then truncates it for writing; the obfuscator only copies.
\* When the file cannot be read whole or opened again it is left alone.
set_plain_bin_keys(first, keys) ==
    \/ /\ job' = [on |-> TRUE, content |-> NewContent(disk, first, keys),
                  first |-> first, keys |-> keys]
       /\ disk' = [slots |-> <<>>, part |-> FALSE]
       /\ hist' = [hist EXCEPT !.writes = @ + 1]
    \/ /\ Fault
       /\ hist' = [hist EXCEPT !.writes = @ + 1, !.faults = @ + 1]
       /\ UNCHANGED <<job, disk>>

\* crypto.keystore(first_idx, keys), as provisioning.lua calls it.
api_write(first, keys) ==
    /\ ~job.on /\ hist.use # "library" /\ hist.writes < MaxWrites[hist.use]
    /\ set_plain_bin_keys(first, keys)
    /\ UNCHANGED <<ctx, flt, got>>

\* fwrite and fclose; from here on the keys count as stored.
WriteBack ==
    /\ job.on
    /\ disk' = [slots |-> job.content, part |-> FALSE]
    /\ hist' = [hist EXCEPT !.stored = [i \in Written |-> job.keys[i - job.first]] @@ @,
                            !.lost = @ \ Written]
    /\ job' = NoJob
    /\ UNCHANGED <<ctx, flt, got>>

\* The rewrite ends after n slots and, maybe, a part of the next one.  The
\* history keeps the stored keys that went with the rest of the file.
CutAt(n, part) ==
    /\ part => n < Len(job.content)
    /\ disk' = [slots |-> SubSeq(job.content, 1, n), part |-> part]
    /\ hist' = [hist EXCEPT
                  !.faults = @ + 1,
                  !.stored = [i \in DOMAIN @ |-> IF i \in Written /\ i <= n
                                                 THEN job.keys[i - job.first] ELSE @[i]],
                  !.lost = {i \in DOMAIN hist.stored : i > n \/ (i \in @ /\ i \notin Written)}]
    /\ job' = NoJob

\* A short fwrite: the caller is told, what was written stays.
ShortWrite ==
    /\ job.on /\ Fault
    /\ \E n \in 0..(Len(job.content) - 1), part \in BOOLEAN : CutAt(n, part)
    /\ UNCHANGED <<ctx, flt, got>>

\* The agent stops: memory is gone, the file keeps a prefix of the rewrite.
Crash ==
    /\ Fault /\ hist.use # "library"
    /\ ctx' = NoCtx
    /\ flt' = [st |-> "off", c |-> NoCtx, buffer |-> <<>>, plain |-> <<>>, out |-> <<>>]
    /\ got' = [blob |-> <<>>, msgs |-> {}, ans |-> <<>>]
    /\ \/ /\ ~job.on /\ hist' = [hist EXCEPT !.faults = @ + 1]
          /\ UNCHANGED <<disk, job>>
       \/ job.on /\ \E n \in 0..Len(job.content), part \in BOOLEAN : CutAt(n, part)

-----------------------------------------------------------------------------
(* A C caller of the library. *)

Called == hist.calls < MaxCalls /\ hist.use = "library"
          /\ hist' = [hist EXCEPT !.calls = @ + 1] /\ UNCHANGED <<disk, job, flt>>

Forget == got' = [got EXCEPT !.ans = <<>>]

Alloc == Called /\ ~ctx.on /\ ctx' = oaes_alloc /\ Forget

SetKey ==
    /\ Called /\ ctx.on
    /\ \/ \E id \in KeyIds, len \in KeyLens : ctx' = oaes_key_import_data(ctx, id, len).c
       \/ \E len \in {16, 24, 32} : ctx' = oaes_key_gen(ctx, len)
       \/ got.blob # <<>> /\ ctx' = oaes_key_import(ctx, got.blob).c
    /\ Forget

Export ==
    /\ Called /\ ctx.on /\ ctx.key # NoKey
    /\ got' = [got EXCEPT !.blob = oaes_key_export(ctx), !.ans = <<>>]
    /\ UNCHANGED ctx

SetOption ==
    /\ Called /\ ctx.on
    /\ \E o \in {"ECB", "CBC"} : ctx' = oaes_set_option(ctx, o, RandomIv)
    /\ Forget

Encrypt ==
    /\ Called /\ ctx.on
    /\ \E m \in Plains : LET r == oaes_encrypt(ctx, m) IN
          /\ ctx' = r.c
          /\ got' = IF r.rc = "OK"
                    THEN [got EXCEPT !.msgs = @ \cup {[m |-> m, key |-> ctx.key, msg |-> r.msg]},
                                     !.ans = <<>>]
                    ELSE [got EXCEPT !.ans = <<r.rc>>]

Decrypt ==
    /\ Called /\ ctx.on
    /\ \E s \in got.msgs : LET r == oaes_decrypt(ctx, s.msg) IN
          got' = [got EXCEPT !.ans = <<r.rc, r.m, s.m, ctx.key = s.key>>]
    /\ UNCHANGED ctx

Free == Called /\ ctx.on /\ ctx' = NoCtx /\ Forget

-----------------------------------------------------------------------------
(* The CBC filter of a session, with the key at index 0. *)

LuaStep == ~job.on /\ hist.use = "session" /\ UNCHANGED <<disk, job, ctx>>

encrypt_filter ==
    /\ LuaStep /\ flt.st \in {"off", "read"} /\ hist.calls < MaxFilters
    /\ hist' = [hist EXCEPT !.calls = @ + 1]
    /\ \E k \in get_cipher_key(0) :
          flt' = [st |-> "on", c |-> api_new(k, NonceIv), buffer |-> <<>>,
                  plain |-> <<>>, out |-> <<>>]
    /\ Forget

\* buffer:sub(-n, -1): the last n bytes, but everything when n is 0.
SubEnd(s, n) == IF n = 0 THEN s ELSE SubSeq(s, Len(s) - n + 1, Len(s))

FilterData(data) ==
    LET b == flt.buffer \o data
        nkept == Len(b) % B
        tosend == SubSeq(b, 1, Len(b) - nkept)
        r == oaes_encrypt(flt.c, tosend)
    IN  /\ LuaStep /\ flt.st = "on" /\ Len(flt.plain) + Len(data) <= MaxPlain
        /\ IF Len(b) < B THEN flt' = [flt EXCEPT !.buffer = b, !.plain = @ \o data]
           ELSE flt' = [flt EXCEPT !.buffer = SubEnd(b, nkept), !.c = r.c,
                                   !.plain = @ \o data, !.out = @ \o r.msg.blocks]
        /\ hist' = [hist EXCEPT !.whole = @ \/ (Len(b) >= B /\ nkept = 0)]
        /\ UNCHANGED got

\* End of stream: the last chunk, padded with n bytes of value n.
FilterEnd ==
    LET n == B - Len(flt.buffer)
        r == oaes_encrypt(flt.c, flt.buffer \o [i \in 1..n |-> n])
    IN  /\ LuaStep /\ flt.st = "on"
        /\ IF n \in 1..B
           THEN flt' = [flt EXCEPT !.st = "sent", !.c = r.c, !.buffer = <<>>,
                                   !.out = @ \o r.msg.blocks]
           ELSE flt' = [flt EXCEPT !.st = "assert"]
        /\ UNCHANGED <<got, hist>>

\* decrypt_function, called by the peer, which holds the same store.
decrypt_function ==
    /\ LuaStep /\ flt.st = "sent"
    /\ \E k \in get_cipher_key(0) :
          LET c == api_new(k, {})
              r == oaes_decrypt(c, oaes_header @@ [opt |-> {"CBC"}, pad |-> FALSE,
                                                   iv |-> NonceIv, blocks |-> flt.out])
              n == IF r.m = <<>> THEN 0 ELSE Last(r.m)
          IN  got' = [got EXCEPT !.ans =
                 <<IF n \in 1..B THEN "OK" ELSE "assert",
                   IF n \in 1..B THEN SubSeq(r.m, 1, Len(r.m) - n) ELSE <<>>,
                   flt.plain, c.key = flt.c.key /\ ~hist.whole>>]
    /\ flt' = [flt EXCEPT !.st = "read"]
    /\ hist' = [hist EXCEPT !.whole = FALSE]

-----------------------------------------------------------------------------
Init ==
    /\ disk = [slots |-> <<>>, part |-> FALSE] /\ job = NoJob /\ ctx = NoCtx
    /\ flt = [st |-> "off", c |-> NoCtx, buffer |-> <<>>, plain |-> <<>>, out |-> <<>>]
    /\ got = [blob |-> <<>>, msgs |-> {}, ans |-> <<>>]
    /\ \E use \in {"library", "session", "store"} : hist = [use |-> use, calls |-> 0, writes |-> 0, faults |-> 0,
                                                   stored |-> <<>>, lost |-> {}, whole |-> FALSE]

Next ==
    \/ \E first \in Slots, k \in KeyIds, n \in 2..3 : api_write(first, [i \in 1..n |-> k])
    \/ WriteBack \/ ShortWrite \/ Crash
    \/ Alloc \/ SetKey \/ Export \/ SetOption \/ Encrypt \/ Decrypt \/ Free
    \/ encrypt_filter \/ (\E data \in Chunks : FilterData(data)) \/ FilterEnd
    \/ decrypt_function

Spec == Init /\ [][Next]_vars

-----------------------------------------------------------------------------
(* Properties. *)

\* A message deciphered with the key it was ciphered with is the message, in
\* both chainings, for every length and however often the context was used,
\* its options changed or its key replaced in between; and so is a text that
\* went through the filter in pieces, as long as no piece left the buffer at a
\* whole number of blocks (oaes_encrypt, oaes_decrypt, aes.lua).
DecipheredIsPlain ==
    Len(got.ans) = 4 /\ got.ans[4] => got.ans[1] = "OK" /\ got.ans[2] = got.ans[3]

\* A key written to the store is the key read back at its index, whatever was
\* written around it.  A rewrite that a stop of the agent or a short write cuts
\* loses the keys behind the cut and no other: those that stand before it are
\* read back, the lost ones are never read as the key of another index, and a
\* key that is written again counts again (set_obfuscated_bin_keys).
KeysAreKept ==
    ~job.on => \A i \in DOMAIN hist.stored :
       IF i \in hist.lost THEN HasKey(disk, i - 1) => KeyAt(disk, i - 1) \in {"zero", "torn"}
       ELSE HasKey(disk, i - 1) /\ KeyAt(disk, i - 1) = hist.stored[i]

=============================================================================
