------------------------------ MODULE SpxHash ------------------------------
(***************************************************************************)
(* The hash functions of the signature, each as it is coded for one call   *)
(* and for two, four or eight at a time: thash, simple and robust, the     *)
(* secret values' prf_addr, the message's randomness and its digest.       *)
(*                                                                         *)
(* A job is one call.  Its result is what every digest on the way was      *)
(* given, by name, and the bytes that come out; a byte of a digest is      *)
(* named by the digest, the lane and the place it is read at.              *)
(***************************************************************************)
EXTENDS SpxStreams, SpxParams, SequencesExt

CONSTANTS ThashSets,       \* the parameter sets thash and prf_addr are built for
          MessageSets      \* those the message is hashed for

VARIABLES hJob,            \* the call
          hDone,
          hResult          \* per lane

hashVars == <<hJob, hDone, hResult>>

Bytes(name, n)     == [i \in 1 .. n |-> {<<name, i>>}]
LaneBytes(name, l, n) == [i \in 1 .. n |-> {<<name, l, i>>}]
All(v, n)          == [i \in 1 .. n |-> Const(v)]

SPX_ADDR_BYTES        == 32
SPX_SHA256_ADDR_BYTES == 22

\* The call's arguments; ctx holds the public and the secret seed.
PubSeed(c)  == Bytes("pub_seed", c.n)
SkSeed(c)   == Bytes("sk_seed", c.n)
Addr(l)     == LaneBytes("addr", l, SPX_ADDR_BYTES)
ShortAddr(l) == Take(Addr(l), SPX_SHA256_ADDR_BYTES)
In(c, k, l) == LaneBytes("in", l, k * c.n)

----------------------------------------------------------------------------
\* Digests by name, and the bytes read from one.
Digest(label, by, blocks) == [d \in {label} |-> [by |-> by, blocks |-> blocks]]
ReadAt(label, l, places)  == [i \in DOMAIN places |-> {<<"d", label, l, places[i]>>}]
Places(perms, k)          == [i \in 1 .. k |-> <<perms, i - 1>>]
Result(digests, out)      == [digests |-> digests, out |-> out]

Final  == <<"digest", 0>>
Mask(i) == <<"mask", i>>

\* A sponge's digest is of the blocks given before the first byte is read.
SpongeRead(label, l, by, s) ==
    Result(Digest(label, by, Take(s.state.blocks, s.out[1][1])), ReadAt(label, l, s.out))
Shake(label, l, m, k)  == SpongeRead(label, l, "keccak", shake256(m, k))
ShakeX4(label, l, m, k) == SpongeRead(label, l, "keccak", shake256x4(m, k))
ShakeX2(label, l, m, k) == SpongeRead(label, l, "keccak", shake256x2(m, k))
HarakaS(label, l, m, k) == SpongeRead(label, l, "haraka512_perm", haraka_S(m, k))
HarakaSX4(label, l, m, k) == SpongeRead(label, l, "haraka512_perm", haraka_Sx4(m, k))

ShaRead(label, l, by, s, k) == Result(Digest(label, by, s.blocks), ReadAt(label, l, Places(0, k)))

\* haraka512 adds its input to the permuted state and keeps half of it.
HarakaKept == [i \in 1 .. 32 |-> IF i <= 8 THEN 7 + i ELSE IF i <= 16 THEN 15 + i
                                 ELSE IF i <= 24 THEN 15 + i ELSE 23 + i]
haraka512(label, l, in) ==
    Result(Digest(label, "haraka512_perm", <<in>>),
           [i \in 1 .. 32 |-> SymDiff({<<"d", label, l, <<1, HarakaKept[i]>>>>},
                                      in[HarakaKept[i] + 1])])
haraka256(label, l, in) ==
    Result(Digest(label, "haraka256_perm", <<in>>),
           [i \in 1 .. 32 |-> SymDiff({<<"d", label, l, <<1, i - 1>>>>}, in[i])])

u32_to_bytes(v) == <<{}, {}, {}, Const(v)>>       \* v < 256

\* A counter's digest after the other's, the last one cut; the eight-lane
\* code computes one more, of which it may keep nothing.
MgfRead(labels, l, by, H(_), B, k, in) ==
    LET digest(i) == H(in \o u32_to_bytes(i))
    IN  Result([d \in {Mask(i) : i \in labels} |-> [by |-> by, blocks |-> digest(d[2]).blocks]],
               [j \in 1 .. k |-> {<<"d", Mask((j - 1) \div B), l, <<0, (j - 1) % B>>>>}])
mgf1_256(l, k, in)  == MgfRead(0 .. (k + 31) \div 32 - 1, l, "sha256", sha256, 32, k, in)
mgf1_512(l, k, in)  == MgfRead(0 .. (k + 63) \div 64 - 1, l, "sha512", sha512, 64, k, in)
mgf1x8(l, k, in)    == MgfRead(0 .. k \div 32, l, "sha256", sha256x8, 32, k, in)
sha512x4(m)         == _sha512x4(sha_inc_init, m)
mgf1x4_512(l, k, in) == MgfRead(0 .. (k + 63) \div 64 - 1, l, "sha512", sha512x4, 64, k, in)

\* The states of the hash that already took the public seed.
SeededBlock(c, B) == PubSeed(c) \o Zeros(B - c.n)
seed_state(c) == [state_seeded     |-> sha256_inc_blocks(sha_inc_init, SeededBlock(c, 64)),
                  state_seeded_512 |-> sha512_inc_blocks(sha_inc_init, SeededBlock(c, 128))]

----------------------------------------------------------------------------
(***************************************************************************)
(* SHAKE.  The parallel codes write a short call's state by hand.  What    *)
(* has not been written is garbage.                                        *)
(***************************************************************************)
thash_shake_simple(c, k, l) ==
    Shake(Final, l, PubSeed(c) \o Addr(l) \o In(c, k, l), c.n)

Masked(in, mask) == XorAt(in, 0, mask)

thash_shake_robust(c, k, l) ==
    LET bitmask == Shake(Mask(0), l, PubSeed(c) \o Addr(l), k * c.n)
        body    == Shake(Final, l, PubSeed(c) \o Addr(l) \o Masked(In(c, k, l), bitmask.out), c.n)
    IN  Result(bitmask.digests @@ body.digests, body.out)

prf_addr_shake(c, l) == Shake(Final, l, PubSeed(c) \o Addr(l) \o SkSeed(c), c.n)

\* A permuted state of 25 words; the last 8 must hold nothing.
StateBytes  == 200
Garbage     == [i \in 1 .. StateBytes |-> {<<"garbage", i>>}]
Permute(label, l, state, k) ==
    Result(Digest(label, "keccak",
                  <<IF \A i \in SHAKE256_RATE + 1 .. StateBytes : state[i] = {}
                    THEN Take(state, SHAKE256_RATE) ELSE state>>),
           ReadAt(label, l, Places(1, k)))

Word(v, at)    == [i \in 1 .. 8 |-> IF i = at THEN Const(v) ELSE {}]
EndWord        == Word(128, 8)
PadWord        == Word(31, 1)
ClearTail(state) == PutAt(state, SHAKE256_RATE, Zeros(StateBytes - SHAKE256_RATE))

thash_shake_simplex4(c, k, l) ==
    LET used   == c.n * (1 + k) + SPX_ADDR_BYTES
        filled == PutAt(Garbage, 0, PubSeed(c) \o Addr(l) \o In(c, k, l))
        zeroed == PutAt(filled, used, Zeros(128 - used))
        padded == XorAt(PutAt(zeroed, 128, EndWord), used, PadWord)
    IN  IF k \in {1, 2} THEN Permute(Final, l, ClearTail(padded), c.n)
        ELSE ShakeX4(Final, l, PubSeed(c) \o Addr(l) \o In(c, k, l), c.n)

\* The mask's state, and a copy of it for the digest, whose input covers the
\* first padding.
thash_shake_robustx4(c, k, l) ==
    LET head    == c.n + SPX_ADDR_BYTES
        set     == PutAt(PutAt(Garbage, 0, PubSeed(c) \o Addr(l)), head, PadWord)
        zeroed  == PutAt(set, head + 8, Zeros(128 - head - 8))
        state   == ClearTail(PutAt(zeroed, 128, EndWord))
        short   == Permute(Mask(0), l, state, k * c.n)
        state2  == XorAt(PutAt(state, head, Masked(short.out, In(c, k, l))),
                         c.n * (1 + k) + SPX_ADDR_BYTES, PadWord)
        body    == Permute(Final, l, state2, c.n)
        bitmask == ShakeX4(Mask(0), l, PubSeed(c) \o Addr(l), k * c.n)
        long    == ShakeX4(Final, l, PubSeed(c) \o Addr(l) \o Masked(In(c, k, l), bitmask.out), c.n)
    IN  IF k \in {1, 2} THEN Result(short.digests @@ body.digests, body.out)
        ELSE Result(bitmask.digests @@ long.digests, long.out)

prf_addr_shakex4(c, l) ==
    LET head   == 2 * c.n + SPX_ADDR_BYTES
        filled == PutAt(Garbage, 0, PubSeed(c) \o Addr(l) \o SkSeed(c))
        zeroed == PutAt(PutAt(filled, head, PadWord), head + 8, Zeros(128 - head - 8))
    IN  Permute(Final, l, ClearTail(PutAt(zeroed, 128, EndWord)), c.n)

\* Two lanes begin with zeros everywhere.
thash_shake_simplex2(c, k, l) ==
    LET used   == c.n * (1 + k) + SPX_ADDR_BYTES
        filled == PutAt(Zeros(StateBytes), 0, PubSeed(c) \o Addr(l) \o In(c, k, l))
    IN  IF k \in {1, 2}
        THEN Permute(Final, l, XorAt(PutAt(filled, 128, EndWord), used, PadWord), c.n)
        ELSE ShakeX2(Final, l, PubSeed(c) \o Addr(l) \o In(c, k, l), c.n)

thash_shake_robustx2(c, k, l) ==
    LET head    == c.n + SPX_ADDR_BYTES
        filled  == PutAt(PutAt(Zeros(StateBytes), 0, PubSeed(c) \o Addr(l)), 128, EndWord)
        state   == XorAt(filled, head, PadWord)
        short   == Permute(Mask(0), l, state, k * c.n)
        state2  == XorAt(PutAt(state, head, Masked(short.out, In(c, k, l))),
                         c.n * (1 + k) + SPX_ADDR_BYTES, PadWord)
        body    == Permute(Final, l, state2, c.n)
        bitmask == ShakeX2(Mask(0), l, PubSeed(c) \o Addr(l), k * c.n)
        long    == ShakeX2(Final, l, PubSeed(c) \o Addr(l) \o Masked(In(c, k, l), bitmask.out), c.n)
    IN  IF k \in {1, 2} THEN Result(short.digests @@ body.digests, body.out)
        ELSE Result(bitmask.digests @@ long.digests, long.out)

prf_addr_shakex2(c, l) ==
    LET head   == 2 * c.n + SPX_ADDR_BYTES
        filled == PutAt(Zeros(StateBytes), 0, PubSeed(c) \o Addr(l) \o SkSeed(c))
    IN  Permute(Final, l, PutAt(PutAt(filled, head, PadWord), 128, EndWord), c.n)

\* The reference's batch: one padded block to a lane, longer calls one by one.
build_thash_block(c, k, l) ==
    LET message == PubSeed(c) \o Addr(l) \o In(c, k, l)
        block   == PutAt(Zeros(SHAKE256_RATE), 0, message)
    IN  XorAt(PutAt(block, Len(message), <<Const(31)>>), SHAKE256_RATE - 1, <<Const(128)>>)

thashx4_batch(c, k, l) ==
    IF k > 2 THEN thash_shake_simple(c, k, l)
    ELSE Permute(Final, l, build_thash_block(c, k, l) \o Zeros(StateBytes - SHAKE256_RATE), c.n)

gen_message_random_shake(c, mlen) ==
    LET s == shake256_inc_absorb(shake256_inc_absorb(shake256_inc_absorb(
                 keccak_inc_init(SHAKE256_RATE), Bytes("sk_prf", c.n)), Bytes("optrand", c.n)),
                 Bytes("m", mlen))
    IN  SpongeRead(Final, 0, "keccak", shake256_inc_squeeze(shake256_inc_finalize(s), c.n))

PublicKey(c) == PubSeed(c) \o Bytes("root", c.n)
hash_message_shake(c, mlen) ==
    LET s == shake256_inc_absorb(shake256_inc_absorb(shake256_inc_absorb(
                 keccak_inc_init(SHAKE256_RATE), Bytes("R", c.n)), PublicKey(c)),
                 Bytes("m", mlen))
    IN  SpongeRead(Final, 0, "keccak", shake256_inc_squeeze(shake256_inc_finalize(s), DgstBytes(c)))

----------------------------------------------------------------------------
(***************************************************************************)
(* SHA-2: from the state that took the public seed, with short addresses.  *)
(***************************************************************************)
ShortMessage(l, in) == ShortAddr(l) \o in
Sha256Rest(c, l, m) ==
    ShaRead(Final, l, "sha256", sha256_inc_finalize(seed_state(c).state_seeded, m), c.n)
Sha512Rest(c, l, m) ==
    ShaRead(Final, l, "sha512", sha512_inc_finalize(seed_state(c).state_seeded_512, m), c.n)
Sha256RestX8(c, l, m) ==
    ShaRead(Final, l, "sha256", sha256x8_seeded(seed_state(c).state_seeded.blocks, 512, m), c.n)
Sha512RestX4(c, l, m) ==
    ShaRead(Final, l, "sha512", sha512x4_seeded(seed_state(c).state_seeded_512.blocks, 1024, m), c.n)

WithMask(bitmask, body) == Result(bitmask.digests @@ body.digests, body.out)

thash_512_sha2_simple(c, k, l) == Sha512Rest(c, l, ShortMessage(l, In(c, k, l)))
thash_sha2_simple(c, k, l) ==
    IF c.sha512 /\ k > 1 THEN thash_512_sha2_simple(c, k, l)
    ELSE Sha256Rest(c, l, ShortMessage(l, In(c, k, l)))

thash_512_sha2_robust(c, k, l) ==
    LET bitmask == mgf1_512(l, k * c.n, PubSeed(c) \o ShortAddr(l))
    IN  WithMask(bitmask, Sha512Rest(c, l, ShortMessage(l, Masked(In(c, k, l), bitmask.out))))
thash_sha2_robust(c, k, l) ==
    LET bitmask == mgf1_256(l, k * c.n, PubSeed(c) \o ShortAddr(l))
    IN  IF c.sha512 /\ k > 1 THEN thash_512_sha2_robust(c, k, l)
        ELSE WithMask(bitmask, Sha256Rest(c, l, ShortMessage(l, Masked(In(c, k, l), bitmask.out))))

thashx8_512_simple(c, k, l) == Sha512RestX4(c, l, ShortMessage(l, In(c, k, l)))
thash_sha2_simplex8(c, k, l) ==
    IF c.sha512 /\ k > 1 THEN thashx8_512_simple(c, k, l)
    ELSE Sha256RestX8(c, l, ShortMessage(l, In(c, k, l)))

thashx8_512_robust(c, k, l) ==
    LET bitmask == mgf1x4_512(l, k * c.n, PubSeed(c) \o ShortAddr(l))
    IN  WithMask(bitmask, Sha512RestX4(c, l, ShortMessage(l, Masked(In(c, k, l), bitmask.out))))
thash_sha2_robustx8(c, k, l) ==
    LET bitmask == mgf1x8(l, k * c.n, PubSeed(c) \o ShortAddr(l))
    IN  IF c.sha512 /\ k > 1 THEN thashx8_512_robust(c, k, l)
        ELSE WithMask(bitmask, Sha256RestX8(c, l, ShortMessage(l, Masked(In(c, k, l), bitmask.out))))

prf_addr_sha2(c, l)   == Sha256Rest(c, l, ShortMessage(l, SkSeed(c)))
prf_addr_sha2x8(c, l) == Sha256RestX8(c, l, ShortMessage(l, SkSeed(c)))

\* shaX is SHA-256 for a security of 16 bytes and SHA-512 above.
ShaX(c) == IF c.n >= 24 THEN [by |-> "sha512", block |-> 128, out |-> 64]
                        ELSE [by |-> "sha256", block |-> 64, out |-> 32]
shaX_inc_blocks(c, s, m)   == IF c.n >= 24 THEN sha512_inc_blocks(s, m) ELSE sha256_inc_blocks(s, m)
shaX_inc_finalize(c, s, m) == IF c.n >= 24 THEN sha512_inc_finalize(s, m)
                                           ELSE sha256_inc_finalize(s, m)
mgf1_X(c, k, in)           == IF c.n >= 24 THEN mgf1_512(0, k, in) ELSE mgf1_256(0, k, in)

\* A prefix that has to end with whole blocks, the rest of them from the
\* message, unless prefix and message together are shorter.
PrefixThen(c, s, prefix, blocks, m) ==
    LET room == blocks * ShaX(c).block - Len(prefix)
    IN  IF Len(m) < room THEN shaX_inc_finalize(c, s, prefix \o m)
        ELSE shaX_inc_finalize(c, shaX_inc_blocks(c, s, prefix \o Take(m, room)), Drop(m, room))

KeyBlock(c, pad) == XorAt(All(pad, ShaX(c).block), 0, Bytes("sk_prf", c.n))
Inner == <<"inner", 0>>
gen_message_random_sha2(c, mlen) ==
    LET keyed == shaX_inc_blocks(c, sha_inc_init, KeyBlock(c, 54))
        inner == ShaRead(Inner, 0, ShaX(c).by,
                         PrefixThen(c, keyed, Bytes("optrand", c.n), 1, Bytes("m", mlen)), ShaX(c).out)
        outer == ShaRead(Final, 0, ShaX(c).by,
                         shaX_inc_finalize(c, sha_inc_init, KeyBlock(c, 92) \o inner.out), c.n)
    IN  Result(inner.digests @@ outer.digests, outer.out)

hash_message_sha2(c, mlen) ==
    LET prefix   == Bytes("R", c.n) \o PublicKey(c)
        inblocks == (Len(prefix) + ShaX(c).block - 1) \div ShaX(c).block
        seed     == ShaRead(Inner, 0, ShaX(c).by,
                            PrefixThen(c, sha_inc_init, prefix, inblocks, Bytes("m", mlen)),
                            ShaX(c).out)
        buf      == mgf1_X(c, DgstBytes(c), Bytes("R", c.n) \o PubSeed(c) \o seed.out)
    IN  Result(seed.digests @@ buf.digests, buf.out)

----------------------------------------------------------------------------
(***************************************************************************)
(* Haraka, whose round constants hold the public seed.                     *)
(***************************************************************************)
Padded64(m) == PutAt(Zeros(64), 0, m)

thash_haraka_simple(c, k, l) ==
    IF k = 1
    THEN LET outbuf == haraka512(Final, l, Padded64(Addr(l) \o In(c, 1, l)))
         IN  Result(outbuf.digests, Take(outbuf.out, c.n))
    ELSE HarakaS(Final, l, Addr(l) \o In(c, k, l), c.n)

thash_haraka_robust(c, k, l) ==
    LET pad     == haraka256(Mask(0), l, Addr(l))
        outbuf  == haraka512(Final, l, Padded64(Addr(l) \o Masked(In(c, 1, l), pad.out)))
        bitmask == HarakaS(Mask(0), l, Addr(l), k * c.n)
    IN  IF k = 1 THEN Result(pad.digests @@ outbuf.digests, Take(outbuf.out, c.n))
        ELSE WithMask(bitmask, HarakaS(Final, l, Addr(l) \o Masked(In(c, k, l), bitmask.out), c.n))

prf_addr_haraka(c, l) ==
    LET outbuf == haraka512(Final, l, Padded64(Addr(l) \o SkSeed(c)))
    IN  Result(outbuf.digests, Take(outbuf.out, c.n))

\* Four lanes side by side in one buffer: lane l's 64 bytes.
FourLanes  == 0 .. 3
RECURSIVE PutLanes(_, _, _, _)
PutLanes(buf, F(_), stride, n) ==
    IF n = 0 THEN buf ELSE PutLanes(PutAt(buf, stride * (n - 1), F(n - 1)), F, stride, n - 1)
Lane(buf, l, size) == SubSeq(buf, size * l + 1, size * (l + 1))

thash_haraka_simplex4(c, k, l) ==
    LET addrs   == PutLanes(Zeros(256), Addr, 64, 4)
        lane(j) == In(c, 1, j)
        buf_tmp == [i \in 1 .. 256 |->
                       LET j == (i - 1) \div 64   at == ((i - 1) % 64) - SPX_ADDR_BYTES
                       IN  IF at \in 0 .. c.n - 1 THEN lane(j)[at + 1] ELSE addrs[i]]
        outbuf  == haraka512(Final, l, Lane(buf_tmp, l, 64))
    IN  IF k = 1 THEN Result(outbuf.digests, Take(outbuf.out, c.n))
        ELSE HarakaSX4(Final, l, Addr(l) \o In(c, k, l), c.n)

\* The addresses are first packed for the masks, then moved apart, the last
\* first; two of the gaps are cleared, the others never were written.  The
\* fault clears none.
Moved(buf, to, from) == PutAt(buf, to, SubSeq(buf, from + 1, from + SPX_ADDR_BYTES))
SpreadUncleared(buf) ==
    Moved(Moved(Moved(buf, 192, 96), 128, 64), 64, 32)
Spread(buf) ==
    LET moved == Moved(Moved(Moved(buf, 192, 96), 128, 64), 64, 32)
    IN  PutAt(PutAt(moved, 32, Zeros(32)), 96, Zeros(32))

thash_haraka_robustx4(c, k, l) ==
    LET packed  == PutLanes(Zeros(256), Addr, 32, 4)
        pad     == haraka256(Mask(0), l, Lane(packed, l, 32))
        buf_tmp == Spread(packed)
        outbuf  == haraka512(Final, l, PutAt(Lane(buf_tmp, l, 64), SPX_ADDR_BYTES,
                                             Take(Masked(In(c, 1, l), pad.out), c.n)))
        bitmask == HarakaSX4(Mask(0), l, Addr(l), k * c.n)
    IN  IF k = 1 THEN Result(pad.digests @@ outbuf.digests, Take(outbuf.out, c.n))
        ELSE WithMask(bitmask, HarakaSX4(Final, l, Addr(l) \o Masked(In(c, k, l), bitmask.out), c.n))

prf_addr_harakax4(c, l) ==
    LET bufx4  == PutLanes(Zeros(256), LAMBDA j : Addr(j) \o SkSeed(c), 64, 4)
        outbuf == haraka512(Final, l, Lane(bufx4, l, 64))
    IN  Result(outbuf.digests, Take(outbuf.out, c.n))

gen_message_random_haraka(c, mlen) ==
    LET s == haraka_S_inc_absorb(haraka_S_inc_absorb(haraka_S_inc_absorb(
                 haraka_S_inc_init, Bytes("sk_prf", c.n)), Bytes("optrand", c.n)), Bytes("m", mlen))
    IN  SpongeRead(Final, 0, "haraka512_perm", haraka_S_inc_squeeze(haraka_S_inc_finalize(s), c.n))

hash_message_haraka(c, mlen) ==
    LET s == haraka_S_inc_absorb(haraka_S_inc_absorb(haraka_S_inc_absorb(
                 haraka_S_inc_init, Bytes("R", c.n)), Bytes("root", c.n)), Bytes("m", mlen))
    IN  SpongeRead(Final, 0, "haraka512_perm",
                   haraka_S_inc_squeeze(haraka_S_inc_finalize(s), DgstBytes(c)))

----------------------------------------------------------------------------
(***************************************************************************)
(* The functions as the submission defines them, over whole messages.      *)
(***************************************************************************)
Sponge(label, l, by, r, m, k) ==
    Result(Digest(label, by, StandardSponge(m, r, 31)), ReadAt(label, l, StandardOut(m, r, k)))
Sha(label, l, B, m, k) ==
    Result(Digest(label, IF B = 64 THEN "sha256" ELSE "sha512", StandardSha(m, B)),
           ReadAt(label, l, Places(0, k)))
Mgf1(l, B, m, k) ==
    LET size == B \div 2
        by   == IF B = 64 THEN "sha256" ELSE "sha512"
    IN  Result([d \in {Mask(i) : i \in 0 .. (k - 1) \div size} |->
                   [by |-> by, blocks |-> StandardSha(m \o u32_to_bytes(d[2]), B)]],
               [j \in 1 .. k |-> {<<"d", Mask((j - 1) \div size), l, <<0, (j - 1) % size>>>>}])

DefinedThash(c, robust, k, l) ==
    LET in      == In(c, k, l)
        B       == IF c.sha512 /\ k > 1 THEN 128 ELSE 64
        single  == c.family = "haraka" /\ k = 1
        mask    == CASE c.family = "shake" ->
                            Sponge(Mask(0), l, "keccak", SHAKE256_RATE, PubSeed(c) \o Addr(l), k * c.n)
                     [] c.family = "sha2" -> Mgf1(l, B, PubSeed(c) \o ShortAddr(l), k * c.n)
                     [] single -> haraka256(Mask(0), l, Addr(l))
                     [] OTHER -> Sponge(Mask(0), l, "haraka512_perm", HARAKAS_RATE, Addr(l), k * c.n)
        m       == IF robust THEN Masked(in, mask.out) ELSE in
        body    == CASE c.family = "shake" ->
                            Sponge(Final, l, "keccak", SHAKE256_RATE, PubSeed(c) \o Addr(l) \o m, c.n)
                     [] c.family = "sha2" ->
                            Sha(Final, l, B, PubSeed(c) \o Zeros(B - c.n) \o ShortAddr(l) \o m, c.n)
                     [] single -> LET f == haraka512(Final, l, Padded64(Addr(l) \o m))
                                  IN  Result(f.digests, Take(f.out, c.n))
                     [] OTHER -> Sponge(Final, l, "haraka512_perm", HARAKAS_RATE, Addr(l) \o m, c.n)
    IN  IF robust THEN WithMask(mask, body) ELSE body

DefinedPrf(c, l) ==
    CASE c.family = "shake" ->
            Sponge(Final, l, "keccak", SHAKE256_RATE, PubSeed(c) \o Addr(l) \o SkSeed(c), c.n)
      [] c.family = "sha2" ->
            Sha(Final, l, 64, PubSeed(c) \o Zeros(64 - c.n) \o ShortAddr(l) \o SkSeed(c), c.n)
      [] OTHER -> LET f == haraka512(Final, l, Padded64(Addr(l) \o SkSeed(c)))
                  IN  Result(f.digests, Take(f.out, c.n))

\* HMAC for SHA-2; the others hash key, randomisation and message.
DefinedRandom(c, mlen) ==
    LET m     == Bytes("optrand", c.n) \o Bytes("m", mlen)
        B     == IF c.n = 16 THEN 64 ELSE 128
        inner == Sha(Inner, 0, B, XorAt(All(54, B), 0, Bytes("sk_prf", c.n)) \o m, B \div 2)
        outer == Sha(Final, 0, B, XorAt(All(92, B), 0, Bytes("sk_prf", c.n)) \o inner.out, c.n)
    IN  CASE c.family = "shake" ->
                Sponge(Final, 0, "keccak", SHAKE256_RATE, Bytes("sk_prf", c.n) \o m, c.n)
          [] c.family = "sha2" -> WithMask(inner, outer)
          [] OTHER -> Sponge(Final, 0, "haraka512_perm", HARAKAS_RATE, Bytes("sk_prf", c.n) \o m, c.n)

\* The digest lengths of the parameter sets as published.
DigestLength(c) ==
    CHOOSE len \in {30, 34, 39, 42, 47, 49} :
        <<c.n, c.d, len>> \in {<<16, 7, 30>>, <<16, 22, 34>>, <<24, 7, 39>>, <<24, 22, 42>>,
                               <<32, 8, 47>>, <<32, 17, 49>>}
DefinedMessage(c, mlen) ==
    LET m    == Bytes("m", mlen)
        B    == IF c.n = 16 THEN 64 ELSE 128
        seed == Sha(Inner, 0, B, Bytes("R", c.n) \o PublicKey(c) \o m, B \div 2)
    IN  CASE c.family = "shake" ->
                Sponge(Final, 0, "keccak", SHAKE256_RATE,
                       Bytes("R", c.n) \o PublicKey(c) \o m, DigestLength(c))
          [] c.family = "sha2" ->
                WithMask(seed, Mgf1(0, B, Bytes("R", c.n) \o PubSeed(c) \o seed.out, DigestLength(c)))
          [] OTHER -> Sponge(Final, 0, "haraka512_perm", HARAKAS_RATE,
                             Bytes("R", c.n) \o Bytes("root", c.n) \o m, DigestLength(c))

----------------------------------------------------------------------------
Lanes == [ref |-> {0}, batch |-> 0 .. 3, x2 |-> 0 .. 1, x4 |-> 0 .. 3, x8 |-> 0 .. 7]

CodesOf(c, robust) == CASE c.family = "shake" -> {"ref", "x2", "x4"} \cup
                                                 (IF robust THEN {} ELSE {"batch"})
                        [] c.family = "sha2"  -> {"ref", "x8"}
                        [] OTHER              -> {"ref", "x4"}

\* Calls of one, two and more blocks; the messages around the ends of blocks.
ThashBlocks == {1, 2, 3, 5}
AroundEnds(c) ==
    LET ends == {64, 128, 136, 256} \cup {32, 96}
    IN  {0, 1} \cup UNION {{e - c.n - 1, e - c.n, e - 3 * c.n - 1, e - 3 * c.n} : e \in ends}

Jobs ==
    UNION {{[fn |-> "thash", c |-> c, robust |-> rb, code |-> code, size |-> k] :
               code \in CodesOf(c, rb), k \in ThashBlocks} :
           c \in ThashSets, rb \in BOOLEAN}
    \cup UNION {{[fn |-> "prf", c |-> c, robust |-> FALSE, code |-> code, size |-> 1] :
                    code \in CodesOf(c, TRUE)} : c \in ThashSets}
    \cup UNION {{[fn |-> fn, c |-> c, robust |-> FALSE, code |-> "ref", size |-> mlen] :
                    fn \in {"random", "message"}, mlen \in AroundEnds(c) \cap Nat} :
                c \in MessageSets}

Thash(j, l) ==
    LET c == j.c   k == j.size
    IN  CASE c.family = "shake" /\ j.code = "ref" /\ ~j.robust -> thash_shake_simple(c, k, l)
          [] c.family = "shake" /\ j.code = "ref" /\ j.robust  -> thash_shake_robust(c, k, l)
          [] j.code = "batch"                                  -> thashx4_batch(c, k, l)
          [] c.family = "shake" /\ j.code = "x4" /\ ~j.robust  -> thash_shake_simplex4(c, k, l)
          [] c.family = "shake" /\ j.code = "x4" /\ j.robust   -> thash_shake_robustx4(c, k, l)
          [] j.code = "x2" /\ ~j.robust                        -> thash_shake_simplex2(c, k, l)
          [] j.code = "x2" /\ j.robust                         -> thash_shake_robustx2(c, k, l)
          [] c.family = "sha2" /\ j.code = "ref" /\ ~j.robust  -> thash_sha2_simple(c, k, l)
          [] c.family = "sha2" /\ j.code = "ref" /\ j.robust   -> thash_sha2_robust(c, k, l)
          [] j.code = "x8" /\ ~j.robust                        -> thash_sha2_simplex8(c, k, l)
          [] j.code = "x8" /\ j.robust                         -> thash_sha2_robustx8(c, k, l)
          [] c.family = "haraka" /\ j.code = "ref" /\ ~j.robust -> thash_haraka_simple(c, k, l)
          [] c.family = "haraka" /\ j.code = "ref" /\ j.robust  -> thash_haraka_robust(c, k, l)
          [] c.family = "haraka" /\ j.code = "x4" /\ ~j.robust  -> thash_haraka_simplex4(c, k, l)
          [] c.family = "haraka" /\ j.code = "x4" /\ j.robust   -> thash_haraka_robustx4(c, k, l)

Prf(j, l) ==
    LET c == j.c
    IN  CASE c.family = "shake" /\ j.code = "ref"  -> prf_addr_shake(c, l)
          [] c.family = "shake" /\ j.code = "x4"   -> prf_addr_shakex4(c, l)
          [] j.code = "x2"                         -> prf_addr_shakex2(c, l)
          [] c.family = "sha2" /\ j.code = "ref"   -> prf_addr_sha2(c, l)
          [] j.code = "x8"                         -> prf_addr_sha2x8(c, l)
          [] c.family = "haraka" /\ j.code = "ref" -> prf_addr_haraka(c, l)
          [] c.family = "haraka" /\ j.code = "x4"  -> prf_addr_harakax4(c, l)

Random(j)  == CASE j.c.family = "shake" -> gen_message_random_shake(j.c, j.size)
                [] j.c.family = "sha2"  -> gen_message_random_sha2(j.c, j.size)
                [] OTHER                -> gen_message_random_haraka(j.c, j.size)
HashMessage(j) == CASE j.c.family = "shake" -> hash_message_shake(j.c, j.size)
                    [] j.c.family = "sha2"  -> hash_message_sha2(j.c, j.size)
                    [] OTHER                -> hash_message_haraka(j.c, j.size)

Defined(j, l) == CASE j.fn = "thash"  -> DefinedThash(j.c, j.robust, j.size, l)
                   [] j.fn = "prf"    -> DefinedPrf(j.c, l)
                   [] j.fn = "random" -> DefinedRandom(j.c, j.size)
                   [] OTHER           -> DefinedMessage(j.c, j.size)

HashInit ==
    /\ hJob \in Jobs
    /\ hDone = FALSE
    /\ hResult = <<>>

HashCall ==
    /\ ~hDone
    /\ hDone' = TRUE
    /\ hResult' = [l \in Lanes[hJob.code] |->
                      CASE hJob.fn = "thash"  -> Thash(hJob, l)
                        [] hJob.fn = "prf"    -> Prf(hJob, l)
                        [] hJob.fn = "random" -> Random(hJob)
                        [] OTHER              -> HashMessage(hJob)]
    /\ UNCHANGED hJob

HashNext == HashCall

(***************************************************************************)
(* Every code of every hash function computes what the submission defines: *)
(* the same bytes, of digests that were given the same blocks, in every    *)
(* lane.  The states written by hand are the padded messages of the        *)
(* sponge - with two blocks of 32 bytes both ends of the padding meet in   *)
(* one word - nothing of them is left over from before, and a message as   *)
(* long as the room in its prefix's last block is hashed once.             *)
(***************************************************************************)
HashesAreDefined ==
    hDone => \A l \in DOMAIN hResult :
                LET want == Defined(hJob, l)
                IN  /\ hResult[l].out = want.out
                    /\ \A d \in DOMAIN want.digests :
                          d \in DOMAIN hResult[l].digests /\ hResult[l].digests[d] = want.digests[d]
=============================================================================
