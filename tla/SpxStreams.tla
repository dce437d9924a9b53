----------------------------- MODULE SpxStreams -----------------------------
(***************************************************************************)
(* The hash streams the signature code is built on: the sponges of         *)
(* fips202, fips202x4, fips202x2 and haraka, incremental and at one go,    *)
(* and the SHA-2 of sha2, sha256x8 and sha512x4, seeded or not.            *)
(*                                                                         *)
(* A byte is the set of the names that are XORed into it; zero is the      *)
(* empty set.  A permutation or a compression is determined by what it     *)
(* and all before it were given: a state keeps the blocks given so far,    *)
(* and for a sponge what has been XORed in since the last permutation.     *)
(* The parallel versions treat their lanes alike; one lane is modelled.    *)
(***************************************************************************)
EXTENDS Integers, Sequences, FiniteSetsExt

CONSTANTS Pieces,          \* the lengths a caller may feed or ask for, for each size of a block
          Wholes,          \* those that are hashed at one go, or at last
          MaxCalls         \* bound: absorbing calls, and squeezing calls

BlockSizes == {32, 64, 128, 136, 168}
ASSUME LengthsAssumption == Pieces \in [BlockSizes -> SUBSET Nat] /\ Wholes \in [BlockSizes -> SUBSET Nat]

VARIABLES sApi,            \* whose stream
          sState,
          sFed,            \* message bytes absorbed
          sCalls,
          sPhase,          \* "absorbing", "squeezing"
          sOut             \* bytes squeezed, each as <<permutations before it, place>>

streamVars == <<sApi, sState, sFed, sCalls, sPhase, sOut>>

Const(v)   == IF v = 0 THEN {} ELSE {<<"c", v>>}
Zeros(n)   == [i \in 1 .. n |-> {}]
XorAt(block, at, m) ==
    [i \in DOMAIN block |-> IF i - at \in DOMAIN m THEN SymDiff(block[i], m[i - at]) ELSE block[i]]
PutAt(block, at, m) ==
    [i \in DOMAIN block |-> IF i - at \in DOMAIN m THEN m[i - at] ELSE block[i]]
Take(m, n) == SubSeq(m, 1, n)
Drop(m, n) == SubSeq(m, n + 1, Len(m))

SHAKE128_RATE == 168
SHAKE256_RATE == 136
HARAKAS_RATE  == 32

----------------------------------------------------------------------------
(***************************************************************************)
(* Sponges                                                                 *)
(***************************************************************************)
keccak_inc_init(r) == [blocks |-> <<>>, cur |-> Zeros(r), n |-> 0]

Permuted(s) == [s EXCEPT !.blocks = Append(@, s.cur), !.cur = Zeros(Len(@))]

\* One turn of the loop: a block is filled, and what filled it is done with.
FillBlock(x, r) ==
    LET k == r - x.s.n
    IN  [s |-> Permuted([x.s EXCEPT !.cur = XorAt(@, x.s.n, Take(x.m, k)), !.n = 0]), m |-> Drop(x.m, k)]
keccak_inc_absorb(s, r, m) ==
    LET turns == (Len(m) + s.n) \div r
        fill[t \in 0 .. turns] == IF t = 0 THEN [s |-> s, m |-> m] ELSE FillBlock(fill[t - 1], r)
        x == fill[turns]
    IN  [x.s EXCEPT !.cur = XorAt(@, x.s.n, x.m), !.n = @ + Len(x.m)]

keccak_inc_finalize(s, r, p) ==
    [s EXCEPT !.cur = XorAt(XorAt(@, s.n, <<Const(p)>>), r - 1, <<Const(128)>>), !.n = 0]

\* One turn of the loop: a block, or what is still wanted of it.
SqueezeBlock(x, r) ==
    LET next == Permuted(x.state)
        k    == IF x.outlen < r THEN x.outlen ELSE r
    IN  [state  |-> [next EXCEPT !.n = r - k],
         out    |-> x.out \o [i \in 1 .. k |-> <<Len(next.blocks), i - 1>>],
         outlen |-> x.outlen - k]
\* What is left of the last block first.
keccak_inc_squeeze(s, r, outlen) ==
    LET k     == IF outlen < s.n THEN outlen ELSE s.n
        turns == (outlen - k + r - 1) \div r
        squeeze[t \in 0 .. turns] ==
            IF t = 0 THEN [state  |-> [s EXCEPT !.n = @ - k],
                           out    |-> [i \in 1 .. k |-> <<Len(s.blocks), r - s.n + i - 1>>],
                           outlen |-> outlen - k]
            ELSE SqueezeBlock(squeeze[t - 1], r)
    IN  squeeze[turns]

haraka_S_inc_init           == keccak_inc_init(HARAKAS_RATE)
haraka_S_inc_absorb(s, m)   == keccak_inc_absorb(s, HARAKAS_RATE, m)
haraka_S_inc_finalize(s)    == keccak_inc_finalize(s, HARAKAS_RATE, 31)
haraka_S_inc_squeeze(s, n)  == keccak_inc_squeeze(s, HARAKAS_RATE, n)
shake256_inc_absorb(s, m)   == keccak_inc_absorb(s, SHAKE256_RATE, m)
shake256_inc_finalize(s)    == keccak_inc_finalize(s, SHAKE256_RATE, 31)
shake256_inc_squeeze(s, n)  == keccak_inc_squeeze(s, SHAKE256_RATE, n)

\* At one go: whole blocks from the message, the last one built beside it.
AbsorbBlock(x, r) ==
    [s |-> Permuted([x.s EXCEPT !.cur = XorAt(@, 0, Take(x.m, r))]), m |-> Drop(x.m, r)]
keccak_absorb(m, r, p) ==
    LET turns == Len(m) \div r
        absorb[t \in 0 .. turns] ==
            IF t = 0 THEN [s |-> keccak_inc_init(r), m |-> m] ELSE AbsorbBlock(absorb[t - 1], r)
        x == absorb[turns]
        last == PutAt(PutAt(Zeros(r), 0, x.m), Len(x.m), <<Const(p)>>)
    IN  [x.s EXCEPT !.cur = XorAt(@, 0, XorAt(last, r - 1, <<Const(128)>>))]

WholeBlock(x, r) ==
    LET next == Permuted(x.state)
    IN  [state |-> next, out |-> x.out \o [i \in 1 .. r |-> <<Len(next.blocks), i - 1>>]]
keccak_squeezeblocks(s, r, nblocks) ==
    LET squeeze[t \in 0 .. nblocks] ==
            IF t = 0 THEN [state |-> s, out |-> <<>>] ELSE WholeBlock(squeeze[t - 1], r)
    IN  squeeze[nblocks]

\* Whole blocks to the output, the last, broken one by way of a buffer.
OneShot(m, r, outlen) ==
    LET whole == keccak_squeezeblocks(keccak_absorb(m, r, 31), r, outlen \div r)
        last  == keccak_squeezeblocks(whole.state, r, 1)
    IN  IF outlen % r = 0 THEN whole
        ELSE [state |-> last.state, out |-> whole.out \o Take(last.out, outlen % r)]

keccak_absorb4x(m, r, p) == keccak_absorb(m, r, p)
keccak_absorb2x(m, r, p) == keccak_absorb(m, r, p)
keccak_squeezeblocks4x(s, r, nblocks) == keccak_squeezeblocks(s, r, nblocks)
keccak_squeezeblocks2x(s, r, nblocks) == keccak_squeezeblocks(s, r, nblocks)

shake256(m, outlen)   == OneShot(m, SHAKE256_RATE, outlen)
shake256x4(m, outlen) == OneShot(m, SHAKE256_RATE, outlen)
shake128x4(m, outlen) == OneShot(m, SHAKE128_RATE, outlen)
shake256x2(m, outlen) == OneShot(m, SHAKE256_RATE, outlen)
shake128x2(m, outlen) == OneShot(m, SHAKE128_RATE, outlen)
haraka_S(m, outlen)   == OneShot(m, HARAKAS_RATE, outlen)
haraka_Sx4(m, outlen) == OneShot(m, HARAKAS_RATE, outlen)

----------------------------------------------------------------------------
(***************************************************************************)
(* SHA-2, for blocks of B bytes: 64 for SHA-256, 128 for SHA-512.  n       *)
(* counts the bytes (bits, in the parallel codes) that went in.            *)
(***************************************************************************)
BlocksOf(m, B) == [k \in 1 .. Len(m) \div B |-> SubSeq(m, (k - 1) * B + 1, k * B)]
RestOf(m, B)   == Drop(m, (Len(m) \div B) * B)

ShiftRight(v, k) == LET shift[i \in 0 .. k] == IF i = 0 THEN v ELSE shift[i - 1] \div 2 IN shift[k]
LowByte(v)       == Const(v % 256)

sha_inc_init == [blocks |-> <<>>, n |-> 0]

crypto_hashblocks(s, m, B) == [s EXCEPT !.blocks = @ \o BlocksOf(m, B)]

sha256_inc_blocks(s, m) == [crypto_hashblocks(s, m, 64) EXCEPT !.n = @ + Len(m)]
sha512_inc_blocks(s, m) == [crypto_hashblocks(s, m, 128) EXCEPT !.n = @ + Len(m)]

\* The bytes of the bit count, from the highest shift down.
CountBytes(bytes, shift) ==
    [k \in 1 .. (shift + 3) \div 8 |-> LowByte(ShiftRight(bytes, shift - 8 * (k - 1)))]
        \o <<LowByte(bytes * 8)>>

sha256_inc_finalize(s, in) ==
    LET rest   == RestOf(in, 64)
        space  == IF Len(rest) < 56 THEN 55 - Len(rest) ELSE 119 - Len(rest)
        padded == rest \o <<Const(128)>> \o Zeros(space) \o CountBytes(s.n + Len(in), 53)
    IN  crypto_hashblocks(crypto_hashblocks(s, in, 64), padded, 64)

sha512_inc_finalize(s, in) ==
    LET rest   == RestOf(in, 128)
        space  == IF Len(rest) < 112 THEN 118 - Len(rest) ELSE 246 - Len(rest)
        padded == rest \o <<Const(128)>> \o Zeros(space) \o CountBytes(s.n + Len(in), 61)
    IN  crypto_hashblocks(crypto_hashblocks(s, in, 128), padded, 128)

sha256(m) == sha256_inc_finalize(sha_inc_init, m)
sha512(m) == sha512_inc_finalize(sha_inc_init, m)

\* The fault takes a block to have room for the bit count that has one byte
\* less.
PadTooTight(s, rest, B) ==
    LET bits  == s.n + 8 * Len(rest)
        block == PutAt(PutAt(Zeros(B), 0, rest), Len(rest), <<Const(128)>>)
        tight == Len(rest) > B - B \div 8
        count == [k \in 1 .. 8 |-> LowByte(ShiftRight(bits, 64 - 8 * k))]
        last  == PutAt(IF tight THEN Zeros(B) ELSE block, B - 8, count)
    IN  [blocks |-> s.blocks \o (IF tight THEN <<block>> ELSE <<>>) \o <<last>>, n |-> bits]

\* The parallel codes pad in the lane's own block, and may have to give it
\* away before there is room for the bit count.
PadInPlace(s, rest, B) ==
    LET bits  == s.n + 8 * Len(rest)
        block == PutAt(PutAt(Zeros(B), 0, rest), Len(rest), <<Const(128)>>)
        tight == Len(rest) >= B - B \div 8
        count == [k \in 1 .. 8 |-> LowByte(ShiftRight(bits, 64 - 8 * k))]
        last  == PutAt(IF tight THEN Zeros(B) ELSE block, B - 8, count)
    IN  [blocks |-> s.blocks \o (IF tight THEN <<block>> ELSE <<>>) \o <<last>>, n |-> bits]

AbsorbWhole(s, m, B) ==
    [blocks |-> s.blocks \o BlocksOf(m, B), n |-> s.n + 8 * B * (Len(m) \div B)]

sha256_final8x(s, rest) == PadInPlace(s, rest, 64)
_sha256x8(s, m) == sha256_final8x(AbsorbWhole(s, m, 64), RestOf(m, 64))
_sha512x4(s, m) == PadInPlace(AbsorbWhole(s, m, 128), RestOf(m, 128), 128)

sha256x8(m)                     == _sha256x8(sha_inc_init, m)
sha256x8_seeded(seed, len, m)   == _sha256x8([blocks |-> seed, n |-> len], m)
sha512x4_seeded(seed, len, m)   == _sha512x4([blocks |-> seed, n |-> len], m)

----------------------------------------------------------------------------
(***************************************************************************)
(* What the standards say the permutations and compressions are given.     *)
(***************************************************************************)
StandardSponge(m, r, p) ==
    LET room == ((Len(m) \div r) + 1) * r
    IN  BlocksOf(XorAt(XorAt(PutAt(Zeros(room), 0, m), Len(m), <<Const(p)>>),
                       room - 1, <<Const(128)>>), r)

\* The bit count of v bytes, big-endian, in the last bytes of the last block.
StandardSha(m, B) ==
    LET room == ((Len(m) + 1 + B \div 8 + B - 1) \div B) * B
        bits == 8 * Len(m)
    IN  BlocksOf([i \in 1 .. room |->
                     IF i <= Len(m) THEN m[i] ELSE IF i = Len(m) + 1 THEN Const(128)
                     ELSE IF i <= room - B \div 8 THEN {} ELSE LowByte(ShiftRight(bits, 8 * (room - i)))], B)

StandardOut(m, r, outlen) ==
    [i \in 1 .. outlen |-> <<(Len(m) \div r) + 1 + (i - 1) \div r, (i - 1) % r>>]

----------------------------------------------------------------------------
(***************************************************************************)
(* A caller feeds a message in pieces, or all of it, and asks for output.  *)
(***************************************************************************)
Message(from, to) == [i \in 1 .. to - from |-> {<<"m", from + i>>}]
SeedBlock(B)      == [i \in 1 .. B |-> {<<"m", i>>}]

SpongeRate == [shake256_inc |-> SHAKE256_RATE, haraka_S_inc |-> HARAKAS_RATE,
               shake256 |-> SHAKE256_RATE, shake256x4 |-> SHAKE256_RATE,
               shake256x2 |-> SHAKE256_RATE, shake128x4 |-> SHAKE128_RATE,
               shake128x2 |-> SHAKE128_RATE, haraka_S |-> HARAKAS_RATE,
               haraka_Sx4 |-> HARAKAS_RATE]
ShaBlock   == [sha256_inc |-> 64, sha512_inc |-> 128, sha256 |-> 64, sha512 |-> 128,
               sha256x8 |-> 64, sha256x8_seeded |-> 64, sha512x4_seeded |-> 128]

Incremental == {"shake256_inc", "haraka_S_inc", "sha256_inc", "sha512_inc"}
Seeded      == {"sha256x8_seeded", "sha512x4_seeded"}
OfSponge    == DOMAIN SpongeRate
OfSha       == DOMAIN ShaBlock

\* The bits of so many bytes are counted in 64 bits.
Countable(bytes) == ShiftRight(bytes, 61) = 0

StreamsInit ==
    /\ sApi \in OfSponge \cup OfSha
    /\ sState = CASE sApi = "shake256_inc" -> keccak_inc_init(SHAKE256_RATE)
                  [] sApi = "haraka_S_inc" -> haraka_S_inc_init
                  [] OTHER -> sha_inc_init
    /\ sFed = 0
    /\ sCalls = 0
    /\ sPhase = "absorbing"
    /\ sOut = <<>>

AbsorbPiece ==
    /\ sPhase = "absorbing"
    /\ sApi \in {"shake256_inc", "haraka_S_inc"}
    /\ sCalls < MaxCalls
    /\ \E k \in Pieces[SpongeRate[sApi]] :
          LET m == Message(sFed, sFed + k)
          IN  /\ sState' = IF sApi = "shake256_inc" THEN shake256_inc_absorb(sState, m)
                                                    ELSE haraka_S_inc_absorb(sState, m)
              /\ sFed' = sFed + k
    /\ sCalls' = sCalls + 1
    /\ UNCHANGED <<sApi, sPhase, sOut>>

FinalizeSponge ==
    /\ sPhase = "absorbing"
    /\ sApi \in {"shake256_inc", "haraka_S_inc"}
    /\ sState' = IF sApi = "shake256_inc" THEN shake256_inc_finalize(sState)
                                          ELSE haraka_S_inc_finalize(sState)
    /\ sPhase' = "squeezing"
    /\ sCalls' = 0
    /\ UNCHANGED <<sApi, sFed, sOut>>

SqueezePiece ==
    /\ sPhase = "squeezing"
    /\ sApi \in {"shake256_inc", "haraka_S_inc"}
    /\ sCalls < MaxCalls
    /\ \E k \in Pieces[SpongeRate[sApi]] :
          LET res == IF sApi = "shake256_inc" THEN shake256_inc_squeeze(sState, k)
                                              ELSE haraka_S_inc_squeeze(sState, k)
          IN  sState' = res.state /\ sOut' = sOut \o res.out
    /\ sCalls' = sCalls + 1
    /\ UNCHANGED <<sApi, sFed, sPhase>>

AbsorbBlocks ==
    /\ sPhase = "absorbing"
    /\ sApi \in {"sha256_inc", "sha512_inc"}
    /\ sCalls < MaxCalls
    /\ \E k \in Pieces[ShaBlock[sApi]] :
          LET m == Message(sFed, sFed + k)
          IN  /\ k % ShaBlock[sApi] = 0 /\ Countable(sFed + k)
              /\ sState' = IF sApi = "sha256_inc" THEN sha256_inc_blocks(sState, m)
                                                  ELSE sha512_inc_blocks(sState, m)
              /\ sFed' = sFed + k
    /\ sCalls' = sCalls + 1
    /\ UNCHANGED <<sApi, sPhase, sOut>>

FinalizeSha ==
    /\ sPhase = "absorbing"
    /\ sApi \in {"sha256_inc", "sha512_inc"}
    /\ \E k \in Wholes[ShaBlock[sApi]] :
          LET m == Message(sFed, sFed + k)
          IN  /\ Countable(sFed + k)
              /\ sState' = IF sApi = "sha256_inc" THEN sha256_inc_finalize(sState, m)
                                                  ELSE sha512_inc_finalize(sState, m)
              /\ sFed' = sFed + k
    /\ sPhase' = "squeezing"
    /\ UNCHANGED <<sApi, sCalls, sOut>>

SpongeAtOnce ==
    /\ sPhase = "absorbing"
    /\ sApi \in OfSponge \ Incremental
    /\ \E k, n \in Wholes[SpongeRate[sApi]] :
          LET m   == Message(0, k)
              res == CASE sApi = "shake256"   -> shake256(m, n)
                       [] sApi = "shake256x4" -> shake256x4(m, n)
                       [] sApi = "shake256x2" -> shake256x2(m, n)
                       [] sApi = "shake128x4" -> shake128x4(m, n)
                       [] sApi = "shake128x2" -> shake128x2(m, n)
                       [] sApi = "haraka_S"   -> haraka_S(m, n)
                       [] sApi = "haraka_Sx4" -> haraka_Sx4(m, n)
          IN  sState' = res.state /\ sOut' = res.out /\ sFed' = k
    /\ sPhase' = "squeezing"
    /\ UNCHANGED <<sApi, sCalls>>

ShaAtOnce ==
    /\ sPhase = "absorbing"
    /\ sApi \in OfSha \ Incremental
    /\ \E k \in Wholes[ShaBlock[sApi]] :
          LET B == ShaBlock[sApi]
              m == IF sApi \in Seeded THEN Message(B, B + k) ELSE Message(0, k)
          IN  /\ Countable(B + k)
              /\ sState' = CASE sApi = "sha256"   -> sha256(m)
                             [] sApi = "sha512"   -> sha512(m)
                             [] sApi = "sha256x8" -> sha256x8(m)
                             [] sApi = "sha256x8_seeded" -> sha256x8_seeded(<<SeedBlock(64)>>, 512, m)
                             [] sApi = "sha512x4_seeded" -> sha512x4_seeded(<<SeedBlock(128)>>, 1024, m)
              /\ sFed' = IF sApi \in Seeded THEN B + k ELSE k
    /\ sPhase' = "squeezing"
    /\ UNCHANGED <<sApi, sCalls, sOut>>

StreamsNext ==
    \/ AbsorbPiece \/ FinalizeSponge \/ SqueezePiece
    \/ AbsorbBlocks \/ FinalizeSha
    \/ SpongeAtOnce \/ ShaAtOnce

StreamsSpec == StreamsInit /\ [][StreamsNext]_streamVars

----------------------------------------------------------------------------
(***************************************************************************)
(* However a message is cut into calls, whichever code hashes it and       *)
(* however the output is asked for, the permutation is given the padded    *)
(* message of the standard and no other block but zeros, and the output    *)
(* is its rate, byte after byte.  A piece that ends one byte short of a    *)
(* block, fills it or runs over it, output that stops there, and a rest    *)
(* that leaves no room for the bit count are where the codes differ.       *)
(***************************************************************************)
StreamsAreStandard ==
    sPhase = "squeezing" =>
        IF sApi \in OfSponge
        THEN LET r    == SpongeRate[sApi]
                 m    == Message(0, sFed)
                 want == StandardSponge(m, r, 31)
                 done == Len(sState.blocks)
             IN  /\ \A k \in 1 .. done + 1 :
                       Append(sState.blocks, sState.cur)[k]
                           = IF k <= Len(want) THEN want[k] ELSE Zeros(r)
                 /\ Len(want) <= done + 1
                 /\ sOut = StandardOut(m, r, Len(sOut))
        ELSE sState.blocks = StandardSha(Message(0, sFed), ShaBlock[sApi])
=============================================================================
