----------------------------- MODULE SpxWords -----------------------------
(***************************************************************************)
(* The data every module of the batch coprocessor moves: 32-bit words, the *)
(* 128-bit and 256-bit values they make up, and the descriptor header.     *)
(*                                                                         *)
(* A data word is known by where it came from (src) and by its most        *)
(* significant byte (msb): overwriting byte 31 of an address, the hash     *)
(* step, is the only operation the hardware performs on part of a word.    *)
(* A value is a function from word index to word.                          *)
(***************************************************************************)
EXTENDS Naturals

Lane == 0 .. 3
Digest == 0 .. 3        \* the word indices of a 128-bit value
Wide   == 0 .. 7        \* the word indices of a 256-bit value
Byte   == 0 .. 255

ZeroWord == [src |-> <<"zero">>, msb |-> 0]
ZeroDigest == [i \in Digest |-> ZeroWord]
ZeroWide   == [i \in Wide |-> ZeroWord]

\* The low 128 bits of a 256-bit value, and a 128-bit value zero-extended.
LowHalf(wide) == [i \in Digest |-> wide[i]]
ZeroExtend(digest) == [i \in Wide |-> IF i \in Digest THEN digest[i] ELSE ZeroWord]

\* An address with its hash-step field, byte 31, replaced.
AddrWithHash(addr, step) == [addr EXCEPT ![7].msb = step]

----------------------------------------------------------------------------
(***************************************************************************)
(* The descriptor header, eight words: flags and status, configuration,    *)
(* four pointers, and two words of four bytes each that hold the chain     *)
(* windows (word 6 the start steps, word 7 the step counts of a mixed job; *)
(* bytes 0 and 1 of word 7 the start and the count of a uniform one).      *)
(***************************************************************************)
Header == 0 .. 7

OP_TYPE_THASHX4            == 0
OP_TYPE_WOTS_CHAINX4       == 1
OP_TYPE_WOTS_CHAINX4_MIXED == 2

ERR_NONE        == 0
ERR_BAD_CONFIG  == 1
ERR_BAD_ALIGN   == 2
ERR_MEM_READ    == 3
ERR_MEM_WRITE   == 4
ERR_BAD_OP_TYPE == 5
ERR_BAD_CHAIN   == 6

StatusWord(inline, done, error, code) ==
    [inline |-> inline, done |-> done, error |-> error, code |-> code]
ConfigWord(op, variant, lanes, inblocks) ==
    [op |-> op, variant |-> variant, lanes |-> lanes, inblocks |-> inblocks]
PointerWord(a) == [ptr |-> a]
BytesWord(b0, b1, b2, b3) ==
    [bytes |-> [l \in Lane |-> <<b0, b1, b2, b3>>[l + 1]]]

ZeroHeader ==
    [w \in Header |-> CASE w = 0 -> StatusWord(FALSE, FALSE, FALSE, ERR_NONE)
                        [] w = 1 -> ConfigWord(0, 0, 0, 0)
                        [] w \in 2 .. 5 -> PointerWord(0)
                        [] w \in 6 .. 7 -> BytesWord(0, 0, 0, 0)]

WotsOp(op) == op \in {OP_TYPE_WOTS_CHAINX4, OP_TYPE_WOTS_CHAINX4_MIXED}
============================================================================
