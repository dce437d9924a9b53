----------------------------- MODULE WotsDigits -----------------------------
(***************************************************************************)
(* The digits of a digest that WOTS+ signs, its message digits and those   *)
(* of its checksum, and what a signature of them gives away.               *)
(*                                                                         *)
(* Who has the value of a chain can hash it further, so a digest none of   *)
(* whose digits is smaller could be signed from a signature of this one;   *)
(* the checksum's digits are there to make every digest smaller somewhere. *)
(* They depend on the sum of the message digits alone, so one digest for   *)
(* every sum is enough to look at, each chosen above the one before.       *)
(***************************************************************************)
EXTENDS SpxParams, Sequences, FiniteSetsExt

CONSTANT DigitSets      \* the parameter sets, for each length of a hash

\* What a header makes of n; it refuses other lengths.
WotsLengths(b) ==
    /\ b.n \in 2 .. 256
    /\ b.wots_len1 = 2 * b.n
    /\ b.wots_len2 = WotsLen2(b.n)
    /\ b.wots_len = b.wots_len1 + b.wots_len2
ASSUME DigitSetsAssumption == \A b \in DigitSets : WotsLengths(b)

VARIABLES wSet,         \* the one looked at
          wSum          \* the sum of the digits of a digest that was signed
digitsVars == <<wSet, wSum>>

SPX_WOTS_W == 16

ByteOf(v, place) == IF place > 3 THEN 0 ELSE (v \div 256 ^ place) % 256

base_w(out_len, input) ==
    [i \in 1 .. out_len |-> IF i % 2 = 1 THEN input[(i + 1) \div 2] \div 16
                                         ELSE input[(i + 1) \div 2] % 16]

\* What the message digits leave of the largest sum.
Csum(b, digits) ==
    LET csum[i \in 0 .. b.wots_len1] ==
            IF i = 0 THEN 0 ELSE csum[i - 1] + (SPX_WOTS_W - 1 - digits[i])
    IN  csum[b.wots_len1]

UnshiftedChecksum(b, digits) ==
    base_w(b.wots_len2, [k \in 1 .. 2 |-> ByteOf(Csum(b, digits), 2 - k)])
\* The checksum's digits are the first of its bytes: its low bits move up.
wots_checksum(b, digits) ==
    LET bits  == b.wots_len2 * 4
        bytes == (bits + 7) \div 8
        shifted == Csum(b, digits) * 2 ^ ((8 - (bits % 8)) % 8)
    IN  base_w(b.wots_len2, [k \in 1 .. bytes |-> ByteOf(shifted, bytes - k)])
chain_lengths(b, msg) ==
    LET digits == base_w(b.wots_len1, msg) IN digits \o wots_checksum(b, digits)

----------------------------------------------------------------------------
MaxSum(b) == (SPX_WOTS_W - 1) * b.wots_len1

\* The digest with digits 15, .. 15, what is left of the sum, 0, .. 0.
DigestOfSum(b, sum) ==
    LET digit(i) == Max({0, Min({SPX_WOTS_W - 1, sum - (SPX_WOTS_W - 1) * (i - 1)})})
    IN  [k \in 1 .. b.n |-> SPX_WOTS_W * digit(2 * k - 1) + digit(2 * k)]

\* chain_lengths of every sum; the family does not matter.
LengthsOf == [b \in DigitSets |-> [sum \in 0 .. MaxSum(b) |-> chain_lengths(b, DigestOfSum(b, sum))]]

DigitsInit == wSet \in DigitSets /\ wSum = 0
NextSum    == wSum < MaxSum(wSet) /\ wSum' = wSum + 1 /\ wSet' = wSet

DigitsSpec == DigitsInit /\ [][NextSum]_digitsVars

\* A signature of one digest is never that of another: whatever was signed,
\* a digest whose message digits are all at least as large, which is one of a
\* larger sum, has a smaller digit in its checksum, though the checksum is
\* shifted to the top of its bytes before it is cut into digits.
DigitsNeverDominate ==
    \A sum \in wSum + 1 .. MaxSum(wSet) :
        \E i \in wSet.wots_len1 + 1 .. wSet.wots_len : LengthsOf[wSet][sum][i] < LengthsOf[wSet][wSum][i]
=============================================================================
