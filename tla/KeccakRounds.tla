---------------------------- MODULE KeccakRounds ----------------------------
(***************************************************************************)
(* Keccak-f[1600] as it is written four times: the RTL round, the C model  *)
(* keccakx4, the unrolled permutation of fips202, two rounds to a pass,    *)
(* and the vectorised one, whose column parities are carried from round to *)
(* round.  A step is one pass of one of them over a state, next to the     *)
(* round of the standard over the same state.                              *)
(*                                                                         *)
(* A 64-bit lane is the set of its one bits.  The four-way versions treat  *)
(* their lanes alike and apart: one of the four is modelled.               *)
(***************************************************************************)
EXTENDS Integers, Sequences, FiniteSets, FiniteSetsExt

CONSTANT KeccakInputs      \* the states permuted

VARIABLES kcode,      \* whose rounds are run
          kround,
          kstate,     \* lane x + 5 * y
          kparity,    \* the vectorised code's Ca .. Cu
          kref        \* what the standard makes of the same input

roundsVars == <<kcode, kround, kstate, kparity, kref>>

Coordinate == 0 .. 4
KeccakWord == 0 .. 24
NROUNDS    == 24

KeccakState == [KeccakWord -> SUBSET (0 .. 63)]
ASSUME KeccakInputsAssumption == KeccakInputs \subseteq KeccakState

Xor(a, b)    == SymDiff(a, b)
AndNot(a, b) == b \ a
Rol(a, n)    == {(i + n) % 64 : i \in a}

----------------------------------------------------------------------------
(***************************************************************************)
(* The standard, FIPS 202, section 3.2.                                    *)
(***************************************************************************)
\* rho: the walk (x, y) -> (y, 2x + 3y) from (1, 0), by growing triangles.
RhoWalk == LET walk[t \in 0 .. 23] == IF t = 0 THEN <<1, 0>>
                                      ELSE LET p == walk[t - 1]
                                           IN  <<p[2], (2 * p[1] + 3 * p[2]) % 5>>
           IN  walk
RhoOffset ==
    [x \in Coordinate |-> [y \in Coordinate |->
        IF x = 0 /\ y = 0 THEN 0
        ELSE LET t == CHOOSE t \in 0 .. 23 : RhoWalk[t] = <<x, y>>
             IN  (((t + 1) * (t + 2)) \div 2) % 64]]

\* iota: the shift register x^8 + x^6 + x^5 + x^4 + 1, as the set of its one bits.
Advance(a) ==
    LET s == {i + 1 : i \in a} IN IF 8 \in s THEN Xor(s \ {8}, {0, 4, 5, 6}) ELSE s
Register ==
    LET after[t \in 0 .. 7 * NROUNDS] == IF t = 0 THEN {0} ELSE Advance(after[t - 1])
    IN  after
StandardConstant ==
    [r \in 0 .. NROUNDS - 1 |-> {2 ^ j - 1 : j \in {j \in 0 .. 6 : 0 \in Register[j + 7 * r]}}]

Column(a, x)    == Xor(Xor(Xor(Xor(a[x], a[x + 5]), a[x + 10]), a[x + 15]), a[x + 20])
Parity(a)       == [x \in Coordinate |-> Column(a, x)]
ThetaEffect(c)  == [x \in Coordinate |-> Xor(c[(x + 4) % 5], Rol(c[(x + 1) % 5], 1))]
Chi(b, x, y)    ==
    LET In(i) == b[(i % 5) + 5 * y] IN Xor(In(x), AndNot(In(x + 1), In(x + 2)))
Iota(a, c)      == [a EXCEPT ![0] = Xor(@, c)]

\* pi reads where the codes write: the lane at (x, y) comes from (x + 3y, x).
StandardRound(r, a) ==
    LET d == ThetaEffect(Parity(a))
        b == [w \in KeccakWord |->
                 LET x == w % 5   y == w \div 5   from == (x + 3 * y) % 5
                 IN  Rol(Xor(a[from + 5 * x], d[from]), RhoOffset[from][x])]
    IN  Iota([w \in KeccakWord |-> Chi(b, w % 5, w \div 5)], StandardConstant[r])

----------------------------------------------------------------------------
\* The table of round constants, the same in every one of the sources.
KeccakF_RoundConstants ==
    << {0}, {1, 7, 15}, {1, 3, 7, 15, 63}, {15, 31, 63},
       {0, 1, 3, 7, 15}, {0, 31}, {0, 7, 15, 31, 63}, {0, 3, 15, 63},
       {1, 3, 7}, {3, 7}, {0, 3, 15, 31}, {1, 3, 31},
       {0, 1, 3, 7, 15, 31}, {0, 1, 3, 7, 63}, {0, 3, 7, 15, 63}, {0, 1, 15, 63},
       {1, 15, 63}, {7, 63}, {1, 3, 15}, {1, 3, 31, 63},
       {0, 7, 15, 31, 63}, {7, 15, 63}, {0, 31}, {3, 15, 31, 63} >>
RoundConstant(r) == KeccakF_RoundConstants[r + 1]

(***************************************************************************)
(* The RTL round and keccakx4: loops over x and y, with a table of offsets *)
(* by x + 5y in one and by x, then y, in the other.                        *)
(***************************************************************************)
keccak_rho_offset ==
    << 0, 1, 62, 28, 27,  36, 44, 6, 55, 20,  3, 10, 43, 25, 39,
       41, 45, 15, 21, 8,  18, 2, 61, 56, 14 >>

KeccakF_RotationConstants ==
    << <<0, 36, 3, 41, 18>>, <<1, 44, 10, 45, 2>>, <<62, 6, 43, 15, 61>>,
       <<28, 55, 25, 21, 56>>, <<27, 20, 39, 8, 14>> >>

RtlOffset(x, y)  == keccak_rho_offset[x + 5 * y + 1]
RowThenColumn(x, y) == KeccakF_RotationConstants[y + 1][x + 1]
ModelOffset(x, y) == KeccakF_RotationConstants[x + 1][y + 1]

\* Lane (x, y) is rotated and stored at dst; Source is what is stored there.
Destination(x, y) == y + 5 * ((2 * x + 3 * y) % 5)
Source == [w \in KeccakWord |-> CHOOSE s \in KeccakWord : Destination(s % 5, s \div 5) = w]

LoopRound(r, a, Offset(_, _)) ==
    LET d == ThetaEffect(Parity(a))
        b == [w \in KeccakWord |->
                 LET x == Source[w] % 5   y == Source[w] \div 5
                 IN  Rol(Xor(a[Source[w]], d[x]), Offset(x, y))]
    IN  Iota([w \in KeccakWord |-> Chi(b, w % 5, w \div 5)], RoundConstant(r))

RtlRound(r, a)   == LoopRound(r, a, RtlOffset)
ModelRound(r, a) == LoopRound(r, a, ModelOffset)

----------------------------------------------------------------------------
(***************************************************************************)
(* The unrolled codes.  Each row of a new state is made of five lanes of   *)
(* the old, named as the codes name them, and the rotation of each.        *)
(***************************************************************************)
N == [ba |->  0, be |->  1, bi |->  2, bo |->  3, bu |->  4,
      ga |->  5, ge |->  6, gi |->  7, go |->  8, gu |->  9,
      ka |-> 10, ke |-> 11, ki |-> 12, ko |-> 13, ku |-> 14,
      ma |-> 15, me |-> 16, mi |-> 17, mo |-> 18, mu |-> 19,
      sa |-> 20, se |-> 21, si |-> 22, so |-> 23, su |-> 24]

UnrolledRows ==
    << << <<N.ba,  0>>, <<N.ge, 44>>, <<N.ki, 43>>, <<N.mo, 21>>, <<N.su, 14>> >>,
       << <<N.bo, 28>>, <<N.gu, 20>>, <<N.ka,  3>>, <<N.me, 45>>, <<N.si, 61>> >>,
       << <<N.be,  1>>, <<N.gi,  6>>, <<N.ko, 25>>, <<N.mu,  8>>, <<N.sa, 18>> >>,
       << <<N.bu, 27>>, <<N.ga, 36>>, <<N.ke, 10>>, <<N.mi, 15>>, <<N.so, 56>> >>,
       << <<N.bi, 62>>, <<N.go, 55>>, <<N.ku, 39>>, <<N.ma, 41>>, <<N.se,  2>> >> >>

\* One row after the other from the parities c; Rotate is how a lane is turned.
UnrolledRound(r, a, c, Rotate(_, _)) ==
    LET d == ThetaEffect(c)
        b == [w \in KeccakWord |->
                 LET from == UnrolledRows[(w \div 5) + 1][(w % 5) + 1]
                 IN  Rotate(Xor(a[from[1]], d[from[1] % 5]), from[2])]
    IN  Iota([w \in KeccakWord |-> Chi(b, w % 5, w \div 5)], RoundConstant(r))

\* fips202: A to E, and E to A, with fresh parities each time.
KeccakF1600_TwoRounds(r, a) ==
    LET e == UnrolledRound(r, a, Parity(a), Rol)
    IN  UnrolledRound(r + 1, e, Parity(e), Rol)

\* The vectorised code turns by 8 and by 56 with a shuffle of bytes.
rho8  == <<7, 0, 1, 2, 3, 4, 5, 6>>
rho56 == <<1, 2, 3, 4, 5, 6, 7, 0>>
Shuffle(a, from) == {i \in 0 .. 63 : 8 * from[(i \div 8) + 1] + (i % 8) \in a}
VectorRol(a, n) == CASE n = 8 -> Shuffle(a, rho8) [] n = 56 -> Shuffle(a, rho56)
                     [] OTHER -> Rol(a, n)

\* The parities of the next round add up as its lanes are made; the last
\* round leaves them.
thetaRhoPiChiIotaPrepareTheta(r, a, c) ==
    LET e == UnrolledRound(r, a, c, VectorRol)
    IN  [state |-> e, parity |-> Parity(e)]
thetaRhoPiChiIota(r, a, c) ==
    [state |-> UnrolledRound(r, a, c, VectorRol), parity |-> c]

----------------------------------------------------------------------------
RoundsInit ==
    /\ kcode \in {"spx_keccak_round", "keccakx4", "fips202", "KeccakP1600times4"}
    /\ kround = 0
    /\ kstate \in KeccakInputs
    /\ kparity = Parity(kstate)      \* prepareTheta
    /\ kref = kstate

RtlPass ==
    /\ kcode = "spx_keccak_round"
    /\ kstate' = RtlRound(kround, kstate)
    /\ kround' = kround + 1
    /\ kref' = StandardRound(kround, kref)
    /\ UNCHANGED kparity

ModelPass ==
    /\ kcode = "keccakx4"
    /\ kstate' = ModelRound(kround, kstate)
    /\ kround' = kround + 1
    /\ kref' = StandardRound(kround, kref)
    /\ UNCHANGED kparity

FipsPass ==
    /\ kcode = "fips202"
    /\ kstate' = KeccakF1600_TwoRounds(kround, kstate)
    /\ kround' = kround + 2
    /\ kref' = StandardRound(kround + 1, StandardRound(kround, kref))
    /\ UNCHANGED kparity

VectorPass ==
    /\ kcode = "KeccakP1600times4"
    /\ LET pass == IF kround < NROUNDS - 1
                   THEN thetaRhoPiChiIotaPrepareTheta(kround, kstate, kparity)
                   ELSE thetaRhoPiChiIota(kround, kstate, kparity)
       IN  kstate' = pass.state /\ kparity' = pass.parity
    /\ kround' = kround + 1
    /\ kref' = StandardRound(kround, kref)

RoundsNext ==
    /\ kround < NROUNDS
    /\ RtlPass \/ ModelPass \/ FipsPass \/ VectorPass
    /\ UNCHANGED kcode

RoundsSpec == RoundsInit /\ [][RoundsNext]_roundsVars

(***************************************************************************)
(* The accelerator, its C model, the library it stands in for and the      *)
(* vectorised library compute one permutation: after every round each has  *)
(* the state of the standard.  A rotation, a lane or a constant wrong in   *)
(* one of them, or a parity carried over wrongly, makes digests that only  *)
(* the others would refuse.                                                *)
(***************************************************************************)
KeccakAgrees == kstate = kref
=============================================================================
