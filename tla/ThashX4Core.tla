---------------------------- MODULE ThashX4Core ----------------------------
(***************************************************************************)
(* spx_thashx4_core and the spx_keccakx4_core inside it: four lanes of     *)
(* SHAKE256-simple thash in lockstep.  One step of ThashTick is one clock  *)
(* edge of both; its arguments are the module's input wires.  The right    *)
(* hand sides read the registers before the edge, as nonblocking           *)
(* assignments do, so the two machines see each other one cycle late.      *)
(*                                                                         *)
(* A Keccak state is the absorbed block together with the round numbers    *)
(* applied to it so far.  Thash gives the digest of a block once exactly   *)
(* the rounds 0 .. Rounds-1 have been applied in order; of any other state *)
(* only the fact that it is some other value is kept.                      *)
(***************************************************************************)
EXTENDS ThashX4, Sequences

CONSTANT Rounds             \* KECCAK_LAST_ROUND + 1

ASSUMPTION RoundsAssumption == Rounds \in Nat \ {0}

VARIABLES thash_state_q,   \* "IDLE", "START_CORE", "WAIT_CORE"
          thash_done,
          absorb_q,        \* [Lane -> block]
          thash_out,       \* [Lane -> 128-bit value]
          keccak_busy_q,
          keccak_round_q,
          keccak_done,
          keccak_state_q   \* [Lane -> Keccak state]

keccakVars == <<keccak_busy_q, keccak_round_q, keccak_done, keccak_state_q>>
thashVars  == <<thash_state_q, thash_done, absorb_q, thash_out, keccakVars>>

----------------------------------------------------------------------------
NoBlock == [seed |-> ZeroDigest, addr |-> ZeroWide, msg |-> <<>>]

Absorbed(block) == [block |-> block, rounds |-> <<>>]
KeccakRound(round, s) == [block |-> s.block, rounds |-> Append(s.rounds, round)]
Permuted(s) == s.rounds = [i \in 1 .. Rounds |-> i - 1]

\* The first 128 bits of a state.
Squeeze(s) ==
    IF Permuted(s) THEN Thash(s.block)
    ELSE [i \in Digest |-> [src |-> <<"partial", s.block, s.rounds, i>>, msb |-> 0]]

----------------------------------------------------------------------------
KeccakInit ==
    /\ keccak_busy_q = FALSE
    /\ keccak_round_q = 0
    /\ keccak_done = FALSE
    /\ keccak_state_q = [l \in Lane |-> Absorbed(NoBlock)]

\* round_q == KECCAK_LAST_ROUND, and two ways to get the bound wrong.
LateLastRound  == keccak_round_q = Rounds
EarlyLastRound == keccak_round_q = Rounds - 2
LastRound      == keccak_round_q = Rounds - 1

KeccakRoundTick ==
    /\ keccak_busy_q
    /\ keccak_state_q' = [l \in Lane |-> KeccakRound(keccak_round_q, keccak_state_q[l])]
    /\ IF LastRound
       THEN /\ keccak_busy_q' = FALSE
            /\ keccak_round_q' = 0
            /\ keccak_done' = TRUE
       ELSE /\ keccak_round_q' = keccak_round_q + 1
            /\ keccak_done' = FALSE
            /\ UNCHANGED keccak_busy_q

KeccakLoadTick(start, blocks) ==
    /\ ~keccak_busy_q
    /\ start
    /\ keccak_busy_q' = TRUE
    /\ keccak_round_q' = 0
    /\ keccak_done' = FALSE
    /\ keccak_state_q' = [l \in Lane |-> Absorbed(blocks[l])]

KeccakIdleTick(start) ==
    /\ ~keccak_busy_q
    /\ ~start
    /\ keccak_done' = FALSE
    /\ UNCHANGED <<keccak_busy_q, keccak_round_q, keccak_state_q>>

KeccakTick(start, blocks) ==
    \/ KeccakRoundTick
    \/ KeccakLoadTick(start, blocks)
    \/ KeccakIdleTick(start)

----------------------------------------------------------------------------
ThashInit ==
    /\ thash_state_q = "IDLE"
    /\ thash_done = FALSE
    /\ absorb_q = [l \in Lane |-> NoBlock]
    /\ thash_out = [l \in Lane |-> ZeroDigest]
    /\ KeccakInit

\* rst_n low.
ThashReset ==
    /\ thash_state_q' = "IDLE"
    /\ thash_done' = FALSE
    /\ absorb_q' = [l \in Lane |-> NoBlock]
    /\ thash_out' = [l \in Lane |-> ZeroDigest]
    /\ keccak_busy_q' = FALSE
    /\ keccak_round_q' = 0
    /\ keccak_done' = FALSE
    /\ keccak_state_q' = [l \in Lane |-> Absorbed(NoBlock)]

\* start is looked at in IDLE only; an inblocks other than 1 and 2 answers
\* zero in the next cycle without starting Keccak.
ThashIdleTick(start, req) ==
    /\ thash_state_q = "IDLE"
    /\ IF start /\ req.inblocks \in {1, 2}
       THEN /\ absorb_q' = AbsorbX4(req)
            /\ thash_state_q' = "START_CORE"
            /\ thash_done' = FALSE
            /\ UNCHANGED thash_out
       ELSE /\ thash_out' = IF start THEN [l \in Lane |-> ZeroDigest] ELSE thash_out
            /\ thash_done' = start
            /\ UNCHANGED <<thash_state_q, absorb_q>>

ThashStartTick ==
    /\ thash_state_q = "START_CORE"
    /\ thash_state_q' = "WAIT_CORE"
    /\ thash_done' = FALSE
    /\ UNCHANGED <<absorb_q, thash_out>>

ThashWaitTick ==
    /\ thash_state_q = "WAIT_CORE"
    /\ IF keccak_done
       THEN /\ thash_out' = [l \in Lane |-> Squeeze(keccak_state_q[l])]
            /\ thash_state_q' = "IDLE"
       ELSE UNCHANGED <<thash_out, thash_state_q>>
    /\ thash_done' = keccak_done
    /\ UNCHANGED absorb_q

\* core_start is a pulse; the fault holds it for as long as a request is open.
HeldCoreStart == thash_state_q # "IDLE"
CoreStart     == thash_state_q = "START_CORE"

ThashTick(start, req) ==
    /\ \/ ThashIdleTick(start, req)
       \/ ThashStartTick
       \/ ThashWaitTick
    /\ KeccakTick(CoreStart, absorb_q)
============================================================================
