---------------------------- MODULE ThashX4Proof ----------------------------
(***************************************************************************)
(* The thash engine, for any number of rounds and any set of requests: the *)
(* handshake of its two machines is an invariant, and every step of theirs *)
(* is a step of the abstract server.                                       *)
(***************************************************************************)
EXTENDS ThashX4Alone, SequenceTheorems, TLAPS

\* The rounds applied when n of them have been.
RoundsUpTo(n) == [i \in 1 .. n |-> i - 1]

\* The blocks being worked on came from requests.
AbsorbOK == thash_state_q # "IDLE" => absorb_q \in [Lane -> Block]

Inv == TypeOK /\ Handshake /\ AbsorbOK

\* One more round appended to the first n gives the first n+1.
LEMMA AppendRound ==
    ASSUME NEW n \in Nat
    PROVE  Append(RoundsUpTo(n), n) = RoundsUpTo(n + 1)
<1>1. RoundsUpTo(n) \in Seq(Nat) /\ Len(RoundsUpTo(n)) = n
    BY DEF RoundsUpTo
<1>2. RoundsUpTo(n + 1) \in Seq(Nat) /\ Len(RoundsUpTo(n + 1)) = n + 1
    BY DEF RoundsUpTo
<1> DEFINE s == Append(RoundsUpTo(n), n)
<1>3. s \in Seq(Nat) /\ Len(s) = n + 1
    BY <1>1
<1>4. \A i \in 1 .. n + 1 : s[i] = RoundsUpTo(n + 1)[i]
    BY <1>1 DEF RoundsUpTo
<1> HIDE DEF s
<1>5. s = RoundsUpTo(n + 1)
    BY <1>2, <1>3, <1>4, SeqEqual
<1> QED
    BY <1>5 DEF s

LEMMA NoRound == <<>> = RoundsUpTo(0)
    BY DEF RoundsUpTo

\* The blocks of a request are blocks of requests, and are not None.
LEMMA AbsorbX4Type ==
    ASSUME NEW req \in Requests
    PROVE  AbsorbX4(req) \in [Lane -> Block]
    BY DEF AbsorbX4, Block

LEMMA SomethingPending ==
    ASSUME NEW b \in [Lane -> Block]
    PROVE  b # <<>>
<1>1. 0 \in DOMAIN b
    BY DEF Lane
<1>2. 0 \notin DOMAIN <<>>
    OBVIOUS
<1> QED
    BY <1>1, <1>2

\* The type invariant in two parts: what is Boolean, which only Zenon
\* handles, and what is not.
Booleans == thash_done \in BOOLEAN /\ keccak_busy_q \in BOOLEAN /\ keccak_done \in BOOLEAN
Control  == /\ thash_state_q \in {"IDLE", "START_CORE", "WAIT_CORE"}
            /\ keccak_round_q \in 0 .. Rounds - 1

LEMMA TypeParts == TypeOK <=> Booleans /\ Control
    BY Zenon DEF TypeOK, Booleans, Control

\* The done and busy bits stay bits.
LEMMA TickBooleans ==
    ASSUME Booleans, NEW start \in BOOLEAN, NEW req, ThashTick(start, req)
    PROVE  Booleans'
<1>1. thash_done' \in BOOLEAN
    <2>1. CASE ThashIdleTick(start, req)
        BY <2>1, Zenon DEF ThashIdleTick
    <2>2. CASE ThashStartTick
        BY <2>2, Zenon DEF ThashStartTick
    <2>3. CASE ThashWaitTick
        BY <2>3, Zenon DEF ThashWaitTick, Booleans
    <2> QED
        BY <2>1, <2>2, <2>3 DEF ThashTick
<1>2. keccak_busy_q' \in BOOLEAN /\ keccak_done' \in BOOLEAN
    <2>1. CASE KeccakRoundTick
        BY <2>1, Zenon DEF KeccakRoundTick, Booleans
    <2>2. CASE KeccakLoadTick(CoreStart, absorb_q)
        BY <2>2, Zenon DEF KeccakLoadTick
    <2>3. CASE KeccakIdleTick(CoreStart)
        BY <2>3, Zenon DEF KeccakIdleTick, Booleans
    <2> QED
        BY <2>1, <2>2, <2>3 DEF ThashTick, KeccakTick
<1> QED
    BY <1>1, <1>2, Zenon DEF Booleans

LEMMA InitInv == Init => Inv
<1> SUFFICES ASSUME Init PROVE Inv
    OBVIOUS
<1>1. /\ thash_state_q = "IDLE" /\ thash_done = FALSE
      /\ keccak_busy_q = FALSE /\ keccak_done = FALSE /\ keccak_round_q = 0
    BY DEF Init, ThashInit, KeccakInit
<1>2. Booleans
    BY <1>1, Zenon DEF Booleans
<1>3. Control
    BY <1>1, RoundsAssumption DEF Control
<1>4. TypeOK
    BY <1>2, <1>3, TypeParts
<1> QED
    BY <1>1, <1>4 DEF Inv, Handshake, AbsorbOK

\* What one cycle does to the Keccak core while it works.
LEMMA RoundTick ==
    ASSUME Inv, thash_state_q = "WAIT_CORE", keccak_busy_q, KeccakRoundTick,
           UNCHANGED absorb_q
    PROVE  /\ keccak_busy_q' <=> ~keccak_done'
           /\ keccak_round_q' \in 0 .. Rounds - 1
           /\ \A l \in Lane :
                 /\ keccak_state_q'[l].block = absorb_q'[l]
                 /\ keccak_state_q'[l].rounds =
                       RoundsUpTo(IF keccak_done' THEN Rounds ELSE keccak_round_q')
<1>1. /\ keccak_round_q \in 0 .. Rounds - 1 /\ Rounds \in Nat \ {0}
      /\ ~keccak_done
      /\ \A l \in Lane : /\ keccak_state_q[l].block = absorb_q[l]
                         /\ keccak_state_q[l].rounds = RoundsUpTo(keccak_round_q)
    BY RoundsAssumption DEF Inv, TypeOK, Handshake, RoundsUpTo
<1>2. \A l \in Lane : keccak_state_q'[l] =
            [block |-> keccak_state_q[l].block,
             rounds |-> Append(keccak_state_q[l].rounds, keccak_round_q)]
    BY DEF KeccakRoundTick, KeccakRound
<1>3. Append(RoundsUpTo(keccak_round_q), keccak_round_q) = RoundsUpTo(keccak_round_q + 1)
    <2>1. keccak_round_q \in Nat
        BY <1>1
    <2> QED
        BY <2>1, AppendRound
<1>4. \A l \in Lane : /\ keccak_state_q'[l].block = absorb_q'[l]
                      /\ keccak_state_q'[l].rounds = RoundsUpTo(keccak_round_q + 1)
    <2> TAKE l \in Lane
    <2> DEFINE s == keccak_state_q[l]
               t == keccak_state_q'[l]
    <2>0. t = [block |-> s.block, rounds |-> Append(s.rounds, keccak_round_q)]
        BY <1>2
    <2>1. t.block = s.block
        BY <2>0
    <2>2. t.rounds = Append(s.rounds, keccak_round_q)
        BY <2>0
    <2> QED
        BY <1>1, <1>3, <2>1, <2>2
<1>5. CASE LastRound
    <2>1. keccak_busy_q' = FALSE /\ keccak_done' = TRUE /\ keccak_round_q' = 0
          /\ keccak_round_q + 1 = Rounds
        BY <1>1, <1>5 DEF KeccakRoundTick, LastRound
    <2> QED
        BY <2>1, <1>1, <1>4
<1>6. CASE ~LastRound
    <2>1. keccak_busy_q' /\ ~keccak_done' /\ keccak_round_q' = keccak_round_q + 1
          /\ keccak_round_q # Rounds - 1
        BY <1>6 DEF KeccakRoundTick, LastRound
    <2> QED
        BY <2>1, <1>1, <1>4
<1> QED
    BY <1>5, <1>6

----------------------------------------------------------------------------
(***************************************************************************)
(* One lemma for each of the three ticks of the thash machine: which tick  *)
(* of the Keccak core it meets, and that the two preserve the invariant.   *)
(***************************************************************************)
LEMMA IdleTickInv ==
    ASSUME Inv, NEW start \in BOOLEAN, NEW req \in Requests,
           ThashIdleTick(start, req), KeccakTick(CoreStart, absorb_q)
    PROVE  Control' /\ Handshake' /\ AbsorbOK'
<1>1. thash_state_q = "IDLE" /\ ~keccak_busy_q /\ keccak_round_q \in 0 .. Rounds - 1
      /\ ~CoreStart
    BY DEF ThashIdleTick, Inv, TypeOK, Handshake, CoreStart
<1>2. KeccakIdleTick(CoreStart)
    BY <1>1 DEF KeccakTick, KeccakRoundTick, KeccakLoadTick
<1>3. ~keccak_busy_q' /\ ~keccak_done' /\ keccak_round_q' \in 0 .. Rounds - 1
    BY <1>1, <1>2 DEF KeccakIdleTick
<1>4. CASE start /\ req.inblocks \in {1, 2}
    <2>1. thash_state_q' = "START_CORE" /\ ~thash_done' /\ absorb_q' = AbsorbX4(req)
        BY <1>4 DEF ThashIdleTick
    <2> QED
        BY <1>2, <1>3, <2>1, AbsorbX4Type DEF Inv, Handshake, AbsorbOK, Control
<1>5. CASE ~(start /\ req.inblocks \in {1, 2})
    <2>1. thash_state_q' = "IDLE" /\ thash_done' = start
        BY <1>1, <1>5 DEF ThashIdleTick
    <2> QED
        BY <1>3, <2>1 DEF Inv, Handshake, AbsorbOK, Control
<1> QED
    BY <1>4, <1>5

LEMMA StartTickInv ==
    ASSUME Inv, ThashStartTick, KeccakTick(CoreStart, absorb_q)
    PROVE  Control' /\ Handshake' /\ AbsorbOK'
<1>1. thash_state_q = "START_CORE" /\ ~keccak_busy_q /\ CoreStart
      /\ absorb_q \in [Lane -> Block]
    BY DEF ThashStartTick, Inv, Handshake, AbsorbOK, CoreStart
<1>2. KeccakLoadTick(CoreStart, absorb_q)
    BY <1>1 DEF KeccakTick, KeccakRoundTick, KeccakIdleTick
<1>3. keccak_busy_q' /\ ~keccak_done' /\ keccak_round_q' = 0
    BY <1>2 DEF KeccakLoadTick
<1>4. thash_state_q' = "WAIT_CORE" /\ ~thash_done' /\ absorb_q' = absorb_q
    BY DEF ThashStartTick
<1>5. \A l \in Lane : /\ keccak_state_q'[l].block = absorb_q'[l]
                      /\ keccak_state_q'[l].rounds = RoundsUpTo(0)
    BY <1>2, <1>4, NoRound DEF KeccakLoadTick, Absorbed
<1>6. keccak_round_q' \in 0 .. Rounds - 1
    BY <1>3, RoundsAssumption
<1> QED
    BY <1>1, <1>3, <1>4, <1>5, <1>6 DEF Inv, Handshake, AbsorbOK, Control, RoundsUpTo

LEMMA WaitTickInv ==
    ASSUME Inv, ThashWaitTick, KeccakTick(CoreStart, absorb_q)
    PROVE  Control' /\ Handshake' /\ AbsorbOK'
<1>1. thash_state_q = "WAIT_CORE" /\ (keccak_busy_q <=> ~keccak_done) /\ ~CoreStart
      /\ absorb_q \in [Lane -> Block] /\ keccak_round_q \in 0 .. Rounds - 1
    BY DEF ThashWaitTick, Inv, TypeOK, Handshake, AbsorbOK, CoreStart
<1>2. absorb_q' = absorb_q /\ (thash_done' <=> keccak_done)
    BY DEF ThashWaitTick
<1>3. CASE keccak_done
    <2>1. KeccakIdleTick(CoreStart)
        BY <1>1, <1>3 DEF KeccakTick, KeccakRoundTick, KeccakLoadTick
    <2>2. ~keccak_busy_q' /\ ~keccak_done' /\ keccak_round_q' \in 0 .. Rounds - 1
        BY <1>1, <1>3, <2>1 DEF KeccakIdleTick
    <2>3. thash_state_q' = "IDLE" /\ thash_done'
        BY <1>3 DEF ThashWaitTick
    <2> QED
        BY <2>2, <2>3 DEF Inv, Handshake, AbsorbOK, Control
<1>4. CASE ~keccak_done
    <2>1. keccak_busy_q /\ KeccakRoundTick
        BY <1>1, <1>4 DEF KeccakTick, KeccakLoadTick, KeccakIdleTick
    <2>2. /\ keccak_busy_q' <=> ~keccak_done'
          /\ keccak_round_q' \in 0 .. Rounds - 1
          /\ \A l \in Lane :
                /\ keccak_state_q'[l].block = absorb_q'[l]
                /\ keccak_state_q'[l].rounds =
                      RoundsUpTo(IF keccak_done' THEN Rounds ELSE keccak_round_q')
        BY <1>1, <1>2, <2>1, RoundTick
    <2>3. thash_state_q' = "WAIT_CORE" /\ ~thash_done'
        BY <1>1, <1>2, <1>4 DEF ThashWaitTick
    <2> QED
        BY <1>1, <1>2, <2>2, <2>3 DEF Inv, Handshake, AbsorbOK, Control, RoundsUpTo
<1> QED
    BY <1>3, <1>4

LEMMA TickInv == Inv /\ [Tick]_thashVars => Inv'
<1> SUFFICES ASSUME Inv, [Tick]_thashVars PROVE Inv'
    OBVIOUS
<1>1. ASSUME NEW start \in BOOLEAN, NEW req \in Requests, ThashTick(start, req)
      PROVE  Inv'
    <2>1. Booleans'
        BY <1>1, TypeParts, TickBooleans DEF Inv
    <2>2. Control' /\ Handshake' /\ AbsorbOK'
        BY <1>1, IdleTickInv, StartTickInv, WaitTickInv DEF ThashTick
    <2>3. TypeOK'
        BY <2>1, <2>2, Zenon DEF TypeOK, Booleans, Control
    <2> QED
        BY <2>2, <2>3 DEF Inv
<1>2. CASE UNCHANGED thashVars
    BY <1>2 DEF Inv, TypeOK, Handshake, AbsorbOK, thashVars, keccakVars
<1> QED
    BY <1>1, <1>2 DEF Tick

(***************************************************************************)
(* The control registers of spx_thashx4_core and spx_keccakx4_core keep    *)
(* their types; in particular the round counter never leaves its range.    *)
(***************************************************************************)
THEOREM TypeCorrect == Spec => []TypeOK
<1>1. Inv => TypeOK
    BY DEF Inv
<1> QED
    BY <1>1, InitInv, TickInv, PTL DEF Spec

(***************************************************************************)
(* Keccak works exactly while the thash machine waits for it, on the block *)
(* that was absorbed, with the rounds applied in order: no start is lost   *)
(* and no done pulse goes by unseen, for any number of rounds.             *)
(***************************************************************************)
THEOREM HandshakeHolds == Spec => []Handshake
<1>1. Inv => Handshake
    BY DEF Inv
<1> QED
    BY <1>1, InitInv, TickInv, PTL DEF Spec

----------------------------------------------------------------------------
(***************************************************************************)
(* The refinement, tick by tick: an idle tick takes a request, refuses it  *)
(* or does nothing; a start tick is not visible; a waiting tick is not     *)
(* visible until Keccak is done, and then it answers.                      *)
(***************************************************************************)
\* The words of the server are those of the engine.
LEMMA SameWords == Server!Lane = Lane /\ Server!ZeroDigest = ZeroDigest
    BY DEF Lane, ZeroDigest, Digest, ZeroWord,
           Server!Lane, Server!ZeroDigest, Server!Digest, Server!ZeroWord

LEMMA IdleTickServes ==
    ASSUME Inv, NEW start \in BOOLEAN, NEW req \in Requests, ThashIdleTick(start, req)
    PROVE  Server!ServerNext
<1>1. thash_state_q = "IDLE"
    BY DEF ThashIdleTick
<1>2. CASE start /\ req.inblocks \in {1, 2}
    <2>1. /\ thash_state_q' = "START_CORE" /\ thash_done' = FALSE
          /\ absorb_q' \in [Lane -> Block] /\ thash_out' = thash_out
        BY <1>2, AbsorbX4Type DEF ThashIdleTick
    <2>2. Server!Accept
        BY <1>1, <2>1 DEF Server!Accept, Server!None
    <2> QED
        BY <1>1, <2>1, <2>2, SameWords DEF Server!ServerNext
<1>3. CASE start /\ ~(req.inblocks \in {1, 2})
    <2>1. /\ thash_state_q' = "IDLE" /\ thash_out' = [l \in Lane |-> ZeroDigest]
        BY <1>1, <1>3 DEF ThashIdleTick
    <2>2. thash_done' = TRUE
        BY <1>3, Zenon DEF ThashIdleTick
    <2>3. Server!Reject
        BY <1>1, <2>1, <2>2, SameWords DEF Server!Reject, Server!None
    <2> QED
        BY <2>3 DEF Server!ServerNext
<1>4. CASE ~start
    <2>1. thash_state_q' = "IDLE" /\ absorb_q' = absorb_q /\ thash_out' = thash_out
        BY <1>1, <1>4 DEF ThashIdleTick
    <2>2. thash_done' = FALSE
        BY <1>4, Zenon DEF ThashIdleTick
    <2>3. Server!Quiet
        BY <1>1, <2>1, <2>2 DEF Server!Quiet
    <2> QED
        BY <2>3 DEF Server!ServerNext
<1> QED
    BY <1>2, <1>3, <1>4

LEMMA StartTickServes ==
    ASSUME ThashStartTick
    PROVE  Server!ServerNext
<1>1. /\ thash_state_q = "START_CORE" /\ thash_state_q' = "WAIT_CORE"
      /\ thash_done' = FALSE /\ absorb_q' = absorb_q /\ thash_out' = thash_out
    BY DEF ThashStartTick
<1>2. Server!Quiet
    BY <1>1 DEF Server!Quiet
<1> QED
    BY <1>2 DEF Server!ServerNext

\* When Keccak is done its state is the permutation of the absorbed block.
LEMMA DoneMeansPermuted ==
    ASSUME Inv, thash_state_q = "WAIT_CORE", keccak_done, NEW l \in Lane
    PROVE  Squeeze(keccak_state_q[l]) = Thash(absorb_q[l])
<1> DEFINE s == keccak_state_q[l]
<1>1. s.block = absorb_q[l] /\ s.rounds = [i \in 1 .. Rounds |-> i - 1]
    BY DEF Inv, Handshake
<1>2. Permuted(s)
    BY <1>1 DEF Permuted
<1> QED
    BY <1>1, <1>2 DEF Squeeze

LEMMA WaitTickServes ==
    ASSUME Inv, ThashWaitTick
    PROVE  Server!ServerNext
<1>1. thash_state_q = "WAIT_CORE" /\ absorb_q' = absorb_q
    BY DEF ThashWaitTick
<1>2. CASE keccak_done
    <2>1. thash_state_q' = "IDLE" /\ thash_done' = TRUE
        <3>1. thash_state_q' = "IDLE"
            BY <1>2 DEF ThashWaitTick
        <3>2. keccak_done = TRUE
            BY <1>2, Zenon DEF Inv, TypeOK
        <3>3. thash_done' = TRUE
            BY <3>2, Zenon DEF ThashWaitTick
        <3> QED
            BY <3>1, <3>3
    <2>2. thash_out' = [l \in Lane |-> Squeeze(keccak_state_q[l])]
        BY <1>2 DEF ThashWaitTick
    <2>3. thash_out' = [l \in Lane |-> Thash(absorb_q[l])]
        BY <1>1, <1>2, <2>2, DoneMeansPermuted
    <2>4. absorb_q # <<>>
        BY <1>1, SomethingPending DEF Inv, AbsorbOK
    <2>5. Server!Respond
        BY <1>1, <2>1, <2>3, <2>4, SameWords DEF Server!Respond, Server!None
    <2> QED
        BY <2>5 DEF Server!ServerNext
<1>3. CASE ~keccak_done
    <2>1. thash_state_q' = "WAIT_CORE" /\ thash_out' = thash_out
        BY <1>1, <1>3 DEF ThashWaitTick
    <2>2. thash_done' = FALSE
        <3>1. keccak_done = FALSE
            BY <1>3, Zenon DEF Inv, TypeOK
        <3> QED
            BY <3>1, Zenon DEF ThashWaitTick
    <2>3. Server!Quiet
        BY <1>1, <2>1, <2>2 DEF Server!Quiet
    <2> QED
        BY <2>3 DEF Server!ServerNext
<1> QED
    BY <1>2, <1>3

LEMMA TickServes == Inv /\ [Tick]_thashVars => [Server!ServerNext]_(Server!serverVars)
<1> SUFFICES ASSUME Inv, [Tick]_thashVars
             PROVE  [Server!ServerNext]_(Server!serverVars)
    OBVIOUS
<1>1. ASSUME NEW start \in BOOLEAN, NEW req \in Requests, ThashTick(start, req)
      PROVE  Server!ServerNext
    BY <1>1, IdleTickServes, StartTickServes, WaitTickServes DEF ThashTick
<1>2. CASE UNCHANGED thashVars
    BY <1>2 DEF thashVars, Server!serverVars
<1> QED
    BY <1>1, <1>2 DEF Tick

LEMMA InitServes == Init => Server!ServerInit
    BY SameWords DEF Init, ThashInit, Server!ServerInit, Server!None

(***************************************************************************)
(* The thash engine takes one request at a time and answers it with the    *)
(* digests of the four blocks it took, whatever is offered on its inputs   *)
(* meanwhile: every behaviour of spx_thashx4_core over spx_keccakx4_core   *)
(* is one of the abstract server.                                          *)
(***************************************************************************)
THEOREM EngineIsServer == Spec => Server!ServerSafety
    BY InitInv, TickInv, InitServes, TickServes, PTL DEF Spec, Server!ServerSafety
=============================================================================
