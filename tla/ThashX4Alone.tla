---------------------------- MODULE ThashX4Alone ----------------------------
(***************************************************************************)
(* The thash engine under an environment that drives its inputs freely:    *)
(* start may be high in any cycle, also while the engine is busy, with any *)
(* request on the data wires.                                              *)
(***************************************************************************)
EXTENDS ThashX4Core

CONSTANT Requests          \* records seed, addr, in, inblocks

Init == ThashInit

Tick == \E start \in BOOLEAN, req \in Requests : ThashTick(start, req)

\* The clock runs.
Spec == Init /\ [][Tick]_thashVars /\ WF_thashVars(Tick)

----------------------------------------------------------------------------
Block == {BuildAbsorbState(r.seed, r.addr[l], r.in[l], r.inblocks) :
             r \in Requests, l \in Lane}

(***************************************************************************)
(* Type of the two machines' control registers.                            *)
(***************************************************************************)
TypeOK ==
    /\ thash_state_q \in {"IDLE", "START_CORE", "WAIT_CORE"}
    /\ thash_done \in BOOLEAN
    /\ keccak_busy_q \in BOOLEAN
    /\ keccak_done \in BOOLEAN
    /\ keccak_round_q \in 0 .. Rounds - 1

(***************************************************************************)
(* The handshake between the two machines: Keccak works exactly while the  *)
(* thash machine waits for it, its done pulse is always awaited, and the   *)
(* rounds applied so far are those before the round counter, to the block  *)
(* that was absorbed.  A Keccak start lost because Keccak was still busy,  *)
(* or a done pulse nobody looks at, would break it.                        *)
(***************************************************************************)
Handshake ==
    /\ thash_state_q # "WAIT_CORE" => ~keccak_busy_q /\ ~keccak_done
    /\ thash_state_q = "WAIT_CORE" =>
          /\ keccak_busy_q <=> ~keccak_done
          /\ ~thash_done
          /\ \A l \in Lane :
                /\ keccak_state_q[l].block = absorb_q[l]
                /\ keccak_state_q[l].rounds =
                      [i \in 1 .. (IF keccak_done THEN Rounds ELSE keccak_round_q) |-> i - 1]
    /\ thash_state_q = "START_CORE" => ~thash_done

(***************************************************************************)
(* The engine answers with the thash of the four blocks it absorbed, never *)
(* of a state that has had too few rounds or of a block offered while it   *)
(* was busy: the machine, its done pulse and its outputs implement the     *)
(* abstract server.                                                        *)
(***************************************************************************)
Server == INSTANCE ThashServer
            WITH Blocks   <- Block,
                 pending  <- IF thash_state_q = "IDLE" THEN <<>> ELSE absorb_q,
                 answered <- thash_done,
                 answer   <- thash_out

ImplementsServer == Server!ServerSpec
=============================================================================
