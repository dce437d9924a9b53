---------------------------- MODULE SharedEngine ----------------------------
(***************************************************************************)
(* The compute part of spx_descriptor_adapter: one thash engine that the   *)
(* adapter starts itself for a THASHX4 job and that the WOTS machine       *)
(* drives for the two chain jobs.  The operators are the wires between     *)
(* the adapter's registers and the two cores; EngineTick is one clock      *)
(* edge of both cores and of the busy flag that guards the engine.         *)
(*                                                                         *)
(* regs holds the operand registers: pub_seed_q, addr_q, input_q and the   *)
(* two packed words of chain windows.                                      *)
(***************************************************************************)
EXTENDS ThashX4Core, WotsChainX4Core

VARIABLE shared_thash_busy_q

engineVars == <<thashVars, wotsVars, shared_thash_busy_q>>

EngineInit ==
    /\ ThashInit
    /\ WotsInit
    /\ shared_thash_busy_q = FALSE

\* rst_n low; in the fault the WOTS machine is left out of the reset.
PartialReset ==
    /\ ThashReset
    /\ shared_thash_busy_q' = FALSE
    /\ UNCHANGED wotsVars
EngineReset ==
    /\ ThashReset
    /\ WotsReset
    /\ shared_thash_busy_q' = FALSE

ThashCoreStart(op, startCore) == startCore /\ op = OP_TYPE_THASHX4
WotsCoreStart(op, startCore)  == startCore /\ WotsOp(op)

WotsReqReady(op) == WotsOp(op) /\ ~shared_thash_busy_q
WotsRspValid(op) == WotsOp(op) /\ thash_done

SharedThashStart(op, startCore) ==
    \/ ThashCoreStart(op, startCore)
    \/ wots_req_valid /\ WotsReqReady(op)

SharedThashRequest(op, inblocks, regs) ==
    IF WotsOp(op) THEN WotsRequest
    ELSE [seed |-> regs.seed, addr |-> regs.addr, in |-> regs.in, inblocks |-> inblocks]

WotsJob(op, regs) ==
    [seed |-> regs.seed, addr |-> regs.addr, in |-> [l \in Lane |-> LowHalf(regs.in[l])],
     start |-> StartSteps(op = OP_TYPE_WOTS_CHAINX4_MIXED, regs.starts, regs.nums),
     num   |-> NumSteps(op = OP_TYPE_WOTS_CHAINX4_MIXED, regs.nums)]

\* The flag, set by a start, cleared by a done and by the start of a job.
\* In the fault a done pulse does not clear it.
StuckBusyNext(op, startCore, clear) ==
    ~clear /\ (SharedThashStart(op, startCore) \/ shared_thash_busy_q)
SharedBusyNext(op, startCore, clear) ==
    /\ ~clear
    /\ \/ SharedThashStart(op, startCore)
       \/ shared_thash_busy_q /\ ~thash_done

EngineTick(op, startCore, inblocks, regs, clear) ==
    /\ ThashTick(SharedThashStart(op, startCore), SharedThashRequest(op, inblocks, regs))
    /\ WotsTick(WotsCoreStart(op, startCore), WotsJob(op, regs),
                WotsReqReady(op), WotsRspValid(op), thash_out)
    /\ shared_thash_busy_q' = SharedBusyNext(op, startCore, clear)

\* The job is done when its own core says so; in the fault every answer of
\* the thash engine ends the job.
EngineDone(op) == thash_done
CoreDone(op)  == IF WotsOp(op) THEN wots_done ELSE thash_done
CoreError(op) == WotsOp(op) /\ wots_error
CoreOut(op)   == IF WotsOp(op) THEN wots_out ELSE thash_out

----------------------------------------------------------------------------
(***************************************************************************)
(* Between jobs nothing of the engine is at work and no pulse is in        *)
(* flight, so the next start cannot be missed by a machine that is still   *)
(* busy, and no answer of the previous job can be taken for the next one.  *)
(***************************************************************************)
EngineIdle ==
    /\ thash_state_q = "IDLE" /\ ~thash_done
    /\ ~keccak_busy_q /\ ~keccak_done
    /\ wots_state_q = "IDLE" /\ ~wots_done
    /\ ~shared_thash_busy_q
============================================================================
