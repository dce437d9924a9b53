----------------------- MODULE DescriptorAdapterProof -----------------------
(***************************************************************************)
(* The descriptor adapter with both cores, for any number of rounds, any   *)
(* beat width, any contents of memory and any stalls, faults and resets:   *)
(* the shared engine rests whenever it is not waited for, its busy flag is *)
(* exact, the two window checks agree, a stalled beat is held, the         *)
(* performance counters add up and the core counter is the documented      *)
(* latency, and a job is one step of DescriptorService.                    *)
(***************************************************************************)
EXTENDS DescriptorAdapterProps, SequenceTheorems, WellFoundedInduction, TLAPS

\* The thash engine with Keccak: at rest, at work on a request, or in the
\* cycle of its done pulse.
ThashRest    == /\ thash_state_q = "IDLE" /\ ~thash_done
                /\ ~keccak_busy_q /\ ~keccak_done
ThashShows   == /\ thash_state_q = "IDLE" /\ thash_done
                /\ ~keccak_busy_q /\ ~keccak_done
ThashWorking == /\ ~thash_done
                /\ \/ thash_state_q = "START_CORE" /\ ~keccak_busy_q /\ ~keccak_done
                   \/ thash_state_q = "WAIT_CORE" /\ (keccak_busy_q <=> ~keccak_done)
ThashOpen    == ThashWorking \/ ThashShows

WotsRest == wots_state_q = "IDLE" /\ ~wots_done

\* The chain machine in the middle of a job, with the engine in step.
ChainPhase ==
    \/ wots_state_q = "START_THASH" /\ ~wots_done /\ ThashRest /\ ~shared_thash_busy_q
    \/ wots_state_q = "WAIT_THASH" /\ ~wots_done /\ ThashOpen /\ shared_thash_busy_q
    \/ wots_state_q = "IDLE" /\ wots_done /\ ThashRest /\ ~shared_thash_busy_q

EnginePhase ==
    /\ state_q # "WAIT_CORE" => ThashRest /\ WotsRest /\ ~shared_thash_busy_q
    /\ state_q = "WAIT_CORE" /\ ~WotsOp(cfg_q.op) =>
          WotsRest /\ ThashOpen /\ shared_thash_busy_q
    /\ state_q = "WAIT_CORE" /\ WotsOp(cfg_q.op) => ChainPhase /\ ~wots_error

\* What PARSE_DESC let through, until the cores have it.
Parsed == state_q \in {"READ_PUB_SEED", "READ_ADDR", "READ_INPUT", "START_CORE"}
WindowFits(op, starts, nums) ==
    \A l \in Lane :
        /\ StartSteps(op = OP_TYPE_WOTS_CHAINX4_MIXED, starts, nums)[l] <= SPX_WOTS_W
        /\ NumSteps(op = OP_TYPE_WOTS_CHAINX4_MIXED, nums)[l] <= SPX_WOTS_W - 1
        /\ StartSteps(op = OP_TYPE_WOTS_CHAINX4_MIXED, starts, nums)[l]
             + NumSteps(op = OP_TYPE_WOTS_CHAINX4_MIXED, nums)[l] <= SPX_WOTS_W
ParsedFits ==
    Parsed => /\ cfg_q.op \in {OP_TYPE_THASHX4, OP_TYPE_WOTS_CHAINX4, OP_TYPE_WOTS_CHAINX4_MIXED}
              /\ WotsOp(cfg_q.op) => WindowFits(cfg_q.op, cfg_q.starts, cfg_q.nums)

Inv == EnginePhase /\ ParsedFits

----------------------------------------------------------------------------
(***************************************************************************)
(* One clock edge of the thash engine.                                     *)
(***************************************************************************)

LEMMA RestStays ==
    ASSUME ThashRest, NEW start, NEW req, start = FALSE, ThashTick(start, req)
    PROVE  ThashRest'
<1>1. ~ThashStartTick /\ ~ThashWaitTick /\ ~CoreStart /\ ~KeccakRoundTick
    BY DEF ThashRest, ThashStartTick, ThashWaitTick, CoreStart, KeccakRoundTick
<1>2. ThashIdleTick(start, req) /\ KeccakIdleTick(CoreStart)
    BY <1>1 DEF ThashTick, KeccakTick, KeccakLoadTick
<1>3. QED
    BY <1>2 DEF ThashRest, ThashIdleTick, KeccakIdleTick

LEMMA RestOpens ==
    ASSUME ThashRest, NEW start, NEW req, start = TRUE, ThashTick(start, req)
    PROVE  ThashOpen'
<1>1. ~ThashStartTick /\ ~ThashWaitTick /\ ~CoreStart /\ ~KeccakRoundTick
    BY DEF ThashRest, ThashStartTick, ThashWaitTick, CoreStart, KeccakRoundTick
<1>2. ThashIdleTick(start, req) /\ KeccakIdleTick(CoreStart)
    BY <1>1 DEF ThashTick, KeccakTick, KeccakLoadTick
<1>3. QED
    BY <1>2 DEF ThashRest, ThashOpen, ThashWorking, ThashShows, ThashIdleTick, KeccakIdleTick

LEMMA ShowsEnds ==
    ASSUME ThashShows, NEW start, NEW req, start = FALSE, ThashTick(start, req)
    PROVE  ThashRest'
<1>1. ~ThashStartTick /\ ~ThashWaitTick /\ ~CoreStart /\ ~KeccakRoundTick
    BY DEF ThashShows, ThashStartTick, ThashWaitTick, CoreStart, KeccakRoundTick
<1>2. ThashIdleTick(start, req) /\ KeccakIdleTick(CoreStart)
    BY <1>1 DEF ThashTick, KeccakTick, KeccakLoadTick
<1>3. QED
    BY <1>2 DEF ThashRest, ThashShows, ThashIdleTick, KeccakIdleTick

LEMMA WorkGoesOn ==
    ASSUME ThashWorking, NEW start, NEW req, ThashTick(start, req)
    PROVE  ThashOpen'
<1>1. CASE thash_state_q = "START_CORE"
    <2>1. ThashStartTick /\ CoreStart /\ ~keccak_busy_q
        BY <1>1 DEF ThashWorking, ThashTick, ThashIdleTick, ThashWaitTick, CoreStart
    <2>2. KeccakLoadTick(CoreStart, absorb_q)
        BY <2>1 DEF ThashTick, KeccakTick, KeccakRoundTick, KeccakIdleTick
    <2>3. QED
        BY <2>1, <2>2 DEF ThashStartTick, KeccakLoadTick, ThashOpen, ThashWorking
<1>2. CASE thash_state_q = "WAIT_CORE"
    <2>1. ThashWaitTick /\ ~CoreStart
        BY <1>2 DEF ThashTick, ThashIdleTick, ThashStartTick, CoreStart
    <2>2. CASE keccak_busy_q
        <3>1. KeccakRoundTick /\ ~keccak_done
            BY <1>2, <2>2 DEF ThashWorking, ThashTick, KeccakTick, KeccakLoadTick, KeccakIdleTick
        <3>2. thash_state_q' = "WAIT_CORE" /\ ~thash_done'
            BY <1>2, <2>1, <3>1 DEF ThashWaitTick
        <3>3. keccak_busy_q' <=> ~keccak_done'
            BY <2>2, <3>1 DEF KeccakRoundTick
        <3>4. QED
            BY <3>2, <3>3 DEF ThashOpen, ThashWorking
    <2>3. CASE ~keccak_busy_q
        <3>1. KeccakIdleTick(CoreStart) /\ keccak_done
            BY <1>2, <2>1, <2>3 DEF ThashWorking, ThashTick, KeccakTick, KeccakLoadTick, KeccakRoundTick
        <3>2. QED
            BY <2>1, <2>3, <3>1 DEF ThashWaitTick, KeccakIdleTick, ThashOpen, ThashShows
    <2>4. QED
        BY <2>2, <2>3
<1>3. QED
    BY <1>1, <1>2 DEF ThashWorking

----------------------------------------------------------------------------
(***************************************************************************)
(* One clock edge of the shared engine.                                    *)
(***************************************************************************)
AllAtRest == ThashRest /\ WotsRest /\ ~shared_thash_busy_q

\* Outside START_CORE and WAIT_CORE nothing starts, and the output registers
\* of both cores hold.
LEMMA QuietCycle ==
    ASSUME AllAtRest, NEW clear, EngineClock(clear), state_q # "START_CORE"
    PROVE  AllAtRest' /\ UNCHANGED <<thash_out, wots_out>>
<1>1. SharedThashStart(cfg_q.op, state_q = "START_CORE") = FALSE
    BY DEF AllAtRest, WotsRest, SharedThashStart, ThashCoreStart, wots_req_valid
<1>2. ThashRest' /\ UNCHANGED thash_out
    <2>1. ~ThashStartTick /\ ~ThashWaitTick
        BY DEF AllAtRest, ThashRest, ThashStartTick, ThashWaitTick
    <2>2. QED
        BY <1>1, <2>1, RestStays DEF EngineClock, EngineTick, AllAtRest, ThashTick, ThashIdleTick
<1>3. WotsRest' /\ UNCHANGED wots_out
    <2>1. WotsCoreStart(cfg_q.op, state_q = "START_CORE") = FALSE
        BY DEF WotsCoreStart
    <2>2. WotsQuietTick(WotsCoreStart(cfg_q.op, state_q = "START_CORE"))
        BY <2>1 DEF EngineClock, EngineTick, AllAtRest, WotsRest, WotsTick, WotsRefuseTick,
              WotsCopyTick, WotsBeginTick, WotsRequestTick, WotsWaitTick, WotsResponseTick
    <2>3. QED
        BY <2>2 DEF WotsQuietTick, AllAtRest, WotsRest
<1>4. ~shared_thash_busy_q'
    BY <1>1 DEF EngineClock, EngineTick, SharedBusyNext, AllAtRest
<1>5. QED
    BY <1>2, <1>3, <1>4 DEF AllAtRest

\* The windows PARSE_DESC lets through pass the chain machine's own check.
LEMMA WindowsPass ==
    ASSUME WotsOp(cfg_q.op), WindowFits(cfg_q.op, cfg_q.starts, cfg_q.nums), NEW regs,
           regs.starts = cfg_q.starts, regs.nums = cfg_q.nums
    PROVE  StartConfigOk(WotsJob(cfg_q.op, regs))
    BY DEF StartConfigOk, WotsJob, WindowFits

LEMMA StartOfThash ==
    ASSUME AllAtRest, state_q = "START_CORE", ~WotsOp(cfg_q.op), cfg_q.op = OP_TYPE_THASHX4,
           EngineClock(FALSE)
    PROVE  WotsRest' /\ ThashOpen' /\ shared_thash_busy_q'
<1>1. SharedThashStart(cfg_q.op, state_q = "START_CORE") = TRUE
    BY DEF SharedThashStart, ThashCoreStart
<1>2. ThashOpen'
    BY <1>1, RestOpens DEF EngineClock, EngineTick, AllAtRest
<1>3. WotsRest'
    <2>1. WotsCoreStart(cfg_q.op, state_q = "START_CORE") = FALSE
        BY DEF WotsCoreStart
    <2>2. WotsQuietTick(WotsCoreStart(cfg_q.op, state_q = "START_CORE"))
        BY <2>1 DEF EngineClock, EngineTick, AllAtRest, WotsRest, WotsTick, WotsRefuseTick,
              WotsCopyTick, WotsBeginTick, WotsRequestTick, WotsWaitTick, WotsResponseTick
    <2>3. QED
        BY <2>2 DEF WotsQuietTick, AllAtRest, WotsRest
<1>4. shared_thash_busy_q'
    BY <1>1 DEF EngineClock, EngineTick, SharedBusyNext
<1>5. QED
    BY <1>2, <1>3, <1>4

LEMMA StartOfChains ==
    ASSUME AllAtRest, state_q = "START_CORE", WotsOp(cfg_q.op),
           WindowFits(cfg_q.op, cfg_q.starts, cfg_q.nums), EngineClock(FALSE)
    PROVE  ChainPhase' /\ ~wots_error'
<1> DEFINE regs == [seed |-> buf_q.seed, addr |-> buf_q.addr, in |-> buf_q.input,
                    starts |-> cfg_q.starts, nums |-> cfg_q.nums]
           start == WotsCoreStart(cfg_q.op, state_q = "START_CORE")
<1>1. SharedThashStart(cfg_q.op, state_q = "START_CORE") = FALSE
    BY DEF AllAtRest, WotsRest, SharedThashStart, ThashCoreStart, wots_req_valid, WotsOp,
           OP_TYPE_THASHX4, OP_TYPE_WOTS_CHAINX4, OP_TYPE_WOTS_CHAINX4_MIXED
<1>2. ThashRest'
    BY <1>1, RestStays DEF EngineClock, EngineTick, AllAtRest
<1>3. ~shared_thash_busy_q'
    BY <1>1 DEF EngineClock, EngineTick, SharedBusyNext, AllAtRest
<1>4. \/ WotsCopyTick(start, WotsJob(cfg_q.op, regs))
      \/ WotsBeginTick(start, WotsJob(cfg_q.op, regs))
    <2>1. start = TRUE
        BY DEF WotsCoreStart
    <2>2. StartConfigOk(WotsJob(cfg_q.op, regs))
        BY WindowsPass
    <2>3. WotsTick(start, WotsJob(cfg_q.op, regs), WotsReqReady(cfg_q.op),
                   WotsRspValid(cfg_q.op), thash_out)
        BY DEF EngineClock, EngineTick
    <2> HIDE DEF regs, start
    <2>4. QED
        BY <2>1, <2>2, <2>3 DEF AllAtRest, WotsRest, WotsTick, WotsQuietTick, WotsRefuseTick,
              WotsRequestTick, WotsWaitTick, WotsResponseTick
<1> HIDE DEF regs, start
<1>5. CASE WotsCopyTick(start, WotsJob(cfg_q.op, regs))
    <2>1. wots_state_q' = "IDLE" /\ wots_done' /\ ~wots_error'
        BY <1>5 DEF WotsCopyTick, AllAtRest, WotsRest
    <2>2. QED
        BY <1>2, <1>3, <2>1 DEF ChainPhase
<1>6. CASE WotsBeginTick(start, WotsJob(cfg_q.op, regs))
    <2>1. wots_state_q' = "START_THASH" /\ ~wots_done' /\ ~wots_error'
        BY <1>6 DEF WotsBeginTick
    <2>2. QED
        BY <1>2, <1>3, <2>1 DEF ChainPhase
<1>7. QED
    BY <1>4, <1>5, <1>6

\* A thash job in the making, and in its done cycle.
LEMMA ThashGoesOn ==
    ASSUME state_q = "WAIT_CORE", ~WotsOp(cfg_q.op), WotsRest, ThashWorking,
           shared_thash_busy_q, EngineClock(FALSE)
    PROVE  WotsRest' /\ ThashOpen' /\ shared_thash_busy_q'
<1>1. ThashOpen'
    BY WorkGoesOn DEF EngineClock, EngineTick
<1>2. WotsRest'
    <2>1. WotsCoreStart(cfg_q.op, state_q = "START_CORE") = FALSE
        BY DEF WotsCoreStart
    <2>2. WotsQuietTick(WotsCoreStart(cfg_q.op, state_q = "START_CORE"))
        BY <2>1 DEF EngineClock, EngineTick, WotsRest, WotsTick, WotsRefuseTick,
              WotsCopyTick, WotsBeginTick, WotsRequestTick, WotsWaitTick, WotsResponseTick
    <2>3. QED
        BY <2>2 DEF WotsQuietTick, WotsRest
<1>3. shared_thash_busy_q'
    BY DEF EngineClock, EngineTick, SharedBusyNext, ThashWorking
<1>4. QED
    BY <1>1, <1>2, <1>3

LEMMA ThashEnds ==
    ASSUME state_q = "WAIT_CORE", ~WotsOp(cfg_q.op), WotsRest, ThashShows, EngineClock(FALSE)
    PROVE  AllAtRest'
<1>1. SharedThashStart(cfg_q.op, state_q = "START_CORE") = FALSE
    BY DEF WotsRest, SharedThashStart, ThashCoreStart, wots_req_valid
<1>2. ThashRest'
    BY <1>1, ShowsEnds DEF EngineClock, EngineTick
<1>3. WotsRest'
    <2>1. WotsCoreStart(cfg_q.op, state_q = "START_CORE") = FALSE
        BY DEF WotsCoreStart
    <2>2. WotsQuietTick(WotsCoreStart(cfg_q.op, state_q = "START_CORE"))
        BY <2>1 DEF EngineClock, EngineTick, WotsRest, WotsTick, WotsRefuseTick,
              WotsCopyTick, WotsBeginTick, WotsRequestTick, WotsWaitTick, WotsResponseTick
    <2>3. QED
        BY <2>2 DEF WotsQuietTick, WotsRest
<1>4. ~shared_thash_busy_q'
    BY <1>1 DEF EngineClock, EngineTick, SharedBusyNext, ThashShows
<1>5. QED
    BY <1>2, <1>3, <1>4 DEF AllAtRest

\* The chain machine between two cycles of its job: a request is taken in
\* the cycle it is made, an answer in the cycle of the engine's done pulse.
LEMMA ChainsGoOn ==
    ASSUME state_q = "WAIT_CORE", WotsOp(cfg_q.op), ChainPhase, ~wots_error, ~wots_done,
           EngineClock(FALSE)
    PROVE  ChainPhase' /\ ~wots_error'
<1> DEFINE regs == [seed |-> buf_q.seed, addr |-> buf_q.addr, in |-> buf_q.input,
                    starts |-> cfg_q.starts, nums |-> cfg_q.nums]
           start == WotsCoreStart(cfg_q.op, state_q = "START_CORE")
           thashStart == SharedThashStart(cfg_q.op, state_q = "START_CORE")
           req == SharedThashRequest(cfg_q.op, cfg_q.inblocks, regs)
<1>1. /\ ThashTick(thashStart, req)
      /\ WotsTick(start, WotsJob(cfg_q.op, regs), WotsReqReady(cfg_q.op),
                  WotsRspValid(cfg_q.op), thash_out)
      /\ shared_thash_busy_q' = (thashStart \/ (shared_thash_busy_q /\ ~thash_done))
    BY DEF EngineClock, EngineTick, SharedBusyNext
<1>2. thashStart = (wots_req_valid /\ WotsReqReady(cfg_q.op))
    BY DEF SharedThashStart, ThashCoreStart, wots_req_valid
<1> HIDE DEF regs, start, thashStart, req
<1>3. CASE wots_state_q = "START_THASH"
    <2>1. ThashRest /\ ~shared_thash_busy_q
        BY <1>3 DEF ChainPhase
    <2>2. WotsReqReady(cfg_q.op) = TRUE /\ thashStart = TRUE
        BY <1>2, <1>3, <2>1 DEF WotsReqReady, wots_req_valid
    <2>3. ThashOpen' /\ shared_thash_busy_q'
        BY <1>1, <2>1, <2>2, RestOpens
    <2>4. WotsRequestTick(WotsReqReady(cfg_q.op))
        BY <1>1, <1>3 DEF WotsTick, WotsQuietTick, WotsRefuseTick, WotsCopyTick,
              WotsBeginTick, WotsWaitTick, WotsResponseTick
    <2>5. wots_state_q' = "WAIT_THASH" /\ ~wots_done' /\ ~wots_error'
        BY <2>2, <2>4 DEF WotsRequestTick
    <2>6. QED
        BY <2>3, <2>5 DEF ChainPhase
<1>4. CASE wots_state_q = "WAIT_THASH"
    <2>1. ThashOpen /\ shared_thash_busy_q /\ thashStart = FALSE
        BY <1>2, <1>4 DEF ChainPhase, wots_req_valid
    <2>2. CASE thash_done
        <3>1. ThashShows
            BY <2>1, <2>2 DEF ThashOpen, ThashWorking
        <3>2. ThashRest' /\ ~shared_thash_busy_q'
            BY <1>1, <2>1, <2>2, <3>1, ShowsEnds
        <3>3. WotsResponseTick(WotsRspValid(cfg_q.op), thash_out)
            <4>1. WotsRspValid(cfg_q.op)
                BY <2>2 DEF WotsRspValid
            <4>2. QED
                BY <1>1, <1>4, <4>1 DEF WotsTick, WotsQuietTick, WotsRefuseTick, WotsCopyTick,
                      WotsBeginTick, WotsWaitTick, WotsRequestTick
        <3>4. /\ ~wots_error'
              /\ \/ wots_state_q' = "IDLE" /\ wots_done'
                 \/ wots_state_q' = "START_THASH" /\ ~wots_done'
            BY <3>3 DEF WotsResponseTick
        <3>5. QED
            BY <3>2, <3>4 DEF ChainPhase
    <2>3. CASE ~thash_done
        <3>1. ThashWorking
            BY <2>1, <2>3 DEF ThashOpen, ThashShows
        <3>2. ThashOpen' /\ shared_thash_busy_q'
            BY <1>1, <2>1, <2>3, <3>1, WorkGoesOn
        <3>3. WotsWaitTick(WotsRspValid(cfg_q.op))
            <4>1. ~WotsRspValid(cfg_q.op)
                BY <2>3 DEF WotsRspValid
            <4>2. QED
                BY <1>1, <1>4, <4>1 DEF WotsTick, WotsQuietTick, WotsRefuseTick, WotsCopyTick,
                      WotsBeginTick, WotsResponseTick, WotsRequestTick
        <3>4. wots_state_q' = "WAIT_THASH" /\ ~wots_done' /\ ~wots_error'
            BY <3>3 DEF WotsWaitTick
        <3>5. QED
            BY <3>2, <3>4 DEF ChainPhase
    <2>4. QED
        BY <2>2, <2>3
<1>5. QED
    BY <1>3, <1>4 DEF ChainPhase

LEMMA ChainsEnd ==
    ASSUME state_q = "WAIT_CORE", WotsOp(cfg_q.op), ChainPhase, wots_done, EngineClock(FALSE)
    PROVE  AllAtRest'
<1>1. WotsCoreStart(cfg_q.op, state_q = "START_CORE") = FALSE
    BY DEF WotsCoreStart
<1>2. wots_state_q = "IDLE" /\ ThashRest /\ ~shared_thash_busy_q
    BY DEF ChainPhase
<1>3. SharedThashStart(cfg_q.op, state_q = "START_CORE") = FALSE
    BY <1>2 DEF SharedThashStart, ThashCoreStart, wots_req_valid
<1>4. ThashRest'
    BY <1>2, <1>3, RestStays DEF EngineClock, EngineTick
<1>5. WotsQuietTick(WotsCoreStart(cfg_q.op, state_q = "START_CORE"))
    BY <1>1, <1>2 DEF EngineClock, EngineTick, WotsTick, WotsRefuseTick,
          WotsCopyTick, WotsBeginTick, WotsRequestTick, WotsWaitTick, WotsResponseTick
<1>6. WotsRest'
    BY <1>2, <1>5 DEF WotsQuietTick, WotsRest
<1>7. ~shared_thash_busy_q'
    BY <1>2, <1>3 DEF EngineClock, EngineTick, SharedBusyNext
<1>8. QED
    BY <1>4, <1>6, <1>7 DEF AllAtRest

----------------------------------------------------------------------------
(***************************************************************************)
(* The invariant.                                                          *)
(***************************************************************************)
LEMMA InitInv == Init => Inv
    BY DEF Init, AdapterInit, EngineInit, ThashInit, KeccakInit, WotsInit, Inv, EnginePhase,
           ThashRest, WotsRest, ParsedFits, Parsed

\* Every cycle but those of START_CORE and WAIT_CORE leaves the engine alone.
LEMMA CalmCycle ==
    ASSUME Inv, NEW clear, EngineClock(clear), state_q \notin {"START_CORE", "WAIT_CORE"},
           state_q' # "WAIT_CORE"
    PROVE  EnginePhase' /\ UNCHANGED <<thash_out, wots_out>>
<1>1. AllAtRest
    BY DEF Inv, EnginePhase, AllAtRest
<1>2. AllAtRest' /\ UNCHANGED <<thash_out, wots_out>>
    BY <1>1, QuietCycle
<1>3. QED
    BY <1>2 DEF EnginePhase, AllAtRest

\* What PARSE_DESC lets through fits.
LEMMA UniformFits ==
    ASSUME UniformWindowOk
    PROVE  WindowFits(OP_TYPE_WOTS_CHAINX4, DescStartSteps, DescNumSteps)
<1>1. SPX_WOTS_W = 16 /\ SPX_WOTS_W - 1 = 15
    BY DEF SPX_WOTS_W
<1>2. /\ DescNumSteps[0] <= 16 /\ DescNumSteps[1] <= 15
      /\ DescNumSteps[0] + DescNumSteps[1] <= 16
    BY DEF UniformWindowOk
<1>3. (OP_TYPE_WOTS_CHAINX4 = OP_TYPE_WOTS_CHAINX4_MIXED) = FALSE
    BY DEF OP_TYPE_WOTS_CHAINX4, OP_TYPE_WOTS_CHAINX4_MIXED
<1>4. \A l \in Lane : /\ StartSteps(FALSE, DescStartSteps, DescNumSteps)[l] = DescNumSteps[0]
                      /\ NumSteps(FALSE, DescNumSteps)[l] = DescNumSteps[1]
    BY DEF StartSteps, NumSteps
<1>5. QED
    BY <1>1, <1>2, <1>3, <1>4, Zenon DEF WindowFits

LEMMA MixedFits ==
    ASSUME MixedWindowOk
    PROVE  WindowFits(OP_TYPE_WOTS_CHAINX4_MIXED, DescStartSteps, DescNumSteps)
<1>1. SPX_WOTS_W = 16 /\ SPX_WOTS_W - 1 = 15
    BY DEF SPX_WOTS_W
<1>2. (OP_TYPE_WOTS_CHAINX4_MIXED = OP_TYPE_WOTS_CHAINX4_MIXED) = TRUE
    OBVIOUS
<1>3. \A l \in Lane : /\ StartSteps(TRUE, DescStartSteps, DescNumSteps)[l] = DescStartSteps[l]
                      /\ NumSteps(TRUE, DescNumSteps)[l] = DescNumSteps[l]
    BY DEF StartSteps, NumSteps
<1>4. QED
    BY <1>1, <1>2, <1>3, Zenon DEF WindowFits, MixedWindowOk

LEMMA ParsedOk ==
    ASSUME OpTypeKnown, ChainOk
    PROVE  /\ DescOpType \in {OP_TYPE_THASHX4, OP_TYPE_WOTS_CHAINX4, OP_TYPE_WOTS_CHAINX4_MIXED}
           /\ WotsOp(DescOpType) => WindowFits(DescOpType, DescStartSteps, DescNumSteps)
<1>1. CASE DescOpType = OP_TYPE_WOTS_CHAINX4
    <2>1. DescOpType # OP_TYPE_WOTS_CHAINX4_MIXED
        BY <1>1 DEF OP_TYPE_WOTS_CHAINX4, OP_TYPE_WOTS_CHAINX4_MIXED
    <2>2. UniformWindowOk
        BY <1>1, <2>1 DEF ChainOk
    <2>3. WindowFits(DescOpType, DescStartSteps, DescNumSteps)
        BY <1>1, <2>2, UniformFits
    <2>4. QED
        BY <1>1, <2>3
<1>2. CASE DescOpType = OP_TYPE_WOTS_CHAINX4_MIXED
    <2>1. DescOpType # OP_TYPE_WOTS_CHAINX4
        BY <1>2 DEF OP_TYPE_WOTS_CHAINX4, OP_TYPE_WOTS_CHAINX4_MIXED
    <2>2. QED
        BY <1>2, <2>1, MixedFits DEF ChainOk
<1>3. CASE DescOpType = OP_TYPE_THASHX4
    BY <1>3 DEF WotsOp, OP_TYPE_THASHX4, OP_TYPE_WOTS_CHAINX4, OP_TYPE_WOTS_CHAINX4_MIXED
<1>4. QED
    BY <1>1, <1>2, <1>3 DEF OpTypeKnown

----------------------------------------------------------------------------
\* Memory beats and what else leaves the engine alone.
CalmStep ==
    \/ IdleTick
    \/ \E a \in DescriptorAddresses : StartDescriptor(a)
    \/ MemStall
    \/ ReadDesc \/ ParseDesc \/ ReadPubSeed \/ ReadAddr \/ ReadInput \/ ReadFault
    \/ WriteOutput \/ WriteOutputFault \/ WriteStatus \/ WriteStatusFault

LEMMA CalmShape ==
    ASSUME CalmStep
    PROVE  /\ state_q \notin {"START_CORE", "WAIT_CORE"} /\ state_q' # "WAIT_CORE"
           /\ \E clear \in BOOLEAN : EngineClock(clear)
<1>1. CASE IdleTick
    BY <1>1 DEF IdleTick, adapterVars
<1>2. ASSUME NEW a \in DescriptorAddresses, StartDescriptor(a)
      PROVE  state_q = "IDLE" /\ state_q' # "WAIT_CORE" /\ EngineClock(TRUE)
    BY <1>2 DEF StartDescriptor
<1>3. CASE MemStall
    BY <1>3 DEF MemStall, mem_valid, ReadStates, WriteStates
<1>4. CASE ReadDesc
    BY <1>4 DEF ReadDesc, GoodRead, BeatAccepted
<1>5. CASE ParseDesc
    BY <1>5 DEF ParseDesc
<1>6. CASE ReadPubSeed
    BY <1>6 DEF ReadPubSeed, GoodRead, BeatAccepted
<1>7. CASE ReadAddr
    BY <1>7 DEF ReadAddr, GoodRead, BeatAccepted
<1>8. CASE ReadInput
    BY <1>8 DEF ReadInput, GoodRead, BeatAccepted
<1>9. CASE ReadFault
    BY <1>9 DEF ReadFault, ReadStates
<1>10. CASE WriteOutput
    BY <1>10 DEF WriteOutput, BeatAccepted
<1>11. CASE WriteOutputFault
    BY <1>11 DEF WriteOutputFault
<1>12. CASE WriteStatus
    BY <1>12 DEF WriteStatus, StatusAccepted
<1>13. CASE WriteStatusFault
    BY <1>13 DEF WriteStatusFault, StatusAccepted
<1>14. QED
    BY <1>1, <1>2, <1>3, <1>4, <1>5, <1>6, <1>7, <1>8, <1>9, <1>10, <1>11, <1>12, <1>13 DEF CalmStep

LEMMA CalmKeeps ==
    ASSUME Inv, CalmStep
    PROVE  EnginePhase' /\ UNCHANGED <<thash_out, wots_out>>
    BY CalmShape, CalmCycle

\* The windows are checked once, in PARSE_DESC, and kept until the start.
LEMMA WindowsKept ==
    ASSUME Inv, [Next]_vars
    PROVE  ParsedFits'
<1> SUFFICES ASSUME Parsed' PROVE ParsedFits'
    BY DEF ParsedFits
<1>1. CASE ParseDesc
    <2>1. ParseError = ERR_NONE
        BY <1>1 DEF ParseDesc, Parsed
    <2>2. OpTypeKnown /\ ChainOk
        BY <2>1 DEF ParseError, ERR_NONE, ERR_BAD_OP_TYPE, ERR_BAD_CONFIG, ERR_BAD_CHAIN
    <2>3. cfg_q' = ParsedConfig
        BY <1>1 DEF ParseDesc
    <2>4. cfg_q'.op = DescOpType /\ cfg_q'.starts = DescStartSteps /\ cfg_q'.nums = DescNumSteps
        BY <2>3 DEF ParsedConfig
    <2>5. QED
        BY <2>2, <2>4, ParsedOk, Zenon DEF ParsedFits
<1>2. ASSUME ~ParseDesc PROVE Parsed /\ UNCHANGED cfg_q
    <2>1. CASE IdleTick
        BY <2>1 DEF IdleTick, adapterVars, jobVars, Parsed
    <2>2. ASSUME NEW a \in DescriptorAddresses, StartDescriptor(a) PROVE FALSE
        BY <2>2 DEF StartDescriptor, Parsed
    <2>3. CASE MemStall
        BY <2>3 DEF MemStall, jobVars, Parsed
    <2>4. CASE ReadDesc
        BY <2>4 DEF ReadDesc, GoodRead, BeatAccepted, Parsed
    <2>5. CASE ReadPubSeed \/ ReadAddr \/ ReadInput
        BY <2>5 DEF ReadPubSeed, ReadAddr, ReadInput, GoodRead, BeatAccepted, Parsed
    <2>6. CASE ReadFault \/ StartCore \/ WaitCore \/ CoreFinished
        BY <2>6 DEF ReadFault, StartCore, WaitCore, CoreFinished, Parsed
    <2>7. CASE WriteOutput \/ WriteOutputFault \/ WriteStatus \/ WriteStatusFault
        BY <2>7 DEF WriteOutput, BeatAccepted, WriteOutputFault, WriteStatus, WriteStatusFault,
              StatusAccepted, Parsed
    <2>8. CASE Reset
        BY <2>8 DEF Reset, Parsed
    <2>9. CASE UNCHANGED vars
        BY <2>9 DEF vars, adapterVars, jobVars, Parsed
    <2>10. QED
        BY <1>2, <2>1, <2>2, <2>3, <2>4, <2>5, <2>6, <2>7, <2>8, <2>9 DEF Next, Job
<1>3. QED
    BY <1>1, <1>2 DEF Inv, ParsedFits, WindowFits

LEMMA StartCoreKeeps ==
    ASSUME Inv, StartCore
    PROVE  EnginePhase'
<1>1. /\ state_q = "START_CORE" /\ state_q' = "WAIT_CORE" /\ cfg_q' = cfg_q
      /\ EngineClock(FALSE)
    BY DEF StartCore, jobVars
<1>2. AllAtRest
    BY <1>1 DEF Inv, EnginePhase, AllAtRest
<1>3. CASE WotsOp(cfg_q.op)
    <2>1. WindowFits(cfg_q.op, cfg_q.starts, cfg_q.nums)
        BY <1>1, <1>3 DEF Inv, ParsedFits, Parsed
    <2>2. ChainPhase' /\ ~wots_error'
        BY <1>1, <1>2, <1>3, <2>1, StartOfChains
    <2>3. QED
        BY <1>1, <1>3, <2>2 DEF EnginePhase
<1>4. CASE ~WotsOp(cfg_q.op)
    <2>1. cfg_q.op = OP_TYPE_THASHX4
        BY <1>1, <1>4 DEF Inv, ParsedFits, Parsed, WotsOp
    <2>2. WotsRest' /\ ThashOpen' /\ shared_thash_busy_q'
        BY <1>1, <1>2, <1>4, <2>1, StartOfThash
    <2>3. QED
        BY <1>1, <1>4, <2>2 DEF EnginePhase
<1>5. QED
    BY <1>3, <1>4

LEMMA WaitCoreKeeps ==
    ASSUME Inv, WaitCore
    PROVE  EnginePhase'
<1>1. /\ state_q = "WAIT_CORE" /\ state_q' = "WAIT_CORE" /\ cfg_q' = cfg_q
      /\ EngineClock(FALSE) /\ ~CoreDone(cfg_q.op)
    BY DEF WaitCore, jobVars
<1>2. CASE WotsOp(cfg_q.op)
    <2>1. ChainPhase /\ ~wots_error /\ ~wots_done
        BY <1>1, <1>2 DEF Inv, EnginePhase, CoreDone
    <2>2. ChainPhase' /\ ~wots_error'
        BY <1>1, <1>2, <2>1, ChainsGoOn
    <2>3. QED
        BY <1>1, <1>2, <2>2 DEF EnginePhase
<1>3. CASE ~WotsOp(cfg_q.op)
    <2>1. WotsRest /\ ThashWorking /\ shared_thash_busy_q
        BY <1>1, <1>3 DEF Inv, EnginePhase, CoreDone, ThashOpen, ThashShows
    <2>2. WotsRest' /\ ThashOpen' /\ shared_thash_busy_q'
        BY <1>1, <1>3, <2>1, ThashGoesOn
    <2>3. QED
        BY <1>1, <1>3, <2>2 DEF EnginePhase
<1>4. QED
    BY <1>2, <1>3

LEMMA CoreFinishedKeeps ==
    ASSUME Inv, CoreFinished
    PROVE  EnginePhase'
<1>1. /\ state_q = "WAIT_CORE" /\ state_q' # "WAIT_CORE"
      /\ EngineClock(FALSE) /\ CoreDone(cfg_q.op)
    BY DEF CoreFinished
<1>2. AllAtRest'
    <2>1. CASE WotsOp(cfg_q.op)
        BY <1>1, <2>1, ChainsEnd DEF Inv, EnginePhase, CoreDone
    <2>2. CASE ~WotsOp(cfg_q.op)
        <3>1. WotsRest /\ ThashShows
            BY <1>1, <2>2 DEF Inv, EnginePhase, CoreDone, ThashOpen, ThashWorking
        <3>2. QED
            BY <1>1, <2>2, <3>1, ThashEnds
    <2>3. QED
        BY <2>1, <2>2
<1>3. QED
    BY <1>1, <1>2 DEF EnginePhase, AllAtRest

LEMMA NextInv == Inv /\ [Next]_vars => Inv'
<1> SUFFICES ASSUME Inv, [Next]_vars PROVE EnginePhase'
    BY WindowsKept DEF Inv
<1>1. CASE CalmStep
    BY <1>1, CalmKeeps
<1>2. CASE StartCore
    BY <1>2, StartCoreKeeps
<1>3. CASE WaitCore
    BY <1>3, WaitCoreKeeps
<1>4. CASE CoreFinished
    BY <1>4, CoreFinishedKeeps
<1>5. CASE Reset
    BY <1>5 DEF Reset, EngineReset, ThashReset, WotsReset, EnginePhase, ThashRest, WotsRest
<1>6. CASE UNCHANGED vars
    BY <1>6 DEF vars, adapterVars, jobVars, engineVars, thashVars, keccakVars, wotsVars, wotsRegs,
           Inv, EnginePhase, ThashRest, WotsRest, ThashOpen, ThashWorking, ThashShows, ChainPhase
<1>7. QED
    BY <1>1, <1>2, <1>3, <1>4, <1>5, <1>6 DEF Next, Job, CalmStep

(***************************************************************************)
(* Between the states of spx_descriptor_adapter and those of the two cores *)
(* there are only the pairings of EnginePhase, in every reachable cycle.   *)
(***************************************************************************)
THEOREM InvHolds == Spec => []Inv
    BY InitInv, NextInv, PTL DEF Spec

----------------------------------------------------------------------------
(***************************************************************************)
(* The engine of spx_descriptor_adapter is at rest in every cycle in which *)
(* the adapter does not wait for it, whatever resets, faults and stalls    *)
(* came before, and answers while it is waited for.                        *)
(***************************************************************************)
THEOREM AtRest == Spec => []EngineAtRest
<1>1. Inv => EngineAtRest
    BY DEF Inv, EnginePhase, EngineAtRest, EngineIdle, ThashRest, WotsRest, CoreDone, ThashOpen,
           ThashWorking, ThashShows, ChainPhase
<1>2. QED
    BY <1>1, InvHolds, PTL

(***************************************************************************)
(* shared_thash_busy_q is up exactly while the shared engine has a request *)
(* or shows its done pulse.                                                *)
(***************************************************************************)
THEOREM FlagExact == Spec => []BusyFlagExact
<1>1. Inv => BusyFlagExact
    BY DEF Inv, EnginePhase, BusyFlagExact, ThashRest, WotsRest, ThashOpen, ThashWorking, ThashShows,
           ChainPhase
<1>2. QED
    BY <1>1, InvHolds, PTL

(***************************************************************************)
(* A window that PARSE_DESC lets through is never refused by the chain     *)
(* machine, for any contents of the descriptor.                            *)
(***************************************************************************)
THEOREM WindowsAgree == Spec => []WindowChecksAgree
<1>1. Inv => WindowChecksAgree
    BY DEF Inv, EnginePhase, WindowChecksAgree, CoreError
<1>2. QED
    BY <1>1, InvHolds, PTL

----------------------------------------------------------------------------
(***************************************************************************)
(* Counters.                                                               *)
(***************************************************************************)
Counters == [{"load", "core", "store", "total"} -> Nat]
Sum == perf_q.load + perf_q.core + perf_q.store

LEMMA ZeroCounters ==
    /\ ZeroPerf \in Counters /\ PerfAtStart \in Counters
    /\ ZeroPerf.load = 0 /\ ZeroPerf.core = 0 /\ ZeroPerf.store = 0 /\ ZeroPerf.total = 0
    /\ PerfAtStart.load = 0 /\ PerfAtStart.core = 0 /\ PerfAtStart.store = 0
    /\ PerfAtStart.total = 1
    BY DEF ZeroPerf, PerfAtStart, Counters

LEMMA CountOne ==
    ASSUME perf_q \in Counters, NEW c \in {"load", "core", "store"}, Count({c}),
           NEW o \in Nat, perf_q.total = Sum + o
    PROVE  perf_q' \in Counters /\ perf_q'.total = Sum' + o
<1>1. \A k \in {"load", "core", "store", "total"} :
         perf_q'[k] = IF k \in {c, "total"} THEN perf_q[k] + 1 ELSE perf_q[k]
    BY DEF Count, Counters
<1>2. perf_q' \in Counters
    BY DEF Count, Counters
<1>3. perf_q.load \in Nat /\ perf_q.core \in Nat /\ perf_q.store \in Nat
    BY DEF Counters
<1>4. perf_q'.total = perf_q.total + 1
    BY <1>1
<1>5. CASE c = "load"
    BY <1>1, <1>2, <1>3, <1>4, <1>5 DEF Sum
<1>6. CASE c = "core"
    BY <1>1, <1>2, <1>3, <1>4, <1>6 DEF Sum
<1>7. CASE c = "store"
    BY <1>1, <1>2, <1>3, <1>4, <1>7 DEF Sum
<1>8. QED
    BY <1>5, <1>6, <1>7

LEMMA CountTotal ==
    ASSUME perf_q \in Counters, Count({}), NEW o \in Nat, perf_q.total = Sum + o
    PROVE  perf_q' \in Counters /\ perf_q'.total = Sum' + (o + 1)
<1>1. \A k \in {"load", "core", "store", "total"} :
         perf_q'[k] = IF k = "total" THEN perf_q[k] + 1 ELSE perf_q[k]
    BY DEF Count, Counters
<1>2. perf_q' \in Counters
    BY DEF Count, Counters
<1>3. perf_q.load \in Nat /\ perf_q.core \in Nat /\ perf_q.store \in Nat
    BY DEF Counters
<1>4. QED
    BY <1>1, <1>2, <1>3 DEF Sum

\* Between the start and the status the error flag is down.
Undecided == {"READ_DESC", "PARSE_DESC", "READ_PUB_SEED", "READ_ADDR", "READ_INPUT", "START_CORE",
              "WAIT_CORE", "WRITE_OUTPUT"}
PerfInv == /\ perf_q \in Counters
           /\ PerfAccounting
           /\ state_q \in States
           /\ state_q \in Undecided => error_q = FALSE
           /\ error_q \in BOOLEAN

LEMMA OverheadNat == ASSUME state_q \in States PROVE Overhead \subseteq Nat
    BY DEF Overhead, States, ReadStates, WriteStates

\* A cycle that one of the three counters counts, and one that only the
\* total counts.
LEMMA CountedKeeps ==
    ASSUME PerfInv, NEW c \in {"load", "core", "store"}, Count({c}), Overhead \subseteq Overhead'
    PROVE  perf_q' \in Counters /\ PerfAccounting'
<1>1. PICK o \in Overhead : perf_q.total = Sum + o
    BY DEF PerfInv, PerfAccounting, Sum
<1>2. o \in Nat
    BY OverheadNat DEF PerfInv
<1>3. perf_q' \in Counters /\ perf_q'.total = Sum' + o
    BY <1>1, <1>2, CountOne DEF PerfInv
<1>4. QED
    BY <1>1, <1>3 DEF PerfAccounting, Sum

LEMMA TotalOnlyKeeps ==
    ASSUME PerfInv, Count({}), \A o \in Overhead : o + 1 \in Overhead'
    PROVE  perf_q' \in Counters /\ PerfAccounting'
<1>1. PICK o \in Overhead : perf_q.total = Sum + o
    BY DEF PerfInv, PerfAccounting, Sum
<1>2. o \in Nat
    BY OverheadNat DEF PerfInv
<1>3. perf_q' \in Counters /\ perf_q'.total = Sum' + (o + 1)
    BY <1>1, <1>2, CountTotal DEF PerfInv
<1>4. QED
    BY <1>1, <1>3 DEF PerfAccounting, Sum

LEMMA PerfInit == Init => PerfInv
<1> SUFFICES ASSUME Init PROVE PerfInv
    OBVIOUS
<1>1. state_q = "IDLE" /\ error_q = FALSE /\ done_q = FALSE /\ perf_q = ZeroPerf
    BY DEF Init, AdapterInit
<1>2. Overhead = {0}
    BY <1>1 DEF Overhead
<1>3. PerfAccounting
    <2>1. perf_q.total = perf_q.load + perf_q.core + perf_q.store + 0
        BY <1>1, ZeroCounters
    <2>2. QED
        BY <2>1, <1>2 DEF PerfAccounting
<1>4. QED
    BY <1>1, <1>3, ZeroCounters DEF PerfInv, States, ReadStates, WriteStates, Undecided

\* The steps, by what they count.
LEMMA PerfReads ==
    ASSUME PerfInv, ReadDesc \/ ReadPubSeed \/ ReadAddr \/ ReadInput
    PROVE  PerfInv'
<1>1. /\ Count({"load"}) /\ error_q' = error_q
      /\ \/ state_q = "READ_DESC" /\ state_q' \in {"READ_DESC", "PARSE_DESC"}
         \/ /\ state_q \in {"READ_PUB_SEED", "READ_ADDR", "READ_INPUT"}
            /\ state_q' \in {"READ_PUB_SEED", "READ_ADDR", "READ_INPUT", "START_CORE"}
    BY DEF ReadDesc, ReadPubSeed, ReadAddr, ReadInput, GoodRead, BeatAccepted, flagVars
<1>2. Overhead \subseteq Overhead'
    BY <1>1 DEF Overhead
<1>3. perf_q' \in Counters /\ PerfAccounting'
    BY <1>1, <1>2, CountedKeeps
<1>4. QED
    BY <1>1, <1>3 DEF PerfInv, States, ReadStates, WriteStates, Undecided

LEMMA PerfParse ==
    ASSUME PerfInv, ParseDesc
    PROVE  PerfInv'
<1>1. /\ Count({}) /\ state_q = "PARSE_DESC" /\ error_q' = (ParseError # ERR_NONE)
      /\ error_code_q' = ParseError
      /\ state_q' = IF ParseError = ERR_NONE THEN "READ_PUB_SEED" ELSE "WRITE_STATUS"
    BY DEF ParseDesc
<1>2. ParseError # ERR_MEM_WRITE
    BY DEF ParseError, ERR_NONE, ERR_BAD_OP_TYPE, ERR_BAD_CONFIG, ERR_BAD_CHAIN, ERR_BAD_ALIGN,
           ERR_MEM_WRITE
<1>3. Overhead = {1} /\ 2 \in Overhead'
    BY <1>1, <1>2 DEF Overhead
<1>4. perf_q' \in Counters /\ PerfAccounting'
    BY <1>1, <1>3, TotalOnlyKeeps
<1>5. QED
    BY <1>1, <1>4 DEF PerfInv, States, ReadStates, WriteStates, Undecided

LEMMA PerfStart ==
    ASSUME PerfInv, NEW a \in DescriptorAddresses, StartDescriptor(a)
    PROVE  PerfInv'
<1>1. /\ perf_q' = PerfAtStart
      /\ \/ state_q' = "READ_DESC" /\ error_q' = FALSE
         \/ state_q' = "WRITE_STATUS" /\ error_q' = TRUE /\ error_code_q' = ERR_BAD_ALIGN
    BY DEF StartDescriptor
<1>2. 1 \in Overhead'
    BY <1>1 DEF Overhead, ERR_BAD_ALIGN, ERR_MEM_WRITE
<1>3. perf_q' \in Counters /\ PerfAccounting'
    BY <1>1, <1>2, ZeroCounters DEF PerfAccounting
<1>4. QED
    BY <1>1, <1>3 DEF PerfInv, States, ReadStates, WriteStates, Undecided

LEMMA PerfStall ==
    ASSUME PerfInv, MemStall
    PROVE  PerfInv'
<1>1. PICK c \in {"load", "core", "store"} : Count({c})
    BY DEF MemStall
<1>2. UNCHANGED <<state_q, done_q, error_q, error_code_q>>
    BY DEF MemStall, flagVars
<1>3. Overhead' = Overhead
    BY <1>2 DEF Overhead
<1>4. perf_q' \in Counters /\ PerfAccounting'
    BY <1>1, <1>3, CountedKeeps
<1>5. QED
    BY <1>2, <1>4 DEF PerfInv, States, ReadStates, WriteStates, Undecided

LEMMA PerfReadFault ==
    ASSUME PerfInv, ReadFault
    PROVE  PerfInv'
<1>1. /\ Count({"load"}) /\ state_q \in ReadStates /\ state_q' = "WRITE_STATUS"
      /\ error_q' = TRUE /\ error_code_q' = ERR_MEM_READ
    BY DEF ReadFault, Fail
<1>2. Overhead' = {1, 2}
    BY <1>1 DEF Overhead, ERR_MEM_READ, ERR_MEM_WRITE
<1>3. Overhead \subseteq Overhead'
    BY <1>1, <1>2 DEF Overhead, ReadStates
<1>4. perf_q' \in Counters /\ PerfAccounting'
    BY <1>1, <1>3, CountedKeeps
<1>5. QED
    BY <1>1, <1>4 DEF PerfInv, States, ReadStates, WriteStates, Undecided

LEMMA PerfCore ==
    ASSUME PerfInv, StartCore \/ WaitCore
    PROVE  PerfInv'
<1>1. /\ Count({"core"}) /\ state_q \in {"START_CORE", "WAIT_CORE"} /\ state_q' = "WAIT_CORE"
      /\ error_q' = error_q
    BY DEF StartCore, WaitCore, flagVars
<1>2. Overhead \subseteq Overhead'
    BY <1>1 DEF Overhead
<1>3. perf_q' \in Counters /\ PerfAccounting'
    BY <1>1, <1>2, CountedKeeps
<1>4. QED
    BY <1>1, <1>3 DEF PerfInv, States, ReadStates, WriteStates, Undecided

\* That the core never refuses a job is what makes the handoff cycle part
\* of every job that got so far.
LEMMA PerfFinished ==
    ASSUME PerfInv, Inv, CoreFinished
    PROVE  PerfInv'
<1>1. ~CoreError(cfg_q.op)
    BY DEF CoreFinished, Inv, EnginePhase, CoreError
<1>2. /\ Count({}) /\ state_q = "WAIT_CORE" /\ state_q' = "WRITE_OUTPUT" /\ error_q' = error_q
    BY <1>1 DEF CoreFinished, flagVars
<1>3. Overhead = {2} /\ 3 \in Overhead'
    BY <1>2 DEF Overhead
<1>4. perf_q' \in Counters /\ PerfAccounting'
    BY <1>2, <1>3, TotalOnlyKeeps
<1>5. QED
    BY <1>2, <1>4 DEF PerfInv, States, ReadStates, WriteStates, Undecided

LEMMA PerfWrites ==
    ASSUME PerfInv, WriteOutput \/ WriteOutputFault
    PROVE  PerfInv'
<1>1. /\ Count({"store"}) /\ state_q = "WRITE_OUTPUT" /\ error_q = FALSE
      /\ \/ state_q' \in {"WRITE_OUTPUT", "WRITE_STATUS"} /\ error_q' = FALSE
         \/ state_q' = "WRITE_STATUS" /\ error_q' = TRUE /\ error_code_q' = ERR_MEM_WRITE
    BY DEF WriteOutput, WriteOutputFault, BeatAccepted, flagVars, Fail, PerfInv, Undecided
<1>2. Overhead = {3} /\ Overhead' = {3}
    BY <1>1 DEF Overhead
<1>3. perf_q' \in Counters /\ PerfAccounting'
    BY <1>1, <1>2, CountedKeeps
<1>4. QED
    BY <1>1, <1>3 DEF PerfInv, States, ReadStates, WriteStates, Undecided

LEMMA PerfStatus ==
    ASSUME PerfInv, WriteStatus \/ WriteStatusFault
    PROVE  PerfInv'
<1>1. /\ Count({"store"}) /\ state_q = "WRITE_STATUS" /\ state_q' = "IDLE" /\ done_q' = TRUE
      /\ error_q' = error_q \/ error_q' = TRUE
    BY DEF WriteStatus, WriteStatusFault, StatusAccepted
<1>2. Overhead \subseteq Overhead'
    BY <1>1 DEF Overhead, PerfInv
<1>3. perf_q' \in Counters /\ PerfAccounting'
    BY <1>1, <1>2, CountedKeeps
<1>4. QED
    BY <1>1, <1>3 DEF PerfInv, States, ReadStates, WriteStates, Undecided

LEMMA PerfReset ==
    ASSUME PerfInv, Reset
    PROVE  PerfInv'
<1>1. perf_q' = ZeroPerf /\ state_q' = "IDLE" /\ done_q' = FALSE /\ error_q' = FALSE
    BY DEF Reset
<1>2. Overhead' = {0}
    BY <1>1 DEF Overhead
<1>3. PerfAccounting'
    <2>1. perf_q'.total = perf_q'.load + perf_q'.core + perf_q'.store + 0
        BY <1>1, ZeroCounters
    <2>2. QED
        BY <2>1, <1>2 DEF PerfAccounting
<1>4. QED
    BY <1>1, <1>3, ZeroCounters DEF PerfInv, States, ReadStates, WriteStates, Undecided

LEMMA PerfNext == Inv /\ PerfInv /\ [Next]_vars => PerfInv'
<1> SUFFICES ASSUME Inv, PerfInv, [Next]_vars PROVE PerfInv'
    OBVIOUS
<1>1. CASE IdleTick \/ UNCHANGED vars
    <2>1. UNCHANGED <<state_q, done_q, error_q, error_code_q, perf_q>>
        BY <1>1 DEF IdleTick, vars, adapterVars, flagVars
    <2>2. QED
        BY <2>1 DEF PerfInv, PerfAccounting, Overhead
<1>2. QED
    BY <1>1, PerfReads, PerfParse, PerfStart, PerfStall, PerfReadFault, PerfCore, PerfFinished,
       PerfWrites, PerfStatus, PerfReset DEF Next, Job

(***************************************************************************)
(* Stalls.                                                                 *)
(***************************************************************************)
Budgets == [{"jobs", "stalls", "faults", "resets"} -> Nat]

LEMMA BudgetKept ==
    ASSUME budget \in Budgets, [Next]_vars
    PROVE  budget' \in Budgets /\ (budget'.stalls # budget.stalls => MemStall)
<1>1. ASSUME NEW what \in {"jobs", "stalls", "faults", "resets"}, Spend(what)
      PROVE  budget' \in Budgets /\ (what # "stalls" => budget'.stalls = budget.stalls)
    BY <1>1 DEF Spend, Budgets
<1>2. CASE \E a \in DescriptorAddresses : StartDescriptor(a)
    BY <1>1, <1>2 DEF StartDescriptor
<1>3. CASE MemStall
    BY <1>1, <1>3 DEF MemStall
<1>4. CASE ReadFault \/ WriteOutputFault \/ WriteStatusFault
    BY <1>1, <1>4 DEF ReadFault, WriteOutputFault, WriteStatusFault
<1>5. CASE Reset
    BY <1>1, <1>5 DEF Reset
<1>6. CASE ReadDesc \/ ReadPubSeed \/ ReadAddr \/ ReadInput
    BY <1>6 DEF ReadDesc, ReadPubSeed, ReadAddr, ReadInput, GoodRead
<1>7. CASE IdleTick \/ UNCHANGED vars
    BY <1>7 DEF IdleTick, vars, adapterVars
<1>8. CASE ParseDesc \/ StartCore \/ WaitCore \/ CoreFinished \/ WriteOutput \/ WriteStatus
    BY <1>8 DEF ParseDesc, StartCore, WaitCore, CoreFinished, WriteOutput, WriteStatus
<1>9. QED
    BY <1>2, <1>3, <1>4, <1>5, <1>6, <1>7, <1>8 DEF Next, Job

\* The beat offered is made of what a stall leaves alone and of the cores'
\* outputs, and those hold while the engine rests.
LEMMA StallHolds == ASSUME Inv, MemStall PROVE Offered' = Offered
<1>1. UNCHANGED <<thash_out, wots_out>>
    BY CalmKeeps DEF CalmStep
<1>2. UNCHANGED <<state_q, transfer_word_q, descriptor_addr_q, cfg_q, desc_word_q,
                  error_q, error_code_q>>
    BY DEF MemStall, jobVars, flagVars
<1>3. mem_addr' = mem_addr /\ BeatWords' = BeatWords
    BY <1>2 DEF mem_addr, BurstBaseAddr, BeatWords
<1>4. FinalStatusWord' = FinalStatusWord
    BY <1>2 DEF FinalStatusWord
<1>5. CoreOut(cfg_q.op)' = CoreOut(cfg_q.op)
    BY <1>1, <1>2 DEF CoreOut
<1>6. \A i : mem_wdata(i)' = mem_wdata(i)
    BY <1>2, <1>4, <1>5 DEF mem_wdata
<1>7. QED
    BY <1>2, <1>3, <1>6 DEF Offered

(***************************************************************************)
(* A beat the memory has not accepted stays as it was offered, however     *)
(* long the stall: spx_descriptor_adapter drives it from registers that a  *)
(* stall holds, and the write data from the outputs of cores at rest.      *)
(***************************************************************************)
THEOREM StallsHold == Spec => StallHoldsRequest
<1>1. Init => budget \in Budgets
    BY DEF Init, Budgets
<1>2. budget \in Budgets /\ [Next]_vars => (budget \in Budgets)'
    BY BudgetKept
<1>3. Inv /\ budget \in Budgets /\ [Next]_vars =>
          [budget'.stalls # budget.stalls => Offered' = Offered]_vars
    BY BudgetKept, StallHolds
<1>4. QED
    BY <1>1, <1>2, <1>3, InvHolds, PTL DEF Spec, StallHoldsRequest

(***************************************************************************)
(* The performance counters of spx_descriptor_adapter add up in every      *)
(* cycle of every job, for every beat width, any stalls, faults and        *)
(* resets.                                                                 *)
(***************************************************************************)
THEOREM CountersAddUp == Spec => []PerfAccounting
<1>1. PerfInv => PerfAccounting
    BY DEF PerfInv
<1>2. QED
    BY <1>1, PerfInit, PerfNext, InvHolds, PTL DEF Spec

----------------------------------------------------------------------------
(***************************************************************************)
(* The engine the control path sees.                                       *)
(***************************************************************************)
Verdict(error, code) == [error |-> error, code |-> code]

VerdictInv ==
    /\ busy_q = (state_q # "IDLE")
    /\ Verdict(error_q, error_code_q) \in Engine!Verdicts

LEMMA Good == Verdict(FALSE, ERR_NONE) = Engine!GoodVerdict /\ Engine!GoodVerdict \in Engine!Verdicts
    BY DEF Verdict, Engine!GoodVerdict, Engine!Verdicts, ERR_NONE

LEMMA Bad == \A c \in 1 .. 6 : Verdict(TRUE, c) \in Engine!Verdicts
    BY DEF Verdict, Engine!Verdicts

LEMMA Codes ==
    /\ ERR_BAD_ALIGN \in 1 .. 6 /\ ERR_MEM_READ \in 1 .. 6 /\ ERR_MEM_WRITE \in 1 .. 6
    /\ ERR_BAD_CHAIN \in 1 .. 6
    /\ ParseError = ERR_NONE \/ ParseError \in 1 .. 6
    BY DEF ParseError, ERR_NONE, ERR_BAD_OP_TYPE, ERR_BAD_CONFIG, ERR_BAD_CHAIN, ERR_BAD_ALIGN,
           ERR_MEM_READ, ERR_MEM_WRITE

LEMMA VerdictInit == Init => VerdictInv /\ Engine!DescInit
<1> SUFFICES ASSUME Init PROVE VerdictInv /\ Engine!DescInit
    OBVIOUS
<1>1. /\ state_q = "IDLE" /\ busy_q = FALSE /\ done_q = FALSE
      /\ error_q = FALSE /\ error_code_q = ERR_NONE
    BY DEF Init, AdapterInit
<1>2. QED
    BY <1>1, Good DEF VerdictInv, Engine!DescInit, Verdict

\* The start of a job, its end, and the cycles between them.
LEMMA Begins ==
    ASSUME VerdictInv, NEW a \in DescriptorAddresses, StartDescriptor(a)
    PROVE  VerdictInv' /\ Engine!DescBegin(TRUE)
<1>1. /\ busy_q = FALSE /\ busy_q' = TRUE /\ done_q' = FALSE /\ state_q' # "IDLE"
      /\ \/ error_q' = FALSE /\ error_code_q' = ERR_NONE
         \/ error_q' = TRUE /\ error_code_q' = ERR_BAD_ALIGN
    BY DEF StartDescriptor, VerdictInv, Aligned
<1>2. Verdict(error_q, error_code_q)' \in Engine!Verdicts
    BY <1>1, Good, Bad, Codes
<1>3. QED
    BY <1>1, <1>2 DEF VerdictInv, Engine!DescBegin, Verdict

LEMMA Ends ==
    ASSUME VerdictInv, WriteStatus \/ WriteStatusFault
    PROVE  VerdictInv' /\ Engine!DescFinish
<1>1. /\ busy_q = TRUE /\ busy_q' = FALSE /\ done_q' = TRUE /\ state_q' = "IDLE"
      /\ \/ error_q' = error_q /\ error_code_q' = error_code_q
         \/ error_q' = TRUE /\ error_code_q' = ERR_MEM_WRITE
    BY DEF WriteStatus, WriteStatusFault, StatusAccepted, VerdictInv
<1>2. Verdict(error_q, error_code_q)' \in Engine!Verdicts
    BY <1>1, Bad, Codes DEF VerdictInv, Verdict
<1>3. QED
    BY <1>1, <1>2 DEF VerdictInv, Engine!DescFinish, Verdict

Working ==
    \/ MemStall \/ ReadDesc \/ ParseDesc \/ ReadPubSeed \/ ReadAddr \/ ReadInput \/ ReadFault
    \/ StartCore \/ WaitCore \/ CoreFinished \/ WriteOutput \/ WriteOutputFault

LEMMA Works ==
    ASSUME VerdictInv, Working
    PROVE  VerdictInv' /\ Engine!DescWork
<1>1. /\ state_q # "IDLE" /\ state_q' # "IDLE" /\ busy_q' = busy_q /\ done_q' = done_q
      /\ \/ error_q' = error_q /\ error_code_q' = error_code_q
         \/ error_q' = TRUE /\ error_code_q' \in 1 .. 6
         \/ error_q' = FALSE /\ error_code_q' = ERR_NONE
    <2>1. CASE MemStall
        BY <2>1 DEF MemStall, mem_valid, ReadStates, WriteStates, flagVars
    <2>2. CASE ReadDesc \/ ReadPubSeed \/ ReadAddr \/ ReadInput
        BY <2>2 DEF ReadDesc, ReadPubSeed, ReadAddr, ReadInput, GoodRead, BeatAccepted, flagVars
    <2>3. CASE ParseDesc
        BY <2>3, Codes DEF ParseDesc, ERR_NONE
    <2>4. CASE ReadFault \/ WriteOutputFault
        BY <2>4, Codes DEF ReadFault, WriteOutputFault, ReadStates, Fail
    <2>5. CASE StartCore \/ WaitCore \/ CoreFinished
        BY <2>5, Codes DEF StartCore, WaitCore, CoreFinished, Fail, flagVars
    <2>6. CASE WriteOutput
        BY <2>6 DEF WriteOutput, BeatAccepted, flagVars
    <2>7. QED
        BY <2>1, <2>2, <2>3, <2>4, <2>5, <2>6 DEF Working
<1>2. Verdict(error_q, error_code_q)' \in Engine!Verdicts
    BY <1>1, Good, Bad DEF VerdictInv, Verdict
<1>3. QED
    BY <1>1, <1>2 DEF VerdictInv, Engine!DescWork, Verdict

LEMMA StepIsEngineStep ==
    ASSUME VerdictInv, [Next]_vars
    PROVE  VerdictInv' /\ [Engine!DescNext]_(Engine!descVars)
<1>1. CASE IdleTick \/ UNCHANGED vars
    BY <1>1 DEF IdleTick, vars, adapterVars, flagVars, VerdictInv, Verdict, Engine!descVars
<1>2. ASSUME NEW a \in DescriptorAddresses, StartDescriptor(a)
      PROVE  VerdictInv' /\ [Engine!DescNext]_(Engine!descVars)
    BY <1>2, Begins DEF Engine!DescNext, Engine!DescTick
<1>3. CASE WriteStatus \/ WriteStatusFault
    BY <1>3, Ends DEF Engine!DescNext, Engine!DescTick
<1>4. CASE Working
    BY <1>4, Works DEF Engine!DescNext, Engine!DescTick
<1>5. CASE Reset
    BY <1>5, Good DEF Reset, VerdictInv, Verdict, Engine!DescNext, Engine!DescReset
<1>6. QED
    BY <1>1, <1>2, <1>3, <1>4, <1>5 DEF Next, Job, Working

(***************************************************************************)
(* Seen through busy, done, error and code, spx_descriptor_adapter is the  *)
(* engine the control path is modelled with, as far as safety goes: done   *)
(* rises at the edge at which busy falls and keeps its verdict.            *)
(***************************************************************************)
THEOREM AdapterIsEngine == Spec => Engine!DescInit /\ [][Engine!DescNext]_(Engine!descVars)
    BY VerdictInit, StepIsEngineStep, PTL DEF Spec

----------------------------------------------------------------------------
LEMMA Least ==
    ASSUME NEW S \in SUBSET Nat, S # {}
    PROVE  \E m \in S : \A k \in S : m <= k
<1>1. \E m \in S : \A k \in S : ~(<<k, m>> \in OpToRel(<, Nat))
    BY NatLessThanWellFounded, WFMin, Zenon
<1>2. \A m, k \in Nat : <<k, m>> \in OpToRel(<, Nat) <=> k < m
    BY DEF OpToRel
<1>3. \E m \in S : \A k \in S : ~(k < m)
    BY <1>1, <1>2, Zenon
<1>4. QED
    BY <1>3

LEMMA Induct ==
    ASSUME NEW S, 0 \in S, \A n \in Nat : n \in S => n + 1 \in S
    PROVE  Nat \subseteq S
<1> DEFINE T == Nat \ S
<1>1. SUFFICES ASSUME T # {} PROVE FALSE
    OBVIOUS
<1>2. PICK m \in T : \A k \in T : m <= k
    BY <1>1, Least
<1>3. m \in Nat /\ m # 0 /\ m - 1 \in Nat /\ m - 1 \notin T
    BY <1>2
<1>4. QED
    BY <1>2, <1>3

\* The values of a chain of n steps, as ScalarChain has them.
Chain(seed, addr, start, v, n, g) ==
    g = [k \in 0 .. n |-> IF k = 0 THEN v ELSE ChainStep(seed, addr, start + k - 1, g[k - 1])]

LEMMA ChainExists ==
    ASSUME NEW seed, NEW addr, NEW start, NEW v
    PROVE  \A n \in Nat : \E g : Chain(seed, addr, start, v, n, g)
<1> DEFINE S == {n \in Nat : \E g : Chain(seed, addr, start, v, n, g)}
<1>1. 0 \in S
    <2>1. Chain(seed, addr, start, v, 0, [k \in 0 .. 0 |-> v])
        BY DEF Chain
    <2>2. QED
        BY <2>1
<1>2. ASSUME NEW n \in Nat, n \in S PROVE n + 1 \in S
    <2>1. PICK g : Chain(seed, addr, start, v, n, g)
        BY <1>2
    <2> DEFINE h == [k \in 0 .. n + 1 |-> IF k = n + 1 THEN ChainStep(seed, addr, start + n, g[n]) ELSE g[k]]
    <2>2. ASSUME NEW k \in 0 .. n + 1
          PROVE  h[k] = IF k = 0 THEN v ELSE ChainStep(seed, addr, start + k - 1, h[k - 1])
        <3>1. CASE k = n + 1
            <4>1. h[k] = ChainStep(seed, addr, start + n, g[n]) /\ h[k - 1] = g[n]
                BY <3>1
            <4>2. start + k - 1 = start + n
                BY <3>1
            <4>3. QED
                BY <3>1, <4>1, <4>2
        <3>2. CASE k \in 0 .. n
            <4>1. g[k] = IF k = 0 THEN v ELSE ChainStep(seed, addr, start + k - 1, g[k - 1])
                BY <2>1, <3>2 DEF Chain
            <4>2. h[k] = g[k] /\ (k # 0 => h[k - 1] = g[k - 1])
                BY <3>2
            <4>3. QED
                BY <4>1, <4>2
        <3>3. QED
            BY <3>1, <3>2
    <2>3. h = [k \in 0 .. n + 1 |-> h[k]]
        OBVIOUS
    <2> HIDE DEF h
    <2>4. Chain(seed, addr, start, v, n + 1, h)
        BY <2>2, <2>3 DEF Chain
    <2>5. QED
        BY <2>4
<1> HIDE DEF S
<1>3. Nat \subseteq S
    BY <1>1, <1>2, Induct
<1>4. QED
    BY <1>3 DEF S

LEMMA ChainsAgree ==
    ASSUME NEW seed, NEW addr, NEW start, NEW v, NEW n \in Nat, NEW m \in Nat, n <= m,
           NEW g, NEW h, Chain(seed, addr, start, v, n, g), Chain(seed, addr, start, v, m, h)
    PROVE  g[n] = h[n]
<1> DEFINE S == {k \in Nat : k <= n => g[k] = h[k]}
<1>1. 0 \in S
    BY DEF Chain
<1>2. ASSUME NEW k \in Nat, k \in S PROVE k + 1 \in S
    <2>1. SUFFICES ASSUME k + 1 <= n PROVE g[k + 1] = h[k + 1]
        OBVIOUS
    <2>2. g[k] = h[k] /\ k + 1 \in 0 .. n /\ k + 1 \in 0 .. m /\ k + 1 # 0 /\ (k + 1) - 1 = k
        BY <1>2, <2>1
    <2>3. g[k + 1] = ChainStep(seed, addr, start + (k + 1) - 1, g[k])
        BY <2>2 DEF Chain
    <2>4. h[k + 1] = ChainStep(seed, addr, start + (k + 1) - 1, h[k])
        BY <2>2 DEF Chain
    <2>5. QED
        BY <2>2, <2>3, <2>4
<1> HIDE DEF S
<1>3. n \in S
    BY <1>1, <1>2, Induct
<1>4. QED
    BY <1>3 DEF S

LEMMA ScalarChainIs ==
    ASSUME NEW seed, NEW addr, NEW start, NEW n \in Nat, NEW v,
           NEW g, Chain(seed, addr, start, v, n, g)
    PROVE  ScalarChain(seed, addr, start, n, v) = g[n]
<1> DEFINE f == CHOOSE h : Chain(seed, addr, start, v, n, h)
<1>1. Chain(seed, addr, start, v, n, f)
    OBVIOUS
<1>2. ScalarChain(seed, addr, start, n, v) = f[n]
    BY DEF ScalarChain, Chain
<1> HIDE DEF f
<1>3. QED
    BY <1>1, <1>2, ChainsAgree

(***************************************************************************)
(* ScalarChain, step by step.                                              *)
(***************************************************************************)
LEMMA ScalarChainEmpty ==
    ASSUME NEW seed, NEW addr, NEW start, NEW v
    PROVE  ScalarChain(seed, addr, start, 0, v) = v
<1>1. PICK g : Chain(seed, addr, start, v, 0, g)
    BY ChainExists
<1>2. g[0] = v
    BY <1>1 DEF Chain
<1>3. QED
    BY <1>1, <1>2, ScalarChainIs

LEMMA ScalarChainNext ==
    ASSUME NEW seed, NEW addr, NEW start \in Nat, NEW n \in Nat, NEW v
    PROVE  ScalarChain(seed, addr, start, n + 1, v)
             = ChainStep(seed, addr, start + n, ScalarChain(seed, addr, start, n, v))
<1>1. PICK g : Chain(seed, addr, start, v, n, g)
    BY ChainExists
<1>2. PICK h : Chain(seed, addr, start, v, n + 1, h)
    BY ChainExists
<1>3. g[n] = h[n]
    <2>1. n + 1 \in Nat /\ n <= n + 1
        OBVIOUS
    <2>2. QED
        BY <1>1, <1>2, <2>1, ChainsAgree
<1>4. h[n + 1] = ChainStep(seed, addr, start + n, h[n])
    <2>1. n + 1 \in 0 .. n + 1 /\ n + 1 # 0 /\ (n + 1) - 1 = n /\ start + (n + 1) - 1 = start + n
        OBVIOUS
    <2>2. h[n + 1] = ChainStep(seed, addr, start + (n + 1) - 1, h[(n + 1) - 1])
        BY <1>2, <2>1 DEF Chain
    <2>3. QED
        BY <2>1, <2>2
<1>5. ScalarChain(seed, addr, start, n, v) = g[n]
    BY <1>1, ScalarChainIs
<1>6. ScalarChain(seed, addr, start, n + 1, v) = h[n + 1]
    <2>1. n + 1 \in Nat
        OBVIOUS
    <2>2. QED
        BY <1>2, <2>1, ScalarChainIs
<1>7. QED
    BY <1>3, <1>4, <1>5, <1>6

----------------------------------------------------------------------------
\* The rounds applied when n of them have been.
RoundsUpTo(n) == [i \in 1 .. n |-> i - 1]

LEMMA AppendRound ==
    ASSUME NEW n \in Nat
    PROVE  Append(RoundsUpTo(n), n) = RoundsUpTo(n + 1)
<1>1. RoundsUpTo(n) \in Seq(Nat) /\ Len(RoundsUpTo(n)) = n
    BY DEF RoundsUpTo
<1>2. RoundsUpTo(n + 1) \in Seq(Nat) /\ Len(RoundsUpTo(n + 1)) = n + 1
    BY DEF RoundsUpTo
<1> DEFINE s == Append(RoundsUpTo(n), n)
<1>3. s \in Seq(Nat) /\ Len(s) = n + 1
    BY <1>1
<1>4. \A i \in 1 .. n + 1 : s[i] = RoundsUpTo(n + 1)[i]
    BY <1>1 DEF RoundsUpTo
<1> HIDE DEF s
<1>5. s = RoundsUpTo(n + 1)
    BY <1>2, <1>3, <1>4, SeqEqual
<1>6. QED
    BY <1>5 DEF s

\* The Keccak states of four blocks with n rounds applied.
Applied(blocks, n) ==
    \A l \in Lane : /\ keccak_state_q[l].block = blocks[l]
                    /\ keccak_state_q[l].rounds = RoundsUpTo(n)

\* The thash engine e cycles after it took the four blocks; in the last of
\* these cycles it shows their digests.
ThashAt(blocks, e) ==
    \/ /\ thash_state_q = "START_CORE" /\ ~thash_done /\ ~keccak_busy_q /\ ~keccak_done
       /\ absorb_q = blocks
       /\ e = 0
    \/ /\ thash_state_q = "WAIT_CORE" /\ ~thash_done /\ keccak_busy_q /\ ~keccak_done
       /\ keccak_round_q \in 0 .. Rounds - 1
       /\ Applied(blocks, keccak_round_q)
       /\ e = 1 + keccak_round_q
    \/ /\ thash_state_q = "WAIT_CORE" /\ ~thash_done /\ ~keccak_busy_q /\ keccak_done
       /\ Applied(blocks, Rounds)
       /\ e = 1 + Rounds
    \/ /\ ThashShows
       /\ thash_out = [l \in Lane |-> Thash(blocks[l])]
       /\ e = 2 + Rounds

LEMMA ThashTakes ==
    ASSUME ThashRest, NEW start, NEW req, NEW b, start = TRUE, req.inblocks \in {1, 2},
           b = AbsorbX4(req), ThashTick(start, req)
    PROVE  ThashAt(b, 0)'
<1>1. ~ThashStartTick /\ ~ThashWaitTick /\ ~CoreStart /\ ~KeccakRoundTick
    BY DEF ThashRest, ThashStartTick, ThashWaitTick, CoreStart, KeccakRoundTick
<1>2. ThashIdleTick(start, req) /\ KeccakIdleTick(CoreStart)
    BY <1>1 DEF ThashTick, KeccakTick, KeccakLoadTick
<1>3. QED
    BY <1>2 DEF ThashRest, ThashAt, ThashIdleTick, KeccakIdleTick

LEMMA RoundApplied ==
    ASSUME NEW blocks, NEW n \in Nat, keccak_round_q = n, Applied(blocks, n), KeccakRoundTick
    PROVE  Applied(blocks, n + 1)'
<1> SUFFICES ASSUME NEW l \in Lane
             PROVE  /\ keccak_state_q'[l].block = blocks[l]
                    /\ keccak_state_q'[l].rounds = RoundsUpTo(n + 1)
    BY DEF Applied
<1> DEFINE s == keccak_state_q[l]
<1>1. s.block = blocks[l] /\ s.rounds = RoundsUpTo(n)
    BY DEF Applied
<1>2. keccak_state_q'[l] = [block |-> s.block, rounds |-> Append(s.rounds, n)]
    BY DEF KeccakRoundTick, KeccakRound
<1> HIDE DEF s
<1>3. QED
    BY <1>1, <1>2, AppendRound

LEMMA KeccakWorks ==
    ASSUME NEW blocks, keccak_busy_q, keccak_round_q \in 0 .. Rounds - 1,
           Applied(blocks, keccak_round_q), KeccakRoundTick
    PROVE  \/ /\ keccak_busy_q' /\ ~keccak_done' /\ keccak_round_q' \in 0 .. Rounds - 1
              /\ Applied(blocks, keccak_round_q)' /\ keccak_round_q' = keccak_round_q + 1
           \/ /\ ~keccak_busy_q' /\ keccak_done' /\ Applied(blocks, Rounds)'
              /\ keccak_round_q + 1 = Rounds
<1>0. PICK n : n = keccak_round_q
    OBVIOUS
<1>1. n \in Nat /\ n <= Rounds - 1 /\ Rounds \in Nat
    BY <1>0, RoundsAssumption
<1>2. Applied(blocks, n + 1)'
    BY <1>0, <1>1, RoundApplied
<1>3. CASE LastRound
    <2>1. keccak_busy_q' = FALSE /\ keccak_done' = TRUE /\ n + 1 = Rounds
        BY <1>0, <1>1, <1>3 DEF KeccakRoundTick, LastRound
    <2>2. QED
        BY <1>0, <1>2, <2>1
<1>4. CASE ~LastRound
    <2>1. keccak_busy_q' /\ ~keccak_done' /\ keccak_round_q' = n + 1 /\ n # Rounds - 1
        BY <1>0, <1>4 DEF KeccakRoundTick, LastRound
    <2>2. Applied(blocks, keccak_round_q)'
        BY <1>2, <2>1 DEF Applied
    <2>3. n + 1 \in 0 .. Rounds - 1
        BY <1>1, <2>1
    <2>4. QED
        BY <1>0, <2>1, <2>2, <2>3
<1>5. QED
    BY <1>3, <1>4

\* A state to which every round has been applied gives the digest.
LEMMA AppliedIsThash ==
    ASSUME NEW blocks, Applied(blocks, Rounds)
    PROVE  [l \in Lane |-> Squeeze(keccak_state_q[l])] = [l \in Lane |-> Thash(blocks[l])]
<1> SUFFICES ASSUME NEW l \in Lane
             PROVE  Squeeze(keccak_state_q[l]) = Thash(blocks[l])
    OBVIOUS
<1> DEFINE s == keccak_state_q[l]
<1>1. s.block = blocks[l] /\ s.rounds = [i \in 1 .. Rounds |-> i - 1]
    BY DEF Applied, RoundsUpTo
<1>2. Permuted(s)
    BY <1>1 DEF Permuted
<1>3. QED
    BY <1>1, <1>2 DEF Squeeze

LEMMA ThashWorksOn ==
    ASSUME NEW blocks, NEW e, ThashAt(blocks, e), ~thash_done,
           NEW start, NEW req, ThashTick(start, req)
    PROVE  ThashAt(blocks, e + 1)'
<1>1. CASE thash_state_q = "START_CORE"
    <2>0. absorb_q = blocks /\ e = 0 /\ ~keccak_busy_q
        BY <1>1 DEF ThashAt, ThashShows
    <2>1. ThashStartTick /\ CoreStart
        BY <1>1 DEF ThashTick, ThashIdleTick, ThashWaitTick, CoreStart
    <2>2. KeccakLoadTick(CoreStart, absorb_q)
        BY <2>0, <2>1 DEF ThashTick, KeccakTick, KeccakRoundTick, KeccakIdleTick
    <2>3. /\ thash_state_q' = "WAIT_CORE" /\ ~thash_done' /\ keccak_busy_q' /\ ~keccak_done'
          /\ keccak_round_q' = 0 /\ absorb_q' = absorb_q
        BY <2>1, <2>2 DEF ThashStartTick, KeccakLoadTick
    <2>4. RoundsUpTo(0) = <<>>
        BY DEF RoundsUpTo
    <2>5. Applied(blocks, keccak_round_q)'
        <3>1. PICK r : r = RoundsUpTo(0)
            OBVIOUS
        <3>2. \A l \in Lane : keccak_state_q'[l] = [block |-> blocks[l], rounds |-> r]
            BY <2>0, <2>2, <2>4, <3>1 DEF KeccakLoadTick, Absorbed
        <3>3. ASSUME NEW l \in Lane
              PROVE  keccak_state_q'[l].block = blocks[l] /\ keccak_state_q'[l].rounds = r
            <4>1. PICK b, t : b = blocks[l] /\ t = keccak_state_q'[l]
                OBVIOUS
            <4>2. t = [block |-> b, rounds |-> r]
                BY <3>2, <4>1
            <4>3. t.block = b /\ t.rounds = r
                BY <4>2
            <4>4. QED
                BY <4>1, <4>3, Zenon
        <3>4. QED
            BY <2>3, <3>1, <3>3, Zenon DEF Applied
    <2>6. 0 \in 0 .. Rounds - 1 /\ e + 1 = 1 + 0
        BY <2>0, RoundsAssumption
    <2>7. QED
        BY <2>3, <2>5, <2>6 DEF ThashAt
<1>2. CASE thash_state_q = "WAIT_CORE"
    <2>1. ThashWaitTick /\ ~CoreStart
        BY <1>2 DEF ThashTick, ThashIdleTick, ThashStartTick, CoreStart
    <2>2. CASE keccak_busy_q
        <3>0. /\ ~keccak_done /\ keccak_round_q \in 0 .. Rounds - 1
              /\ Applied(blocks, keccak_round_q) /\ e = 1 + keccak_round_q
            BY <1>2, <2>2 DEF ThashAt, ThashShows
        <3>1. KeccakRoundTick
            BY <2>2 DEF ThashTick, KeccakTick, KeccakLoadTick, KeccakIdleTick
        <3>2. thash_state_q' = "WAIT_CORE" /\ ~thash_done'
            BY <1>2, <2>1, <3>0 DEF ThashWaitTick
        <3>3. \/ /\ keccak_busy_q' /\ ~keccak_done' /\ keccak_round_q' \in 0 .. Rounds - 1
                 /\ Applied(blocks, keccak_round_q)' /\ keccak_round_q' = keccak_round_q + 1
              \/ /\ ~keccak_busy_q' /\ keccak_done' /\ Applied(blocks, Rounds)'
                 /\ keccak_round_q + 1 = Rounds
            BY <2>2, <3>0, <3>1, KeccakWorks
        <3>4. CASE keccak_busy_q'
            <4>1. e + 1 = 1 + keccak_round_q'
                BY <3>0, <3>3, <3>4
            <4>2. QED
                BY <3>2, <3>3, <3>4, <4>1 DEF ThashAt
        <3>5. CASE ~keccak_busy_q'
            <4>1. e + 1 = 1 + Rounds
                BY <3>0, <3>3, <3>5
            <4>2. QED
                BY <3>2, <3>3, <3>5, <4>1 DEF ThashAt
        <3>6. QED
            BY <3>4, <3>5
    <2>3. CASE ~keccak_busy_q
        <3>0. keccak_done /\ Applied(blocks, Rounds) /\ e = 1 + Rounds
            BY <1>2, <2>3 DEF ThashAt, ThashShows
        <3>1. KeccakIdleTick(CoreStart)
            BY <2>1, <2>3 DEF ThashTick, KeccakTick, KeccakLoadTick, KeccakRoundTick
        <3>2. ThashShows'
            BY <2>1, <2>3, <3>0, <3>1 DEF ThashWaitTick, KeccakIdleTick, ThashShows
        <3>3. thash_out' = [l \in Lane |-> Thash(blocks[l])]
            BY <2>1, <3>0, AppliedIsThash DEF ThashWaitTick
        <3>4. e + 1 = 2 + Rounds
            BY <3>0, RoundsAssumption
        <3>5. QED
            BY <3>2, <3>3, <3>4 DEF ThashAt
    <2>4. QED
        BY <2>2, <2>3
<1>3. QED
    BY <1>1, <1>2 DEF ThashAt, ThashShows

\* In the cycle of the done pulse.
LEMMA ThashAnswers ==
    ASSUME NEW blocks, NEW e, ThashAt(blocks, e), thash_done
    PROVE  /\ ThashShows
           /\ thash_out = [l \in Lane |-> Thash(blocks[l])]
           /\ e = 2 + Rounds
    BY DEF ThashAt

----------------------------------------------------------------------------
\* The steps a lane of n steps has taken after k answers of the engine, and
\* what a lane of a job holds after n steps.
Taken(n, k) == IF n > k THEN k ELSE n
ChainValue(job, l, n) == ScalarChain(job.seed, job.addr[l], job.start[l], n, job.in[l])

JobFits(job) ==
    \A l \in Lane : /\ job.start[l] \in Nat /\ job.num[l] \in Nat
                    /\ job.num[l] <= SPX_WOTS_W - 1
                    /\ job.start[l] + job.num[l] <= SPX_WOTS_W

\* One lane of the chain machine after k answers, and the four of them.
LaneAt(job, k, l) ==
    /\ steps_left_q[l] = job.num[l] - Taken(job.num[l], k)
    /\ step_q[l] = job.start[l] + Taken(job.num[l], k)
    /\ chain_q[l] = ChainValue(job, l, Taken(job.num[l], k))
    /\ job.num[l] > k => wots_addr_q[l] = AddrWithHash(job.addr[l], step_q[l])
LanesAt(job, k) ==
    /\ wots_pub_seed_q = job.seed
    /\ \A l \in Lane : LaneAt(job, k, l)

LEMMA HashStepReplaced ==
    ASSUME NEW addr, NEW s, NEW t
    PROVE  AddrWithHash(AddrWithHash(addr, s), t) = AddrWithHash(addr, t)
    BY DEF AddrWithHash

LEMMA LanesBegin ==
    ASSUME NEW start, NEW job, JobFits(job), WotsBeginTick(start, job)
    PROVE  LanesAt(job, 0)'
<1>1. /\ wots_pub_seed_q' = job.seed /\ wots_addr_q' = AddrBegin(job)
      /\ chain_q' = job.in /\ step_q' = job.start /\ steps_left_q' = job.num
    BY DEF WotsBeginTick
<1>2. ASSUME NEW l \in Lane
      PROVE  LaneAt(job, 0, l)'
    <2>1. job.num[l] \in Nat /\ job.start[l] \in Nat
        BY DEF JobFits
    <2>2. Taken(job.num[l], 0) = 0
        BY <2>1 DEF Taken
    <2>3. ChainValue(job, l, 0) = job.in[l]
        BY ScalarChainEmpty DEF ChainValue
    <2>4. wots_addr_q'[l] = AddrWithHash(job.addr[l], job.start[l])
        BY <1>1 DEF AddrBegin
    <2>5. job.num[l] - 0 = job.num[l] /\ job.start[l] + 0 = job.start[l]
        BY <2>1
    <2>6. QED
        BY <1>1, <2>2, <2>3, <2>4, <2>5 DEF LaneAt
<1>3. QED
    BY <1>1, <1>2 DEF LanesAt

\* The block the engine has absorbed for a lane that still has steps to take
\* is that of the lane's next step.
LEMMA RequestIsStep ==
    ASSUME NEW job, NEW k \in Nat, JobFits(job), LanesAt(job, k), NEW l \in Lane, job.num[l] > k
    PROVE  Thash(AbsorbX4(WotsRequest)[l]) = ChainValue(job, l, k + 1)
<1>1. job.num[l] \in Nat /\ job.start[l] \in Nat
    BY DEF JobFits
<1>2. /\ wots_pub_seed_q = job.seed
      /\ chain_q[l] = ChainValue(job, l, k)
      /\ wots_addr_q[l] = AddrWithHash(job.addr[l], job.start[l] + k)
    <2>1. Taken(job.num[l], k) = k
        BY <1>1 DEF Taken
    <2>2. QED
        BY <2>1 DEF LanesAt, LaneAt
<1>3. AbsorbX4(WotsRequest)[l]
        = BuildAbsorbState(wots_pub_seed_q, wots_addr_q[l], ZeroExtend(chain_q[l]), 1)
    BY DEF AbsorbX4, WotsRequest
<1>4. Thash(AbsorbX4(WotsRequest)[l])
        = ChainStep(job.seed, job.addr[l], job.start[l] + k, ChainValue(job, l, k))
    BY <1>2, <1>3 DEF ChainStep
<1>5. QED
    BY <1>1, <1>4, ScalarChainNext DEF ChainValue

\* An answer: each lane with steps left takes one.
LEMMA LaneAnswered ==
    ASSUME NEW job, NEW k \in Nat, JobFits(job), LanesAt(job, k), NEW rsp, NEW valid,
           rsp = [l \in Lane |-> Thash(AbsorbX4(WotsRequest)[l])],
           WotsResponseTick(valid, rsp), NEW l \in Lane
    PROVE  /\ LaneAt(job, k + 1, l)'
           /\ ChainNext(rsp)[l] = ChainValue(job, l, Taken(job.num[l], k + 1))
           /\ StepsLeftNext[l] = job.num[l] - Taken(job.num[l], k + 1)
<1>1. job.num[l] \in Nat /\ job.start[l] \in Nat /\ LaneAt(job, k, l)
    BY DEF JobFits, LanesAt
<1>2. /\ steps_left_q' = StepsLeftNext /\ step_q' = StepNext
      /\ chain_q' = ChainNext(rsp) /\ wots_addr_q' = AddrNext
    BY DEF WotsResponseTick
<1>3. CASE job.num[l] > k
    <2>1. Taken(job.num[l], k) = k /\ Taken(job.num[l], k + 1) = k + 1
        BY <1>1, <1>3 DEF Taken
    <2>2. /\ steps_left_q[l] = job.num[l] - k /\ step_q[l] = job.start[l] + k
          /\ wots_addr_q[l] = AddrWithHash(job.addr[l], step_q[l])
        BY <1>1, <1>3, <2>1 DEF LaneAt
    <2>3. Active(l)
        BY <1>1, <1>3, <2>2 DEF Active
    <2>4. StepsLeftNext[l] = job.num[l] - (k + 1)
        <3>1. StepsLeftNext[l] = steps_left_q[l] - 1
            BY <2>3 DEF StepsLeftNext
        <3>2. QED
            BY <1>1, <2>2, <3>1
    <2>5. StepNext[l] = job.start[l] + (k + 1)
        <3>1. StepNext[l] = step_q[l] + 1
            BY <2>3 DEF StepNext
        <3>2. QED
            BY <1>1, <2>2, <3>1
    <2>6. ChainNext(rsp)[l] = ChainValue(job, l, k + 1)
        <3>1. ChainNext(rsp)[l] = rsp[l]
            BY <2>3 DEF ChainNext
        <3>2. rsp[l] = Thash(AbsorbX4(WotsRequest)[l])
            OBVIOUS
        <3>3. QED
            BY <1>3, <3>1, <3>2, RequestIsStep
    <2>7. ASSUME job.num[l] > k + 1
          PROVE  AddrNext[l] = AddrWithHash(job.addr[l], StepNext[l])
        <3>1. StepsLeftNext[l] # 0
            BY <1>1, <2>4, <2>7
        <3>2. AddrNext[l] = AddrWithHash(wots_addr_q[l], StepNext[l])
            BY <3>1 DEF AddrNext
        <3>3. QED
            BY <2>2, <3>2, HashStepReplaced
    <2>8. QED
        BY <1>2, <2>1, <2>4, <2>5, <2>6, <2>7 DEF LaneAt
<1>4. CASE ~(job.num[l] > k)
    <2>1. Taken(job.num[l], k) = job.num[l] /\ Taken(job.num[l], k + 1) = job.num[l]
        BY <1>1, <1>4 DEF Taken
    <2>2. steps_left_q[l] = 0
        BY <1>1, <2>1 DEF LaneAt
    <2>3. StepsLeftNext[l] = steps_left_q[l] /\ StepNext[l] = step_q[l]
          /\ ChainNext(rsp)[l] = chain_q[l]
        BY <2>2 DEF Active, StepsLeftNext, StepNext, ChainNext
    <2>4. ~(job.num[l] > k + 1)
        BY <1>1, <1>4
    <2>5. QED
        BY <1>1, <1>2, <2>1, <2>3, <2>4 DEF LaneAt
<1>5. QED
    BY <1>3, <1>4

LEMMA LanesAnswered ==
    ASSUME NEW job, NEW k \in Nat, JobFits(job), LanesAt(job, k), NEW rsp, NEW valid,
           rsp = [l \in Lane |-> Thash(AbsorbX4(WotsRequest)[l])],
           WotsResponseTick(valid, rsp)
    PROVE  /\ LanesAt(job, k + 1)'
           /\ AllStepsDoneNext <=> \A l \in Lane : job.num[l] <= k + 1
           /\ AllStepsDoneNext => wots_out' = [l \in Lane |-> ChainValue(job, l, job.num[l])]
<1>1. wots_pub_seed_q' = wots_pub_seed_q
    BY DEF WotsResponseTick
<1>2. LanesAt(job, k + 1)'
    BY <1>1, LaneAnswered DEF LanesAt
<1>3. ASSUME NEW l \in Lane
      PROVE  /\ StepsLeftNext[l] = 0 <=> job.num[l] <= k + 1
             /\ job.num[l] <= k + 1 => ChainNext(rsp)[l] = ChainValue(job, l, job.num[l])
    <2>1. /\ StepsLeftNext[l] = job.num[l] - Taken(job.num[l], k + 1)
          /\ ChainNext(rsp)[l] = ChainValue(job, l, Taken(job.num[l], k + 1))
        BY LaneAnswered
    <2>2. job.num[l] \in Nat
        BY DEF JobFits
    <2>3. QED
        BY <2>1, <2>2 DEF Taken
<1>4. AllStepsDoneNext <=> \A l \in Lane : job.num[l] <= k + 1
    BY <1>3 DEF AllStepsDoneNext
<1>5. ASSUME AllStepsDoneNext
      PROVE  wots_out' = [l \in Lane |-> ChainValue(job, l, job.num[l])]
    <2>1. wots_out' = ChainNext(rsp)
        BY <1>5 DEF WotsResponseTick
    <2>2. ChainNext(rsp) = [l \in Lane |-> ChainNext(rsp)[l]]
        BY DEF ChainNext
    <2>3. \A l \in Lane : ChainNext(rsp)[l] = ChainValue(job, l, job.num[l])
        BY <1>3, <1>4, <1>5
    <2>4. QED
        BY <2>1, <2>2, <2>3
<1>6. QED
    BY <1>2, <1>4, <1>5

----------------------------------------------------------------------------
(***************************************************************************)
(* The registers hold what their names say.                                *)
(***************************************************************************)
HeaderTyped == \A w \in Header : desc_word_q[w] \in HeaderWord(w)

Burst == {"READ_DESC", "READ_PUB_SEED", "READ_ADDR", "READ_INPUT", "WRITE_OUTPUT"}
TransferOK ==
    /\ transfer_word_q \in Nat /\ transfer_word_q % W = 0
    /\ IF state_q \in Burst THEN transfer_word_q < BurstTotalWords ELSE transfer_word_q = 0

\* The job under way, and memory until its output is written.
JobOK ==
    /\ DOMAIN mem \subseteq Nat
    /\ state_q # "IDLE" => /\ descriptor_addr_q \in DescriptorAddresses
                           /\ Prepared(job_mem, descriptor_addr_q)
    /\ state_q \notin {"IDLE", "WRITE_STATUS"} => Aligned(descriptor_addr_q)
    /\ state_q \notin {"IDLE", "WRITE_OUTPUT", "WRITE_STATUS"} => mem = job_mem
    /\ state_q # "IDLE" => DOMAIN mem = DOMAIN job_mem

Flags == done_q \in BOOLEAN /\ shared_thash_busy_q \in BOOLEAN

TypeInv ==
    /\ state_q \in States
    /\ HeaderTyped /\ TransferOK /\ JobOK
    /\ cfg_q.inblocks \in 0 .. 3

----------------------------------------------------------------------------
\* The arithmetic of a burst: its length is a multiple of every beat width.
LEMMA BeatFits ==
    ASSUME NEW t \in Nat, t % W = 0, NEW n \in {4, 8, 16, 32}, t < n
    PROVE  /\ t + W \in Nat /\ (t + W) % W = 0 /\ t + W <= n
           /\ IF t + W >= n THEN t + W = n ELSE t + W < n
<1>1. CASE W = 1
    BY <1>1
<1>2. CASE W = 2
    BY <1>2
<1>3. CASE W = 4
    BY <1>3
<1>4. QED
    BY <1>1, <1>2, <1>3, AdapterAssumption

LEMMA NoBeats == 0 \in Nat /\ 0 % W = 0
<1>1. W \in {1, 2, 4}
    BY AdapterAssumption
<1>2. QED
    BY <1>1

LEMMA BurstLengths ==
    /\ state_q \in Burst => BurstTotalWords \in {4, 8, 16, 32}
    /\ BurstTotalWords = CASE state_q = "READ_DESC" -> 8
                           [] state_q = "READ_PUB_SEED" -> 4
                           [] state_q = "READ_ADDR" -> 32
                           [] state_q = "READ_INPUT" -> IF cfg_q.inblocks = 2 THEN 32 ELSE 16
                           [] state_q = "WRITE_OUTPUT" -> 16
                           [] state_q = "WRITE_STATUS" -> W
    BY DEF BurstTotalWords, Burst, InputWordsPerLane, DESC_HEADER_WORDS, PUB_SEED_WORDS,
           ADDR_WORDS, OUTPUT_WORDS

\* What an accepted beat does to the place in the burst.
LEMMA BeatTaken ==
    ASSUME TransferOK, NEW next, state_q \in Burst, BeatAccepted(next), cfg_q' = cfg_q,
           next \in States, next # state_q
    PROVE  /\ TransferOK'
           /\ \/ TransferLast /\ state_q' = next /\ transfer_word_q' = 0
                 /\ transfer_word_q + W = BurstTotalWords
              \/ ~TransferLast /\ state_q' = state_q /\ transfer_word_q' = transfer_word_q + W
                 /\ transfer_word_q + W < BurstTotalWords
<1>1. /\ transfer_word_q + W \in Nat /\ (transfer_word_q + W) % W = 0
      /\ transfer_word_q + W <= BurstTotalWords
      /\ IF transfer_word_q + W >= BurstTotalWords THEN transfer_word_q + W = BurstTotalWords
         ELSE transfer_word_q + W < BurstTotalWords
    <2>1. /\ transfer_word_q \in Nat /\ transfer_word_q % W = 0
          /\ transfer_word_q < BurstTotalWords
        BY DEF TransferOK
    <2>2. BurstTotalWords \in {4, 8, 16, 32}
        BY BurstLengths
    <2>3. PICK t, n : t = transfer_word_q /\ n = BurstTotalWords
        OBVIOUS
    <2>4. t \in Nat /\ t % W = 0 /\ n \in {4, 8, 16, 32} /\ t < n
        BY <2>1, <2>2, <2>3, Zenon
    <2>5. /\ t + W \in Nat /\ (t + W) % W = 0 /\ t + W <= n
          /\ IF t + W >= n THEN t + W = n ELSE t + W < n
        BY <2>4, BeatFits, Zenon
    <2>6. QED
        BY <2>3, <2>5, Zenon
<1>2. TransferLast <=> transfer_word_q + W >= BurstTotalWords
    BY DEF TransferLast, TransferWordNext
<1>3. CASE TransferLast
    <2>1. state_q' = next /\ transfer_word_q' = 0
        BY <1>3 DEF BeatAccepted
    <2>2. state_q' \in Burst => BurstTotalWords' \in {4, 8, 16, 32}
        BY DEF BurstTotalWords, Burst, InputWordsPerLane, DESC_HEADER_WORDS, PUB_SEED_WORDS,
               ADDR_WORDS, OUTPUT_WORDS
    <2>3. transfer_word_q + W = BurstTotalWords
        BY <1>1, <1>2, <1>3
    <2>4. TransferOK'
        BY <2>1, <2>2, NoBeats DEF TransferOK
    <2>5. QED
        BY <1>3, <2>1, <2>3, <2>4
<1>4. CASE ~TransferLast
    <2>1. state_q' = state_q /\ transfer_word_q' = transfer_word_q + W
        BY <1>4 DEF BeatAccepted, TransferWordNext
    <2>2. BurstTotalWords' = BurstTotalWords
        BY <2>1 DEF BurstTotalWords, InputWordsPerLane
    <2>3. TransferOK'
        BY <1>1, <1>2, <1>4, <2>1, <2>2 DEF TransferOK
    <2>4. QED
        BY <1>1, <1>2, <1>4, <2>1, <2>3
<1>5. QED
    BY <1>3, <1>4

----------------------------------------------------------------------------
LEMMA HeaderWordIs ==
    /\ \A w \in 2 .. 5 : HeaderWord(w) = [ptr : Nat]
    /\ \A w \in 6 .. 7 : HeaderWord(w) = [bytes : [Lane -> Byte]]
<1>1. ASSUME NEW w \in 2 .. 5 PROVE HeaderWord(w) = [ptr : Nat]
    <2>1. w # 0 /\ w # 1 /\ w \notin 6 .. 7
        OBVIOUS
    <2>2. QED
        BY <2>1 DEF HeaderWord
<1>2. ASSUME NEW w \in 6 .. 7 PROVE HeaderWord(w) = [bytes : [Lane -> Byte]]
    <2>1. w # 0 /\ w # 1 /\ w \notin 2 .. 5
        OBVIOUS
    <2>2. QED
        BY <2>1 DEF HeaderWord
<1>3. QED
    BY <1>1, <1>2

LEMMA ZeroHeaderTyped == \A w \in Header : ZeroHeader[w] \in HeaderWord(w)
<1>1. ZeroHeader[0] \in HeaderWord(0)
    BY DEF ZeroHeader, HeaderWord, Header, StatusWord, ERR_NONE
<1>2. ZeroHeader[1] \in HeaderWord(1)
    BY DEF ZeroHeader, HeaderWord, Header, ConfigWord
<1>3. ASSUME NEW w \in 2 .. 5 PROVE ZeroHeader[w] \in HeaderWord(w)
    <2>1. ZeroHeader[w] = PointerWord(0)
        BY DEF ZeroHeader, Header
    <2>2. PointerWord(0) \in [ptr : Nat]
        BY DEF PointerWord
    <2>3. QED
        BY <2>1, <2>2, HeaderWordIs
<1>4. ASSUME NEW w \in 6 .. 7 PROVE ZeroHeader[w] \in HeaderWord(w)
    <2>1. ZeroHeader[w] = BytesWord(0, 0, 0, 0)
        BY DEF ZeroHeader, Header
    <2>2. BytesWord(0, 0, 0, 0) \in [bytes : [Lane -> Byte]]
        BY DEF BytesWord, Lane, Byte
    <2>3. QED
        BY <2>1, <2>2, HeaderWordIs
<1>5. \A w \in Header : w = 0 \/ w = 1 \/ w \in 2 .. 5 \/ w \in 6 .. 7
    BY DEF Header
<1>6. QED
    BY <1>1, <1>2, <1>3, <1>4, <1>5

LEMMA TypeInit == Init => TypeInv
<1> SUFFICES ASSUME Init PROVE TypeInv
    OBVIOUS
<1>1. /\ state_q = "IDLE" /\ desc_word_q = ZeroHeader /\ transfer_word_q = 0
      /\ cfg_q = ZeroConfig /\ mem \in InitialMemories
    BY DEF Init, AdapterInit
<1>2. HeaderTyped
    BY <1>1, ZeroHeaderTyped DEF HeaderTyped
<1>3. cfg_q.inblocks = 0
    BY <1>1 DEF ZeroConfig
<1>4. DOMAIN mem \subseteq Nat
    BY <1>1, AdapterAssumption
<1>5. QED
    BY <1>1, <1>2, <1>3, <1>4, NoBeats DEF TypeInv, States, TransferOK, JobOK, Burst

\* A good read of another burst than the header's.
LEMMA TypeOperandRead ==
    ASSUME TypeInv, ReadPubSeed \/ ReadAddr \/ ReadInput
    PROVE  TypeInv'
<1>1. PICK next \in {"READ_ADDR", "READ_INPUT", "START_CORE"} :
          /\ GoodRead(next) /\ desc_word_q' = desc_word_q /\ next # state_q
          /\ state_q \in {"READ_PUB_SEED", "READ_ADDR", "READ_INPUT"}
    BY DEF ReadPubSeed, ReadAddr, ReadInput
<1>2. /\ BeatAccepted(next) /\ UNCHANGED <<descriptor_addr_q, cfg_q, mem, job_mem>>
    BY <1>1 DEF GoodRead
<1>3. TransferOK' /\ state_q' \in {next, state_q}
    BY <1>1, <1>2, BeatTaken DEF TypeInv, States, Burst, ReadStates, WriteStates
<1>4. JobOK'
    BY <1>1, <1>2, <1>3 DEF TypeInv, JobOK, Prepared
<1>5. QED
    BY <1>1, <1>2, <1>3, <1>4 DEF TypeInv, HeaderTyped, States, ReadStates, WriteStates

LEMMA TypeHeaderRead ==
    ASSUME TypeInv, ReadDesc
    PROVE  TypeInv'
<1>1. /\ state_q = "READ_DESC" /\ GoodRead("PARSE_DESC")
      /\ desc_word_q' = [w \in Header |-> IF w \in BeatWords THEN ReadWord(w) ELSE desc_word_q[w]]
    BY DEF ReadDesc
<1>2. /\ BeatAccepted("PARSE_DESC") /\ UNCHANGED <<descriptor_addr_q, cfg_q, mem, job_mem>>
    BY <1>1 DEF GoodRead
<1>3. TransferOK' /\ state_q' \in {"PARSE_DESC", "READ_DESC"}
    BY <1>1, <1>2, BeatTaken DEF TypeInv, States, Burst, ReadStates, WriteStates
<1>4. JobOK'
    BY <1>1, <1>2, <1>3 DEF TypeInv, JobOK, Prepared
<1>5. ASSUME NEW w \in Header PROVE desc_word_q'[w] \in HeaderWord(w)
    <2>1. ReadWord(w) = job_mem[descriptor_addr_q + w]
        BY <1>1 DEF ReadWord, BurstBaseAddr, TypeInv, JobOK
    <2>2. job_mem[descriptor_addr_q + w] \in HeaderWord(w)
        BY <1>1 DEF TypeInv, JobOK, Prepared
    <2>3. QED
        BY <1>1, <2>1, <2>2 DEF TypeInv, HeaderTyped
<1>6. QED
    BY <1>2, <1>3, <1>4, <1>5 DEF TypeInv, HeaderTyped, States, ReadStates, WriteStates

LEMMA TypeParse ==
    ASSUME TypeInv, ParseDesc
    PROVE  TypeInv'
<1>1. /\ state_q = "PARSE_DESC" /\ state_q' \in {"READ_PUB_SEED", "WRITE_STATUS"}
      /\ cfg_q' = ParsedConfig /\ transfer_word_q' = 0
      /\ UNCHANGED <<desc_word_q, descriptor_addr_q, mem, job_mem>>
    BY DEF ParseDesc
<1>2. cfg_q'.inblocks \in 0 .. 3
    <2>1. desc_word_q[1] \in [op : Nat, variant : Nat, lanes : Nat, inblocks : 0 .. 3]
        BY DEF TypeInv, HeaderTyped, HeaderWord, Header
    <2>2. cfg_q'.inblocks = IF WotsOp(DescOpType) THEN 1 ELSE desc_word_q[1].inblocks
        BY <1>1 DEF ParsedConfig
    <2>3. QED
        BY <2>1, <2>2
<1>3. TransferOK'
    BY <1>1, NoBeats DEF TransferOK, Burst, BurstTotalWords, PUB_SEED_WORDS
<1>4. JobOK'
    BY <1>1 DEF TypeInv, JobOK, Prepared
<1>5. QED
    BY <1>1, <1>2, <1>3, <1>4 DEF TypeInv, HeaderTyped, States, ReadStates, WriteStates

LEMMA TypeStart ==
    ASSUME TypeInv, NEW a \in DescriptorAddresses, Prepared(mem, a), StartDescriptor(a)
    PROVE  TypeInv'
<1>1. /\ descriptor_addr_q' = a /\ transfer_word_q' = 0 /\ job_mem' = mem
      /\ state_q' = IF Aligned(a) THEN "READ_DESC" ELSE "WRITE_STATUS"
      /\ UNCHANGED <<desc_word_q, mem>>
      /\ cfg_q' = [cfg_q EXCEPT !.op = ZeroConfig.op, !.starts = ZeroConfig.starts,
                                !.nums = ZeroConfig.nums]
    BY DEF StartDescriptor
<1>2. cfg_q'.inblocks = cfg_q.inblocks
    BY <1>1
<1>3. TransferOK'
    BY <1>1, NoBeats DEF TransferOK, Burst, BurstTotalWords, DESC_HEADER_WORDS
<1>4. JobOK'
    BY <1>1 DEF TypeInv, JobOK, Prepared
<1>5. QED
    BY <1>1, <1>2, <1>3, <1>4 DEF TypeInv, HeaderTyped, States, ReadStates, WriteStates

\* A cycle that moves none of these registers but, at most, the state.
LEMMA TypeCore ==
    ASSUME TypeInv, MemStall \/ IdleTick \/ StartCore \/ WaitCore
    PROVE  TypeInv'
<1>1. /\ UNCHANGED <<desc_word_q, descriptor_addr_q, cfg_q, transfer_word_q, mem, job_mem>>
      /\ \/ state_q' = state_q
         \/ state_q \in {"START_CORE", "WAIT_CORE"} /\ state_q' = "WAIT_CORE"
    BY DEF MemStall, IdleTick, StartCore, WaitCore, jobVars, adapterVars
<1>2. TransferOK'
    BY <1>1 DEF TypeInv, TransferOK, Burst, BurstTotalWords, InputWordsPerLane
<1>3. JobOK'
    BY <1>1 DEF TypeInv, JobOK, Prepared
<1>4. QED
    BY <1>1, <1>2, <1>3 DEF TypeInv, HeaderTyped, States, ReadStates, WriteStates

LEMMA TypeHandover ==
    ASSUME TypeInv, CoreFinished \/ ReadFault
    PROVE  TypeInv'
<1>1. /\ UNCHANGED <<desc_word_q, descriptor_addr_q, cfg_q, mem, job_mem>>
      /\ transfer_word_q' = 0
      /\ \/ state_q \in {"WAIT_CORE"} \cup ReadStates /\ state_q' = "WRITE_STATUS"
         \/ state_q = "WAIT_CORE" /\ state_q' = "WRITE_OUTPUT"
    BY DEF CoreFinished, ReadFault, jobVars
<1>2. TransferOK'
    BY <1>1, NoBeats DEF TransferOK, Burst, BurstTotalWords, OUTPUT_WORDS
<1>3. JobOK'
    BY <1>1 DEF TypeInv, JobOK, Prepared, ReadStates
<1>4. QED
    BY <1>1, <1>2, <1>3 DEF TypeInv, HeaderTyped, States, ReadStates, WriteStates

LEMMA TypeWrite ==
    ASSUME TypeInv, WriteOutput \/ WriteOutputFault \/ WriteStatus \/ WriteStatusFault
    PROVE  TypeInv'
<1>1. /\ UNCHANGED <<desc_word_q, descriptor_addr_q, cfg_q, job_mem>>
      /\ mem' \in {mem, Written}
      /\ \/ state_q = "WRITE_OUTPUT" /\ BeatAccepted("WRITE_STATUS")
         \/ state_q = "WRITE_OUTPUT" /\ state_q' = "WRITE_STATUS" /\ transfer_word_q' = 0
         \/ state_q = "WRITE_STATUS" /\ state_q' = "IDLE" /\ transfer_word_q' = transfer_word_q
    BY DEF WriteOutput, WriteOutputFault, WriteStatus, WriteStatusFault, StatusAccepted, jobVars
<1>2. DOMAIN mem' = DOMAIN mem
    BY <1>1 DEF Written
<1>3. /\ TransferOK'
      /\ \/ state_q = "WRITE_OUTPUT" /\ state_q' \in {"WRITE_OUTPUT", "WRITE_STATUS"}
         \/ state_q = "WRITE_STATUS" /\ state_q' = "IDLE"
    <2>1. CASE state_q = "WRITE_OUTPUT" /\ BeatAccepted("WRITE_STATUS")
        BY <1>1, <2>1, BeatTaken DEF TypeInv, States, Burst, ReadStates, WriteStates
    <2>2. CASE state_q = "WRITE_OUTPUT" /\ state_q' = "WRITE_STATUS" /\ transfer_word_q' = 0
        BY <2>2, NoBeats DEF TransferOK, Burst
    <2>3. CASE state_q = "WRITE_STATUS" /\ state_q' = "IDLE" /\ transfer_word_q' = transfer_word_q
        BY <2>3 DEF TypeInv, TransferOK, Burst
    <2>4. QED
        BY <1>1, <2>1, <2>2, <2>3
<1>4. JobOK'
    BY <1>1, <1>2, <1>3 DEF TypeInv, JobOK, Prepared
<1>5. QED
    BY <1>1, <1>3, <1>4 DEF TypeInv, HeaderTyped, States, ReadStates, WriteStates

LEMMA TypeReset ==
    ASSUME TypeInv, Reset
    PROVE  TypeInv'
<1>1. /\ state_q' = "IDLE" /\ desc_word_q' = ZeroHeader /\ transfer_word_q' = 0
      /\ cfg_q' = ZeroConfig /\ mem' = mem
    BY DEF Reset
<1>2. cfg_q'.inblocks = 0
    BY <1>1 DEF ZeroConfig
<1>3. QED
    BY <1>1, <1>2, ZeroHeaderTyped, NoBeats
       DEF TypeInv, HeaderTyped, States, TransferOK, JobOK, Burst

LEMMA TypeNext == TypeInv /\ [Next]_vars => TypeInv'
<1> SUFFICES ASSUME TypeInv, [Next]_vars PROVE TypeInv'
    OBVIOUS
<1>1. CASE UNCHANGED vars
    BY <1>1 DEF vars, adapterVars, jobVars, TypeInv, HeaderTyped, TransferOK, JobOK, Prepared,
          BurstTotalWords, InputWordsPerLane
<1>2. QED
    BY <1>1, TypeOperandRead, TypeHeaderRead, TypeParse, TypeStart, TypeCore, TypeHandover,
       TypeWrite, TypeReset DEF Next, Job

(***************************************************************************)
(* The registers of spx_descriptor_adapter are typed, a burst never passes *)
(* its last word, and from the start of a job to its output memory is as   *)
(* software prepared it.                                                   *)
(***************************************************************************)
THEOREM TypesHold == Spec => []TypeInv
    BY TypeInit, TypeNext, PTL DEF Spec

----------------------------------------------------------------------------
LEMMA FlagsInit == Init => Flags
    BY DEF Init, AdapterInit, EngineInit, Flags

LEMMA FlagsNext == Flags /\ [Next]_vars => Flags'
<1> SUFFICES ASSUME Flags, [Next]_vars PROVE Flags'
    OBVIOUS
<1>1. ASSUME NEW clear, EngineClock(clear)
      PROVE  shared_thash_busy_q' \in BOOLEAN
    <2>1. SharedBusyNext(cfg_q.op, state_q = "START_CORE", clear) \in BOOLEAN
        BY Zenon DEF SharedBusyNext
    <2>2. QED
        BY <1>1, <2>1, Zenon DEF EngineClock, EngineTick
<1>2. CASE \E a \in DescriptorAddresses : StartDescriptor(a)
    BY <1>1, <1>2, Zenon DEF StartDescriptor, Flags
<1>3. CASE IdleTick \/ MemStall \/ StartCore \/ WaitCore
    BY <1>1, <1>3, Zenon DEF IdleTick, MemStall, StartCore, WaitCore, adapterVars, flagVars, Flags
<1>4. CASE ReadDesc \/ ReadPubSeed \/ ReadAddr \/ ReadInput
    BY <1>1, <1>4, Zenon DEF ReadDesc, ReadPubSeed, ReadAddr, ReadInput, GoodRead, flagVars, Flags
<1>5. CASE ParseDesc \/ ReadFault \/ CoreFinished
    BY <1>1, <1>5, Zenon DEF ParseDesc, ReadFault, CoreFinished, Fail, flagVars, Flags
<1>6. CASE WriteOutput \/ WriteOutputFault
    BY <1>1, <1>6, Zenon DEF WriteOutput, WriteOutputFault, Fail, flagVars, Flags
<1>7. CASE WriteStatus \/ WriteStatusFault
    BY <1>1, <1>7, Zenon DEF WriteStatus, WriteStatusFault, StatusAccepted, Flags
<1>8. CASE Reset
    BY <1>8, Zenon DEF Reset, EngineReset, Flags
<1>9. CASE UNCHANGED vars
    BY <1>9, Zenon DEF vars, adapterVars, flagVars, engineVars, Flags
<1>10. QED
    BY <1>2, <1>3, <1>4, <1>5, <1>6, <1>7, <1>8, <1>9 DEF Next, Job

LEMMA VerdictCases ==
    ASSUME VerdictInv
    PROVE  \/ error_q = FALSE /\ error_code_q = ERR_NONE
           \/ error_q = TRUE /\ error_code_q \in 1 .. 6
<1>1. PICK v : v = Verdict(error_q, error_code_q) /\ v \in Engine!Verdicts
    BY DEF VerdictInv
<1>2. v.error = error_q /\ v.code = error_code_q
    BY <1>1 DEF Verdict
<1>3. CASE v = Engine!GoodVerdict
    BY <1>2, <1>3 DEF Engine!GoodVerdict, ERR_NONE
<1>4. CASE v # Engine!GoodVerdict
    <2>1. PICK c \in 1 .. 6 : v = [error |-> TRUE, code |-> c]
        BY <1>1, <1>4 DEF Engine!Verdicts
    <2>2. v.error = TRUE /\ v.code = c
        BY <2>1
    <2>3. QED
        BY <1>2, <2>2
<1>5. QED
    BY <1>3, <1>4

LEMMA VerdictTyped ==
    ASSUME VerdictInv
    PROVE  busy_q \in BOOLEAN /\ error_q \in BOOLEAN /\ error_code_q \in 0 .. 6
<1>1. busy_q \in BOOLEAN
    <2>1. (state_q # "IDLE") \in BOOLEAN
        BY Zenon
    <2>2. QED
        BY <2>1, Zenon DEF VerdictInv
<1>2. error_q \in BOOLEAN
    BY VerdictCases, Zenon
<1>3. error_code_q = ERR_NONE \/ error_code_q \in 1 .. 6
    BY VerdictCases, Zenon
<1>4. error_code_q \in 0 .. 6
    BY <1>3 DEF ERR_NONE
<1>5. QED
    BY <1>1, <1>2, <1>4

LEMMA TransferTyped ==
    ASSUME TransferOK
    PROVE  transfer_word_q \in 0 .. 31
<1>1. state_q \in Burst => BurstTotalWords \in {4, 8, 16, 32}
    BY BurstLengths
<1>2. QED
    BY <1>1 DEF TransferOK

(***************************************************************************)
(* The registers of spx_descriptor_adapter hold values of their types, for *)
(* every beat width and whatever software writes into the fields of its    *)
(* descriptors: no burst runs past its last word.                          *)
(***************************************************************************)
THEOREM AdapterTypes == Spec => []TypeOK
<1>1. TypeInv /\ Flags /\ VerdictInv /\ PerfInv => TypeOK
    <2> SUFFICES ASSUME TypeInv, Flags, VerdictInv, PerfInv PROVE TypeOK
        OBVIOUS
    <2>1. busy_q \in BOOLEAN /\ error_q \in BOOLEAN /\ error_code_q \in 0 .. 6
        BY VerdictTyped
    <2>2. transfer_word_q \in 0 .. 31
        BY TransferTyped DEF TypeInv
    <2>3. perf_q \in [{"load", "core", "store", "total"} -> Nat]
        BY DEF PerfInv, Counters
    <2>4. state_q \in States /\ cfg_q.inblocks \in 0 .. 3
        BY DEF TypeInv
    <2>5. QED
        BY <2>1, <2>2, <2>3, <2>4, Zenon DEF TypeOK, Flags
<1>2. VerdictInv /\ [Next]_vars => VerdictInv'
    BY StepIsEngineStep
<1>3. QED
    BY <1>1, <1>2, TypesHold, InvHolds, FlagsInit, FlagsNext, VerdictInit, PerfInit, PerfNext, PTL
       DEF Spec

----------------------------------------------------------------------------
(***************************************************************************)
(* What the engine does with a job, cycle by cycle.                        *)
(***************************************************************************)
\* The operands of the job, as the cores get them.
Operands ==
    [seed |-> buf_q.seed, addr |-> buf_q.addr, in |-> buf_q.input,
     starts |-> cfg_q.starts, nums |-> cfg_q.nums]
Blocks ==
    AbsorbX4([seed |-> buf_q.seed, addr |-> buf_q.addr, in |-> buf_q.input,
              inblocks |-> cfg_q.inblocks])
TheJob == WotsJob(cfg_q.op, Operands)

Digests(blocks) == [l \in Lane |-> Thash(blocks[l])]
ChainEnds(job)  == [l \in Lane |-> ChainValue(job, l, job.num[l])]
Result == IF WotsOp(cfg_q.op) THEN ChainEnds(TheJob) ELSE Digests(Blocks)

\* What PARSE_DESC lets through, until the engine is done with it.
Accepted == state_q \in {"READ_PUB_SEED", "READ_ADDR", "READ_INPUT", "START_CORE", "WAIT_CORE"}
ConfigFits ==
    Accepted =>
        /\ cfg_q.op \in {OP_TYPE_THASHX4, OP_TYPE_WOTS_CHAINX4, OP_TYPE_WOTS_CHAINX4_MIXED}
        /\ cfg_q.starts \in [Lane -> Byte] /\ cfg_q.nums \in [Lane -> Byte]
        /\ WotsOp(cfg_q.op) => WindowFits(cfg_q.op, cfg_q.starts, cfg_q.nums)
        /\ ~WotsOp(cfg_q.op) => cfg_q.inblocks \in {1, 2}

\* The cycles of k steps of the longest chain.
Cost(k) == (Rounds + 4) * k

\* The chain machine with the engine after k answers, c cycles into its job.
ChainsAt(job, k, c) ==
    \/ /\ wots_state_q = "START_THASH" /\ ~wots_done /\ ThashRest /\ ~shared_thash_busy_q
       /\ LanesAt(job, k) /\ (\E l \in Lane : job.num[l] > k)
       /\ c = 1 + Cost(k)
    \/ /\ wots_state_q = "WAIT_THASH" /\ ~wots_done /\ shared_thash_busy_q
       /\ LanesAt(job, k) /\ (\E l \in Lane : job.num[l] > k)
       /\ \E e \in Nat : ThashAt(AbsorbX4(WotsRequest), e) /\ c = 2 + Cost(k) + e
    \/ /\ wots_state_q = "IDLE" /\ wots_done /\ ThashRest /\ ~shared_thash_busy_q
       /\ wots_out = ChainEnds(job)
       /\ (\A l \in Lane : job.num[l] <= k) /\ (\E l \in Lane : job.num[l] = k)
       /\ c = 1 + Cost(k)

\* The core counter of a finished job.
Latent ==
    IF WotsOp(cfg_q.op)
    THEN \E k \in Nat : /\ \A l \in Lane : TheJob.num[l] <= k
                        /\ \E l \in Lane : TheJob.num[l] = k
                        /\ perf_q.core = 1 + Cost(k)
    ELSE perf_q.core = Rounds + 3

AtWork ==
    IF WotsOp(cfg_q.op) THEN \E k \in Nat : ChainsAt(TheJob, k, perf_q.core)
    ELSE \E e \in Nat : ThashAt(Blocks, e) /\ perf_q.core = 1 + e

CoreInv ==
    /\ ConfigFits
    /\ state_q \in ReadStates \cup {"PARSE_DESC", "START_CORE"} => perf_q.core = 0
    /\ state_q = "WAIT_CORE" => AtWork
    /\ state_q = "WRITE_OUTPUT" => CoreOut(cfg_q.op) = Result /\ Latent
    /\ state_q = "WRITE_STATUS" /\ ~error_q => Latent
    /\ state_q = "IDLE" /\ done_q /\ ~error_q => Latent

----------------------------------------------------------------------------
LEMMA CostNext ==
    /\ Cost(0) = 0
    /\ \A k \in Nat : Cost(k) \in Nat /\ Cost(k + 1) = Cost(k) + Rounds + 4
<1>1. Rounds \in Nat
    BY RoundsAssumption
<1>2. Cost(0) = 0
    BY <1>1 DEF Cost
<1>3. ASSUME NEW k \in Nat
      PROVE  Cost(k) \in Nat /\ Cost(k + 1) = Cost(k) + Rounds + 4
    <2>1. \A a \in Nat : a * k \in Nat /\ a * (k + 1) = a * k + a
        OBVIOUS
    <2>2. Rounds + 4 \in Nat
        BY <1>1
    <2>3. (Rounds + 4) * k \in Nat /\ (Rounds + 4) * (k + 1) = (Rounds + 4) * k + (Rounds + 4)
        BY <2>1, <2>2
    <2>4. QED
        BY <1>1, <2>3 DEF Cost
<1>4. QED
    BY <1>2, <1>3

LEMMA CoreCounted ==
    ASSUME perf_q \in Counters, NEW counters, Count(counters)
    PROVE  /\ perf_q.core \in Nat
           /\ "core" \in counters => perf_q'.core = perf_q.core + 1
           /\ "core" \notin counters => perf_q'.core = perf_q.core
    BY DEF Count, Counters

LEMMA JobIsFit ==
    ASSUME ConfigFits, Accepted, WotsOp(cfg_q.op)
    PROVE  JobFits(TheJob) /\ StartConfigOk(TheJob)
<1>1. /\ cfg_q.starts \in [Lane -> Byte] /\ cfg_q.nums \in [Lane -> Byte]
      /\ WindowFits(cfg_q.op, cfg_q.starts, cfg_q.nums)
    BY DEF ConfigFits
<1>2. PICK s, n : /\ s = StartSteps(cfg_q.op = OP_TYPE_WOTS_CHAINX4_MIXED, cfg_q.starts, cfg_q.nums)
                  /\ n = NumSteps(cfg_q.op = OP_TYPE_WOTS_CHAINX4_MIXED, cfg_q.nums)
    OBVIOUS
<1>3. \A l \in Lane : s[l] \in Nat /\ n[l] \in Nat
    <2>1. \A l \in Lane : cfg_q.starts[l] \in Nat /\ cfg_q.nums[l] \in Nat
        BY <1>1 DEF Byte
    <2>2. CASE cfg_q.op = OP_TYPE_WOTS_CHAINX4_MIXED
        BY <1>2, <2>1, <2>2 DEF StartSteps, NumSteps
    <2>3. CASE cfg_q.op # OP_TYPE_WOTS_CHAINX4_MIXED
        <3>1. 0 \in Lane /\ 1 \in Lane
            BY DEF Lane
        <3>2. QED
            BY <1>2, <2>1, <2>3, <3>1 DEF StartSteps, NumSteps
    <2>4. QED
        BY <2>2, <2>3
<1>4. \A l \in Lane : /\ s[l] <= SPX_WOTS_W /\ n[l] <= SPX_WOTS_W - 1
                      /\ s[l] + n[l] <= SPX_WOTS_W
    BY <1>1, <1>2, Zenon DEF WindowFits
<1>5. TheJob.start = s /\ TheJob.num = n
    BY <1>2 DEF TheJob, WotsJob, Operands
<1>6. QED
    BY <1>3, <1>4, <1>5 DEF JobFits, StartConfigOk

\* The wires of the engine.
LEMMA EngineWires ==
    ASSUME NEW clear, EngineClock(clear)
    PROVE  /\ ThashTick(SharedThashStart(cfg_q.op, state_q = "START_CORE"),
                        SharedThashRequest(cfg_q.op, cfg_q.inblocks, Operands))
           /\ WotsTick(WotsCoreStart(cfg_q.op, state_q = "START_CORE"), TheJob,
                       WotsReqReady(cfg_q.op), WotsRspValid(cfg_q.op), thash_out)
           /\ shared_thash_busy_q' = SharedBusyNext(cfg_q.op, state_q = "START_CORE", clear)
    BY DEF EngineClock, EngineTick, TheJob, Operands

LEMMA ThashBegins ==
    ASSUME CoreInv, AllAtRest, state_q = "START_CORE", ~WotsOp(cfg_q.op), EngineClock(FALSE),
           NEW b, b = Blocks
    PROVE  ThashAt(b, 0)'
<1>1. cfg_q.op = OP_TYPE_THASHX4 /\ cfg_q.inblocks \in {1, 2}
    BY DEF CoreInv, ConfigFits, Accepted, WotsOp
<1>2. PICK start : start = SharedThashStart(cfg_q.op, state_q = "START_CORE")
    OBVIOUS
<1>3. PICK r : r = SharedThashRequest(cfg_q.op, cfg_q.inblocks, Operands)
    OBVIOUS
<1>4. r.inblocks \in {1, 2} /\ b = AbsorbX4(r)
    BY <1>1, <1>3 DEF SharedThashRequest, Operands, Blocks
<1>5. ThashTick(start, r)
    BY <1>2, <1>3, EngineWires
<1>6. start = TRUE
    BY <1>1, <1>2 DEF SharedThashStart, ThashCoreStart
<1>7. ThashRest
    BY DEF AllAtRest
<1>8. QED
    BY <1>4, <1>5, <1>6, <1>7, ThashTakes

LEMMA ThashRuns ==
    ASSUME NEW b, NEW e \in Nat, ThashAt(b, e), ~thash_done, EngineClock(FALSE)
    PROVE  ThashAt(b, e + 1)'
    BY EngineWires, ThashWorksOn

LEMMA ChainsBegin ==
    ASSUME CoreInv, AllAtRest, state_q = "START_CORE", WotsOp(cfg_q.op), EngineClock(FALSE),
           NEW j, j = TheJob
    PROVE  ChainsAt(j, 0, 1)'
<1>1. JobFits(j) /\ StartConfigOk(j)
    BY JobIsFit DEF CoreInv, Accepted
<1>2. SharedThashStart(cfg_q.op, state_q = "START_CORE") = FALSE
    BY DEF AllAtRest, WotsRest, SharedThashStart, ThashCoreStart, wots_req_valid, WotsOp,
           OP_TYPE_THASHX4, OP_TYPE_WOTS_CHAINX4, OP_TYPE_WOTS_CHAINX4_MIXED
<1>3. ThashRest'
    BY <1>2, RestStays, EngineWires DEF AllAtRest
<1>4. ~shared_thash_busy_q'
    BY <1>2, EngineWires DEF SharedBusyNext, AllAtRest
<1>5. PICK start : start = WotsCoreStart(cfg_q.op, state_q = "START_CORE")
    OBVIOUS
<1>6. start = TRUE
    BY <1>5 DEF WotsCoreStart
<1>7. WotsCopyTick(start, j) \/ WotsBeginTick(start, j)
    <2>1. WotsTick(start, j, WotsReqReady(cfg_q.op), WotsRspValid(cfg_q.op), thash_out)
        BY <1>5, EngineWires
    <2>2. QED
        BY <1>1, <1>6, <2>1 DEF AllAtRest, WotsRest, WotsTick, WotsQuietTick, WotsRefuseTick,
              WotsRequestTick, WotsWaitTick, WotsResponseTick
<1>8. CASE WotsCopyTick(start, j)
    <2>1. wots_state_q' = "IDLE" /\ wots_done' /\ wots_out' = j.in
        BY <1>8 DEF WotsCopyTick
    <2>2. \A l \in Lane : j.num[l] = 0
        BY <1>8 DEF WotsCopyTick, AnyStepsRequested
    <2>3. wots_out' = ChainEnds(j)
        <3>1. j.in = [l \in Lane |-> j.in[l]]
            BY DEF TheJob, WotsJob
        <3>2. ASSUME NEW l \in Lane PROVE ChainValue(j, l, j.num[l]) = j.in[l]
            <4>1. ChainValue(j, l, 0) = j.in[l]
                BY ScalarChainEmpty DEF ChainValue
            <4>2. QED
                BY <2>2, <4>1
        <3>3. QED
            BY <2>1, <3>1, <3>2 DEF ChainEnds
    <2>4. (\A l \in Lane : j.num[l] <= 0) /\ \E l \in Lane : j.num[l] = 0
        BY <2>2 DEF Lane
    <2>5. 1 = 1 + Cost(0)
        BY CostNext
    <2>6. QED
        BY <1>3, <1>4, <2>1, <2>3, <2>4, <2>5 DEF ChainsAt
<1>9. CASE WotsBeginTick(start, j)
    <2>1. wots_state_q' = "START_THASH" /\ ~wots_done'
        BY <1>9 DEF WotsBeginTick
    <2>2. LanesAt(j, 0)'
        BY <1>1, <1>9, LanesBegin
    <2>3. \E l \in Lane : j.num[l] > 0
        <3>1. \E l \in Lane : j.num[l] # 0
            BY <1>9 DEF WotsBeginTick, AnyStepsRequested
        <3>2. \A l \in Lane : j.num[l] \in Nat
            BY <1>1 DEF JobFits
        <3>3. QED
            BY <3>1, <3>2
    <2>4. 1 = 1 + Cost(0)
        BY CostNext
    <2>5. QED
        BY <1>3, <1>4, <2>1, <2>2, <2>3, <2>4 DEF ChainsAt
<1>10. QED
    BY <1>7, <1>8, <1>9

----------------------------------------------------------------------------
\* A cycle of the chain machine in the middle of its job.
LEMMA ChainsAsk ==
    ASSUME NEW j, NEW k \in Nat, NEW c \in Nat, ChainsAt(j, k, c), state_q = "WAIT_CORE",
           WotsOp(cfg_q.op), wots_state_q = "START_THASH", EngineClock(FALSE)
    PROVE  ChainsAt(j, k, c + 1)'
<1>1. /\ ~wots_done /\ ThashRest /\ ~shared_thash_busy_q /\ LanesAt(j, k)
      /\ (\E l \in Lane : j.num[l] > k) /\ c = 1 + Cost(k)
    BY DEF ChainsAt
<1>2. WotsReqReady(cfg_q.op) = TRUE
    BY <1>1 DEF WotsReqReady
<1>3. PICK start : start = SharedThashStart(cfg_q.op, state_q = "START_CORE")
    OBVIOUS
<1>4. start = TRUE
    BY <1>2, <1>3 DEF SharedThashStart, wots_req_valid
<1>5. PICK b : b = AbsorbX4(WotsRequest)
    OBVIOUS
<1>6. PICK r : r = SharedThashRequest(cfg_q.op, cfg_q.inblocks, Operands)
    OBVIOUS
<1>7. r.inblocks \in {1, 2} /\ b = AbsorbX4(r)
    BY <1>5, <1>6 DEF SharedThashRequest, WotsRequest
<1>8. ThashTick(start, r)
    BY <1>3, <1>6, EngineWires
<1>9. ThashAt(b, 0)'
    BY <1>1, <1>4, <1>7, <1>8, ThashTakes
<1>10. WotsRequestTick(WotsReqReady(cfg_q.op))
    BY EngineWires DEF WotsTick, WotsQuietTick, WotsRefuseTick, WotsCopyTick,
       WotsBeginTick, WotsWaitTick, WotsResponseTick
<1>11. wots_state_q' = "WAIT_THASH" /\ ~wots_done' /\ UNCHANGED wotsRegs
    BY <1>2, <1>10 DEF WotsRequestTick
<1>12. LanesAt(j, k)' /\ b = AbsorbX4(WotsRequest)'
    BY <1>1, <1>5, <1>11 DEF LanesAt, LaneAt, wotsRegs, WotsRequest, AbsorbX4
<1>13. shared_thash_busy_q'
    BY <1>3, <1>4, EngineWires DEF SharedBusyNext
<1>14. \E e \in Nat : ThashAt(AbsorbX4(WotsRequest), e)' /\ c + 1 = 2 + Cost(k) + e
    <2>1. c + 1 = 2 + Cost(k) + 0
        BY <1>1, CostNext
    <2>2. ThashAt(AbsorbX4(WotsRequest), 0)'
        BY <1>9, <1>12 DEF ThashAt
    <2>3. QED
        BY <2>1, <2>2
<1>15. QED
    BY <1>1, <1>11, <1>12, <1>13, <1>14 DEF ChainsAt

LEMMA ChainsWait ==
    ASSUME NEW j, NEW k \in Nat, NEW c \in Nat, ChainsAt(j, k, c), state_q = "WAIT_CORE",
           WotsOp(cfg_q.op), wots_state_q = "WAIT_THASH", ~thash_done, EngineClock(FALSE)
    PROVE  ChainsAt(j, k, c + 1)'
<1>1. /\ ~wots_done /\ shared_thash_busy_q /\ LanesAt(j, k) /\ (\E l \in Lane : j.num[l] > k)
    BY DEF ChainsAt
<1>2. PICK e \in Nat : ThashAt(AbsorbX4(WotsRequest), e) /\ c = 2 + Cost(k) + e
    BY DEF ChainsAt
<1>3. PICK b : b = AbsorbX4(WotsRequest)
    OBVIOUS
<1>4. ThashAt(b, e + 1)'
    BY <1>2, <1>3, ThashRuns
<1>5. WotsWaitTick(WotsRspValid(cfg_q.op))
    <2>1. WotsRspValid(cfg_q.op) = FALSE
        BY DEF WotsRspValid
    <2>2. QED
        BY <2>1, EngineWires DEF WotsTick, WotsQuietTick, WotsRefuseTick, WotsCopyTick,
              WotsBeginTick, WotsResponseTick, WotsRequestTick
<1>6. wots_state_q' = "WAIT_THASH" /\ ~wots_done' /\ UNCHANGED wotsRegs
    BY <1>5 DEF WotsWaitTick
<1>7. LanesAt(j, k)' /\ b = AbsorbX4(WotsRequest)'
    BY <1>1, <1>3, <1>6 DEF LanesAt, LaneAt, wotsRegs, WotsRequest, AbsorbX4
<1>8. shared_thash_busy_q'
    BY <1>1, EngineWires DEF SharedBusyNext
<1>9. \E d \in Nat : ThashAt(AbsorbX4(WotsRequest), d)' /\ c + 1 = 2 + Cost(k) + d
    <2>1. c + 1 = 2 + Cost(k) + (e + 1)
        BY <1>2, CostNext
    <2>2. ThashAt(AbsorbX4(WotsRequest), e + 1)'
        BY <1>4, <1>7 DEF ThashAt
    <2>3. QED
        BY <2>1, <2>2
<1>10. QED
    BY <1>1, <1>6, <1>7, <1>8, <1>9 DEF ChainsAt

LEMMA ChainsMove ==
    ASSUME NEW j, NEW k \in Nat, NEW c \in Nat, ChainsAt(j, k, c), state_q = "WAIT_CORE",
           WotsOp(cfg_q.op), wots_state_q = "WAIT_THASH", thash_done, EngineClock(FALSE), JobFits(j)
    PROVE  ChainsAt(j, k + 1, c + 1)'
<1>1. /\ ~wots_done /\ shared_thash_busy_q /\ LanesAt(j, k) /\ (\E l \in Lane : j.num[l] > k)
    BY DEF ChainsAt
<1>2. PICK e \in Nat : ThashAt(AbsorbX4(WotsRequest), e) /\ c = 2 + Cost(k) + e
    BY DEF ChainsAt
<1>3. PICK b : b = AbsorbX4(WotsRequest)
    OBVIOUS
<1>4. ThashShows /\ thash_out = [l \in Lane |-> Thash(b[l])] /\ e = 2 + Rounds
    BY <1>2, <1>3, ThashAnswers
<1>5. c + 1 = 1 + Cost(k + 1)
    <2>1. Cost(k) \in Nat /\ Cost(k + 1) = Cost(k) + Rounds + 4
        BY CostNext
    <2>2. QED
        BY <1>2, <1>4, <2>1, RoundsAssumption
<1>6. PICK start : start = SharedThashStart(cfg_q.op, state_q = "START_CORE")
    OBVIOUS
<1>7. start = FALSE
    BY <1>6 DEF SharedThashStart, ThashCoreStart, wots_req_valid
<1>8. ThashRest'
    BY <1>4, <1>6, <1>7, EngineWires, ShowsEnds
<1>9. ~shared_thash_busy_q'
    BY <1>6, <1>7, EngineWires DEF SharedBusyNext
<1>10. PICK rsp : rsp = thash_out
    OBVIOUS
<1>11. WotsResponseTick(WotsRspValid(cfg_q.op), rsp)
    <2>1. WotsRspValid(cfg_q.op) = TRUE
        BY DEF WotsRspValid
    <2>2. QED
        BY <1>10, <2>1, EngineWires DEF WotsTick, WotsQuietTick, WotsRefuseTick, WotsCopyTick,
              WotsBeginTick, WotsWaitTick, WotsRequestTick
<1>12. rsp = [l \in Lane |-> Thash(AbsorbX4(WotsRequest)[l])]
    BY <1>3, <1>4, <1>10
<1>13. /\ LanesAt(j, k + 1)'
       /\ AllStepsDoneNext <=> \A l \in Lane : j.num[l] <= k + 1
       /\ AllStepsDoneNext => wots_out' = [l \in Lane |-> ChainValue(j, l, j.num[l])]
    BY <1>1, <1>11, <1>12, LanesAnswered
<1>14. \A l \in Lane : j.num[l] \in Nat
    BY DEF JobFits
<1>15. CASE AllStepsDoneNext
    <2>1. wots_state_q' = "IDLE" /\ wots_done'
        BY <1>11, <1>15 DEF WotsResponseTick
    <2>2. wots_out' = ChainEnds(j)
        BY <1>13, <1>15 DEF ChainEnds
    <2>3. (\A l \in Lane : j.num[l] <= k + 1) /\ (\E l \in Lane : j.num[l] = k + 1)
        BY <1>1, <1>13, <1>14, <1>15
    <2>4. QED
        BY <1>5, <1>8, <1>9, <2>1, <2>2, <2>3 DEF ChainsAt
<1>16. CASE ~AllStepsDoneNext
    <2>1. wots_state_q' = "START_THASH" /\ ~wots_done'
        BY <1>11, <1>16 DEF WotsResponseTick
    <2>2. \E l \in Lane : j.num[l] > k + 1
        BY <1>13, <1>14, <1>16
    <2>3. QED
        BY <1>5, <1>8, <1>9, <1>13, <2>1, <2>2 DEF ChainsAt
<1>17. QED
    BY <1>15, <1>16

LEMMA ChainsStep ==
    ASSUME NEW j, NEW k \in Nat, NEW c \in Nat, ChainsAt(j, k, c), state_q = "WAIT_CORE",
           WotsOp(cfg_q.op), ~wots_done, EngineClock(FALSE), JobFits(j)
    PROVE  \E n \in Nat : ChainsAt(j, n, c + 1)'
<1>1. wots_state_q \in {"START_THASH", "WAIT_THASH"}
    BY DEF ChainsAt
<1>2. k + 1 \in Nat
    OBVIOUS
<1>3. CASE wots_state_q = "START_THASH"
    BY <1>3, ChainsAsk
<1>4. CASE wots_state_q = "WAIT_THASH" /\ ~thash_done
    BY <1>4, ChainsWait
<1>5. CASE wots_state_q = "WAIT_THASH" /\ thash_done
    BY <1>2, <1>5, ChainsMove
<1>6. QED
    BY <1>1, <1>3, <1>4, <1>5

----------------------------------------------------------------------------
\* The same job and count under other names, after the edge.
LEMMA ChainsRenamed ==
    ASSUME NEW j, NEW k \in Nat, NEW c, ChainsAt(j, k, c)', TheJob' = j, perf_q'.core = c
    PROVE  ChainsAt(TheJob, k, perf_q.core)'
    BY DEF ChainsAt, LanesAt, LaneAt, ChainEnds

LEMMA ThashRenamed ==
    ASSUME NEW b, NEW e \in Nat, ThashAt(b, e)', Blocks' = b
    PROVE  ThashAt(Blocks, e)'
    BY DEF ThashAt, Applied

LEMMA CoreStarts ==
    ASSUME CoreInv, Inv, perf_q \in Counters, StartCore
    PROVE  CoreInv'
<1>1. /\ state_q = "START_CORE" /\ state_q' = "WAIT_CORE" /\ UNCHANGED <<buf_q, cfg_q>>
      /\ Count({"core"}) /\ EngineClock(FALSE)
    BY DEF StartCore, jobVars
<1>2. perf_q.core = 0 /\ perf_q'.core = 1
    <2>1. perf_q.core = 0
        BY <1>1 DEF CoreInv
    <2>2. perf_q'.core = perf_q.core + 1
        BY <1>1, CoreCounted
    <2>3. QED
        BY <2>1, <2>2
<1>3. AllAtRest
    BY <1>1 DEF Inv, EnginePhase, AllAtRest
<1>4. PICK j, b : j = TheJob /\ b = Blocks
    OBVIOUS
<1>5. TheJob' = j /\ Blocks' = b
    BY <1>1, <1>4 DEF TheJob, Blocks, Operands
<1>6. ConfigFits'
    BY <1>1 DEF CoreInv, ConfigFits, Accepted, WindowFits
<1>7. AtWork'
    <2>1. CASE WotsOp(cfg_q.op)
        <3>1. ChainsAt(j, 0, 1)'
            BY <1>1, <1>3, <1>4, <2>1, ChainsBegin
        <3>2. ChainsAt(TheJob, 0, perf_q.core)'
            BY <1>2, <1>5, <3>1, ChainsRenamed
        <3>3. QED
            BY <1>1, <2>1, <3>2 DEF AtWork
    <2>2. CASE ~WotsOp(cfg_q.op)
        <3>1. ThashAt(b, 0)'
            BY <1>1, <1>3, <1>4, <2>2, ThashBegins
        <3>2. ThashAt(Blocks, 0)' /\ perf_q'.core = 1 + 0
            BY <1>2, <1>5, <3>1, ThashRenamed
        <3>3. QED
            BY <1>1, <2>2, <3>2 DEF AtWork
    <2>3. QED
        BY <2>1, <2>2
<1>8. QED
    BY <1>1, <1>6, <1>7 DEF CoreInv, ReadStates

LEMMA CoreWorks ==
    ASSUME CoreInv, Inv, perf_q \in Counters, WaitCore
    PROVE  CoreInv'
<1>1. /\ state_q = "WAIT_CORE" /\ state_q' = "WAIT_CORE" /\ UNCHANGED <<buf_q, cfg_q>>
      /\ Count({"core"}) /\ EngineClock(FALSE) /\ ~CoreDone(cfg_q.op)
    BY DEF WaitCore, jobVars
<1>2. perf_q.core \in Nat /\ perf_q'.core = perf_q.core + 1
    BY <1>1, CoreCounted
<1>3. PICK j, b, c : j = TheJob /\ b = Blocks /\ c = perf_q.core
    OBVIOUS
<1>4. TheJob' = j /\ Blocks' = b /\ c \in Nat /\ perf_q'.core = c + 1
    BY <1>1, <1>2, <1>3 DEF TheJob, Blocks, Operands
<1>5. ConfigFits'
    BY <1>1 DEF CoreInv, ConfigFits, Accepted, WindowFits
<1>6. AtWork'
    <2>1. CASE WotsOp(cfg_q.op)
        <3>1. JobFits(j)
            BY <1>1, <1>3, <2>1, JobIsFit DEF CoreInv, Accepted, JobFits
        <3>2. PICK k \in Nat : ChainsAt(j, k, c)
            BY <1>1, <1>3, <2>1 DEF CoreInv, AtWork
        <3>3. ~wots_done
            BY <1>1, <2>1 DEF CoreDone
        <3>4. PICK n \in Nat : ChainsAt(j, n, c + 1)'
            BY <1>1, <1>4, <2>1, <3>1, <3>2, <3>3, ChainsStep
        <3>5. ChainsAt(TheJob, n, perf_q.core)'
            BY <1>4, <3>4, ChainsRenamed
        <3>6. QED
            BY <1>1, <2>1, <3>5 DEF AtWork
    <2>2. CASE ~WotsOp(cfg_q.op)
        <3>1. PICK e \in Nat : ThashAt(b, e) /\ c = 1 + e
            BY <1>1, <1>3, <2>2 DEF CoreInv, AtWork
        <3>2. ~thash_done
            BY <1>1, <2>2 DEF CoreDone
        <3>3. ThashAt(b, e + 1)'
            BY <1>1, <3>1, <3>2, ThashRuns
        <3>4. e + 1 \in Nat /\ perf_q'.core = 1 + (e + 1)
            BY <1>4, <3>1
        <3>5. ThashAt(Blocks, e + 1)'
            BY <1>4, <3>3, <3>4, ThashRenamed
        <3>6. QED
            BY <1>1, <2>2, <3>4, <3>5 DEF AtWork
    <2>3. QED
        BY <2>1, <2>2
<1>7. QED
    BY <1>1, <1>5, <1>6 DEF CoreInv, ReadStates

\* A cycle that leaves the operands, the counter and the cores' outputs alone.
LEMMA LatentKept ==
    ASSUME UNCHANGED <<buf_q, cfg_q>>, perf_q'.core = perf_q.core
    PROVE  (Latent => Latent') /\ (ConfigFits /\ (Accepted' => Accepted) => ConfigFits')
<1>1. TheJob' = TheJob
    BY DEF TheJob, Operands
<1>2. QED
    BY <1>1 DEF Latent, ConfigFits, WindowFits

LEMMA ResultKept ==
    ASSUME UNCHANGED <<buf_q, cfg_q, thash_out, wots_out>>, CoreOut(cfg_q.op) = Result
    PROVE  (CoreOut(cfg_q.op) = Result)'
<1>1. TheJob' = TheJob /\ Blocks' = Blocks
    BY DEF TheJob, Blocks, Operands
<1>2. QED
    BY <1>1 DEF CoreOut, Result, ChainEnds, Digests

\* The handoff cycle: the cores hold the outputs of the job.
LEMMA CoreHandsOver ==
    ASSUME CoreInv, Inv, perf_q \in Counters, CoreFinished
    PROVE  CoreInv'
<1>1. /\ state_q = "WAIT_CORE" /\ UNCHANGED <<buf_q, cfg_q>>
      /\ Count({}) /\ EngineClock(FALSE) /\ CoreDone(cfg_q.op)
      /\ state_q' = "WRITE_OUTPUT"
    BY DEF CoreFinished, jobVars, CoreError, Inv, EnginePhase
<1>2. perf_q'.core = perf_q.core
    BY <1>1, CoreCounted
<1>3. AtWork
    BY <1>1 DEF CoreInv
<1>4. CoreOut(cfg_q.op) = Result /\ Latent /\ UNCHANGED CoreOut(cfg_q.op)
    <2>1. CASE WotsOp(cfg_q.op)
        <3>1. PICK k \in Nat : ChainsAt(TheJob, k, perf_q.core)
            BY <1>3, <2>1 DEF AtWork
        <3>2. wots_done
            BY <1>1, <2>1 DEF CoreDone
        <3>3. /\ wots_state_q = "IDLE" /\ wots_out = ChainEnds(TheJob)
              /\ (\A l \in Lane : TheJob.num[l] <= k) /\ (\E l \in Lane : TheJob.num[l] = k)
              /\ perf_q.core = 1 + Cost(k)
            BY <3>1, <3>2 DEF ChainsAt
        <3>4. Latent /\ CoreOut(cfg_q.op) = Result
            BY <2>1, <3>3 DEF Latent, CoreOut, Result
        <3>5. WotsCoreStart(cfg_q.op, state_q = "START_CORE") = FALSE
            BY <1>1 DEF WotsCoreStart
        <3>6. wots_out' = wots_out
            BY <1>1, <3>3, <3>5, EngineWires DEF WotsTick, WotsQuietTick, WotsRefuseTick,
               WotsCopyTick, WotsBeginTick, WotsRequestTick, WotsWaitTick, WotsResponseTick
        <3>7. QED
            BY <1>1, <2>1, <3>4, <3>6 DEF CoreOut
    <2>2. CASE ~WotsOp(cfg_q.op)
        <3>1. PICK e \in Nat : ThashAt(Blocks, e) /\ perf_q.core = 1 + e
            BY <1>3, <2>2 DEF AtWork
        <3>2. thash_done
            BY <1>1, <2>2 DEF CoreDone
        <3>3. /\ ThashShows /\ thash_out = [l \in Lane |-> Thash(Blocks[l])] /\ e = 2 + Rounds
            BY <3>1, <3>2, ThashAnswers
        <3>4. Latent /\ CoreOut(cfg_q.op) = Result
            BY <2>2, <3>1, <3>3, RoundsAssumption DEF Latent, CoreOut, Result, Digests
        <3>5. SharedThashStart(cfg_q.op, state_q = "START_CORE") = FALSE
            BY <1>1, <2>2 DEF SharedThashStart, ThashCoreStart, WotsReqReady
        <3>6. thash_out' = thash_out
            BY <1>1, <3>3, <3>5, EngineWires DEF ThashTick, ThashIdleTick, ThashStartTick,
               ThashWaitTick, ThashShows
        <3>7. QED
            BY <1>1, <2>2, <3>4, <3>6 DEF CoreOut
    <2>3. QED
        BY <2>1, <2>2
<1>5. (CoreOut(cfg_q.op) = Result)'
    <2>1. TheJob' = TheJob /\ Blocks' = Blocks
        BY <1>1 DEF TheJob, Blocks, Operands
    <2>2. Result' = Result
        BY <1>1, <2>1 DEF Result, ChainEnds, Digests
    <2>3. QED
        BY <1>1, <1>4, <2>2
<1>6. Latent' /\ ConfigFits'
    BY <1>1, <1>2, <1>4, LatentKept DEF Accepted, CoreInv
<1>7. QED
    BY <1>1, <1>5, <1>6 DEF CoreInv, ReadStates

LEMMA CoreParse ==
    ASSUME CoreInv, TypeInv, perf_q \in Counters, ParseDesc
    PROVE  CoreInv'
<1>1. /\ state_q = "PARSE_DESC" /\ Count({}) /\ cfg_q' = ParsedConfig
      /\ \/ state_q' = "READ_PUB_SEED" /\ ParseError = ERR_NONE
         \/ state_q' = "WRITE_STATUS" /\ error_q'
    BY DEF ParseDesc
<1>2. perf_q'.core = 0
    BY <1>1, CoreCounted DEF CoreInv
<1>3. ConfigFits'
    <2> SUFFICES ASSUME state_q' = "READ_PUB_SEED" PROVE ConfigFits'
        BY <1>1 DEF ConfigFits, Accepted
    <2>1. OpTypeKnown /\ ChainOk /\ ConfigOk
        BY <1>1 DEF ParseError, ERR_NONE, ERR_BAD_OP_TYPE, ERR_BAD_CONFIG, ERR_BAD_CHAIN
    <2>2. /\ cfg_q'.op = DescOpType /\ cfg_q'.starts = DescStartSteps /\ cfg_q'.nums = DescNumSteps
          /\ cfg_q'.inblocks = IF WotsOp(DescOpType) THEN 1 ELSE desc_word_q[1].inblocks
        BY <1>1 DEF ParsedConfig
    <2>3. DescStartSteps \in [Lane -> Byte] /\ DescNumSteps \in [Lane -> Byte]
        <3>1. 6 \in Header /\ 7 \in Header
            BY DEF Header
        <3>2. desc_word_q[6] \in [bytes : [Lane -> Byte]] /\ desc_word_q[7] \in [bytes : [Lane -> Byte]]
            <4>1. /\ HeaderWord(6) = [bytes : [Lane -> Byte]]
                  /\ HeaderWord(7) = [bytes : [Lane -> Byte]]
                BY HeaderWordIs
            <4>2. QED
                BY <3>1, <4>1 DEF TypeInv, HeaderTyped
        <3>3. QED
            BY <3>2 DEF DescStartSteps, DescNumSteps
    <2>4. /\ DescOpType \in {OP_TYPE_THASHX4, OP_TYPE_WOTS_CHAINX4, OP_TYPE_WOTS_CHAINX4_MIXED}
          /\ WotsOp(DescOpType) => WindowFits(DescOpType, DescStartSteps, DescNumSteps)
        BY <2>1, ParsedOk
    <2>5. ~WotsOp(DescOpType) => desc_word_q[1].inblocks \in {1, 2}
        BY <2>1 DEF ConfigOk
    <2>6. QED
        BY <2>2, <2>3, <2>4, <2>5, Zenon DEF ConfigFits
<1>4. QED
    BY <1>1, <1>2, <1>3 DEF CoreInv, ReadStates

LEMMA CoreReads ==
    ASSUME CoreInv, perf_q \in Counters, ReadDesc \/ ReadPubSeed \/ ReadAddr \/ ReadInput
    PROVE  CoreInv'
<1>1. /\ Count({"load"}) /\ cfg_q' = cfg_q
      /\ \/ state_q = "READ_DESC" /\ state_q' \in {"READ_DESC", "PARSE_DESC"}
         \/ /\ state_q \in {"READ_PUB_SEED", "READ_ADDR", "READ_INPUT"}
            /\ state_q' \in {"READ_PUB_SEED", "READ_ADDR", "READ_INPUT", "START_CORE"}
    BY DEF ReadDesc, ReadPubSeed, ReadAddr, ReadInput, GoodRead, BeatAccepted
<1>2. perf_q'.core = 0
    BY <1>1, CoreCounted DEF CoreInv, ReadStates
<1>3. ConfigFits'
    BY <1>1 DEF CoreInv, ConfigFits, Accepted, WindowFits
<1>4. QED
    BY <1>1, <1>2, <1>3 DEF CoreInv, ReadStates

LEMMA CoreBegins ==
    ASSUME NEW a \in DescriptorAddresses, StartDescriptor(a)
    PROVE  CoreInv'
<1>1. /\ perf_q' = PerfAtStart
      /\ \/ state_q' = "READ_DESC"
         \/ state_q' = "WRITE_STATUS" /\ error_q' = TRUE
    BY DEF StartDescriptor
<1>2. perf_q'.core = 0
    BY <1>1, ZeroCounters
<1>3. QED
    BY <1>1, <1>2 DEF CoreInv, ReadStates, ConfigFits, Accepted

LEMMA CoreFails ==
    ASSUME CoreInv, ReadFault \/ WriteOutputFault \/ WriteStatusFault \/ Reset
    PROVE  CoreInv'
<1>1. \/ state_q' \in {"IDLE", "WRITE_STATUS"} /\ error_q' = TRUE
      \/ state_q' = "IDLE" /\ done_q' = FALSE
    BY DEF ReadFault, WriteOutputFault, WriteStatusFault, Reset, Fail, StatusAccepted
<1>2. QED
    BY <1>1 DEF CoreInv, ReadStates, ConfigFits, Accepted

LEMMA CoreIdle ==
    ASSUME CoreInv, Inv, perf_q \in Counters, MemStall \/ IdleTick
    PROVE  CoreInv'
<1>1. /\ UNCHANGED <<state_q, buf_q, cfg_q, error_q, done_q>>
      /\ state_q # "WAIT_CORE" /\ perf_q'.core = perf_q.core
    <2>1. CASE MemStall
        <3>1. PICK c \in {"load", "store"} : Count({c})
            BY <2>1 DEF MemStall
        <3>2. perf_q'.core = perf_q.core
            BY <3>1, CoreCounted
        <3>3. QED
            BY <2>1, <3>2 DEF MemStall, jobVars, flagVars, mem_valid, ReadStates, WriteStates
    <2>2. CASE IdleTick
        BY <2>2 DEF IdleTick, adapterVars, jobVars, flagVars
    <2>3. QED
        BY <2>1, <2>2
<1>2. UNCHANGED <<thash_out, wots_out>>
    BY CalmKeeps DEF CalmStep
<1>3. (Latent => Latent') /\ (ConfigFits => ConfigFits')
    BY <1>1, LatentKept DEF Accepted
<1>4. CoreOut(cfg_q.op) = Result => (CoreOut(cfg_q.op) = Result)'
    BY <1>1, <1>2, ResultKept
<1>5. QED
    BY <1>1, <1>3, <1>4 DEF CoreInv, ReadStates

LEMMA CoreStores ==
    ASSUME CoreInv, Inv, perf_q \in Counters, WriteOutput \/ WriteStatus
    PROVE  CoreInv'
<1>1. /\ UNCHANGED <<buf_q, cfg_q, error_q>> /\ Count({"store"})
      /\ \/ state_q = "WRITE_OUTPUT" /\ state_q' \in {"WRITE_OUTPUT", "WRITE_STATUS"}
         \/ state_q = "WRITE_STATUS" /\ state_q' = "IDLE"
    BY DEF WriteOutput, WriteStatus, StatusAccepted, BeatAccepted, jobVars, flagVars
<1>2. perf_q'.core = perf_q.core
    BY <1>1, CoreCounted
<1>3. UNCHANGED <<thash_out, wots_out>>
    BY CalmKeeps DEF CalmStep
<1>4. (Latent => Latent') /\ ConfigFits'
    BY <1>1, <1>2, LatentKept DEF Accepted, CoreInv
<1>5. CoreOut(cfg_q.op) = Result => (CoreOut(cfg_q.op) = Result)'
    BY <1>1, <1>3, ResultKept
<1>6. QED
    BY <1>1, <1>4, <1>5 DEF CoreInv, ReadStates

LEMMA CoreInit == Init => CoreInv
    BY DEF Init, AdapterInit, CoreInv, ConfigFits, Accepted, ReadStates

LEMMA CoreNext == CoreInv /\ Inv /\ TypeInv /\ PerfInv /\ [Next]_vars => CoreInv'
<1> SUFFICES ASSUME CoreInv, Inv, TypeInv, PerfInv, [Next]_vars PROVE CoreInv'
    OBVIOUS
<1>1. perf_q \in Counters
    BY DEF PerfInv
<1>2. CASE UNCHANGED vars
    <2>1. UNCHANGED <<state_q, buf_q, cfg_q, error_q, done_q, perf_q, engineVars>>
        BY <1>2 DEF vars, adapterVars, jobVars, flagVars
    <2>2. TheJob' = TheJob /\ Blocks' = Blocks /\ AbsorbX4(WotsRequest)' = AbsorbX4(WotsRequest)
        BY <2>1 DEF TheJob, Blocks, Operands, engineVars, wotsVars, wotsRegs, WotsRequest, AbsorbX4
    <2>3. AtWork' = AtWork
        BY <2>1, <2>2 DEF AtWork, ChainsAt, LanesAt, LaneAt, ThashAt, Applied, ThashRest, ThashShows,
              ChainEnds, engineVars, wotsVars, wotsRegs, thashVars, keccakVars
    <2>4. UNCHANGED <<thash_out, wots_out>>
        BY <2>1 DEF engineVars, wotsVars, thashVars
    <2>5. (Latent => Latent') /\ (ConfigFits => ConfigFits')
        BY <2>1, LatentKept DEF Accepted
    <2>6. CoreOut(cfg_q.op) = Result => (CoreOut(cfg_q.op) = Result)'
        BY <2>1, <2>4, ResultKept
    <2>7. QED
        BY <2>1, <2>3, <2>5, <2>6 DEF CoreInv, ReadStates
<1>3. QED
    BY <1>1, <1>2, CoreStarts, CoreWorks, CoreHandsOver, CoreParse, CoreReads, CoreBegins, CoreFails,
       CoreIdle, CoreStores DEF Next, Job

(***************************************************************************)
(* While spx_descriptor_adapter waits for a core, the core is computing    *)
(* the digests of this job and the core counter says how far it has come;  *)
(* from the handoff to the end of the output they stand in its registers.  *)
(***************************************************************************)
THEOREM CoreHolds == Spec => []CoreInv
    BY CoreInit, CoreNext, InvHolds, TypesHold, PerfInit, PerfNext, PTL DEF Spec

\* The done flag is down while a job is under way.
Finished == done_q => state_q = "IDLE"

LEMMA FinishedInit == Init => Finished
    BY DEF Init, AdapterInit, Finished

LEMMA FinishedNext == Finished /\ [Next]_vars => Finished'
<1> SUFFICES ASSUME Finished, [Next]_vars PROVE Finished'
    OBVIOUS
<1>1. CASE IdleTick \/ UNCHANGED vars
    BY <1>1 DEF IdleTick, vars, adapterVars, flagVars, Finished
<1>2. CASE \E a \in DescriptorAddresses : StartDescriptor(a)
    BY <1>2 DEF StartDescriptor, Finished
<1>3. CASE MemStall
    BY <1>3 DEF MemStall, flagVars, Finished
<1>4. CASE ReadDesc \/ ReadPubSeed \/ ReadAddr \/ ReadInput
    BY <1>4 DEF ReadDesc, ReadPubSeed, ReadAddr, ReadInput, GoodRead, flagVars, Finished
<1>5. CASE ParseDesc
    BY <1>5 DEF ParseDesc, Finished
<1>6. CASE ReadFault \/ WriteOutputFault
    BY <1>6 DEF ReadFault, ReadStates, WriteOutputFault, Fail, Finished
<1>7. CASE StartCore \/ WaitCore \/ CoreFinished
    BY <1>7 DEF StartCore, WaitCore, CoreFinished, Fail, flagVars, Finished
<1>8. CASE WriteOutput
    BY <1>8 DEF WriteOutput, flagVars, Finished
<1>9. CASE WriteStatus \/ WriteStatusFault \/ Reset
    BY <1>9 DEF WriteStatus, WriteStatusFault, StatusAccepted, Reset, Finished
<1>10. QED
    BY <1>1, <1>2, <1>3, <1>4, <1>5, <1>6, <1>7, <1>8, <1>9 DEF Next, Job

(***************************************************************************)
(* docs/phase4_2b_shared_engine.md: whatever the memory does, the core     *)
(* counter of a finished job is Rounds + 3 for thash and, for chains,      *)
(* Rounds + 4 for every step of the longest and one more.                  *)
(***************************************************************************)
THEOREM Latency == Spec => []CoreCyclesAreLatency
<1>1. CoreInv /\ Finished => CoreCyclesAreLatency
    <2> SUFFICES ASSUME CoreInv, Finished, done_q, ~error_q
                 PROVE  perf_q.core \in IF WotsOp(cfg_q.op) THEN ChainCycles ELSE {Rounds + 3}
        BY DEF CoreCyclesAreLatency
    <2>1. Latent
        BY DEF CoreInv, Finished
    <2>2. CASE WotsOp(cfg_q.op)
        <3>1. PICK n : n = NumSteps(cfg_q.op = OP_TYPE_WOTS_CHAINX4_MIXED, cfg_q.nums)
            OBVIOUS
        <3>2. TheJob.num = n
            BY <3>1 DEF TheJob, WotsJob, Operands
        <3>3. PICK k \in Nat : /\ \A l \in Lane : n[l] <= k
                              /\ \E l \in Lane : n[l] = k
                              /\ perf_q.core = 1 + Cost(k)
            BY <2>1, <2>2, <3>2 DEF Latent
        <3>4. PICK l \in Lane : n[l] = k
            BY <3>3
        <3>5. \A i \in Lane : n[i] <= n[l]
            BY <3>3, <3>4
        <3>6. perf_q.core = (Rounds + 4) * n[l] + 1
            <4>1. perf_q.core = 1 + (Rounds + 4) * n[l]
                BY <3>3, <3>4 DEF Cost
            <4>2. Cost(k) \in Nat
                BY CostNext
            <4>3. QED
                BY <3>4, <4>1, <4>2 DEF Cost
        <3>7. perf_q.core \in ChainCycles
            BY <3>1, <3>5, <3>6 DEF ChainCycles
        <3>8. QED
            BY <2>2, <3>7
    <2>3. CASE ~WotsOp(cfg_q.op)
        BY <2>1, <2>3 DEF Latent
    <2>4. QED
        BY <2>2, <2>3
<1>2. QED
    BY <1>1, CoreHolds, FinishedInit, FinishedNext, PTL DEF Spec

----------------------------------------------------------------------------
(***************************************************************************)
(* What has been read of the job, and what has been stored of its output.  *)
(***************************************************************************)
SeedBase == IF cfg_q.inline THEN descriptor_addr_q + DESC_HEADER_WORDS ELSE cfg_q.seedPtr

\* The first n words of each burst are in their registers.
HeaderIn(n) == \A w \in Header : w < n => desc_word_q[w] = job_mem[descriptor_addr_q + w]
SeedIn(n)   == \A w \in Digest : w < n => buf_q.seed[w] = job_mem[SeedBase + w]
AddrIn(n)   == \A l \in Lane, w \in Wide :
                  8 * l + w < n => buf_q.addr[l][w] = job_mem[cfg_q.addrPtr + (8 * l + w)]
InputIn(n)  == \A l \in Lane, w \in Wide :
                  w < InputWordsPerLane /\ InputWord(l, w) < n =>
                      buf_q.input[l][w] = job_mem[cfg_q.inPtr + InputWord(l, w)]

ConfigIn == HeaderIn(8) /\ ParseError = ERR_NONE /\ cfg_q = ParsedConfig
JobIn    == ConfigIn /\ SeedIn(4) /\ AddrIn(32) /\ InputIn(4 * InputWordsPerLane)

Shaped ==
    /\ buf_q = [seed |-> buf_q.seed, addr |-> buf_q.addr, input |-> buf_q.input]
    /\ buf_q.seed = [w \in Digest |-> buf_q.seed[w]]
    /\ buf_q.addr = [l \in Lane |-> [w \in Wide |-> buf_q.addr[l][w]]]

\* Memory with the first n words of the output stored.
StoredMem(n) ==
    IF n = 0 THEN job_mem
    ELSE [x \in DOMAIN job_mem |->
             IF x \in cfg_q.outPtr .. cfg_q.outPtr + n - 1
             THEN Result[(x - cfg_q.outPtr) \div 4][(x - cfg_q.outPtr) % 4]
             ELSE job_mem[x]]

\* How a job has come to its status write.
Ending ==
    \/ /\ ~Aligned(descriptor_addr_q) /\ error_code_q = ERR_BAD_ALIGN /\ mem = job_mem
    \/ /\ Aligned(descriptor_addr_q) /\ error_code_q = ERR_MEM_READ /\ mem = job_mem
    \/ /\ Aligned(descriptor_addr_q) /\ HeaderIn(8) /\ mem = job_mem
       /\ error_code_q = ParseError /\ ParseError # ERR_NONE
    \/ /\ Aligned(descriptor_addr_q) /\ JobIn
       /\ \/ error_code_q = ERR_NONE /\ mem = StoredMem(16)
          \/ error_code_q = ERR_MEM_WRITE /\ \E n \in 0 .. 16 : mem = StoredMem(n)

LoadInv ==
    /\ Shaped
    /\ state_q = "READ_DESC" => HeaderIn(transfer_word_q)
    /\ state_q = "PARSE_DESC" => HeaderIn(8)
    /\ state_q = "READ_PUB_SEED" => ConfigIn /\ SeedIn(transfer_word_q)
    /\ state_q = "READ_ADDR" => ConfigIn /\ SeedIn(4) /\ AddrIn(transfer_word_q)
    /\ state_q = "READ_INPUT" =>
          ConfigIn /\ SeedIn(4) /\ AddrIn(32) /\ InputIn(transfer_word_q)
    /\ state_q \in {"START_CORE", "WAIT_CORE"} => JobIn
    /\ state_q = "WRITE_OUTPUT" => JobIn /\ mem = StoredMem(transfer_word_q)
    /\ state_q = "WRITE_STATUS" => Ending

----------------------------------------------------------------------------
LEMMA ZeroShaped ==
    ASSUME buf_q' = ZeroBuffers
    PROVE  Shaped'
<1>1. PICK s, a, i : /\ s = ZeroDigest /\ a = [l \in Lane |-> ZeroWide]
                     /\ i = [l \in Lane |-> ZeroWide]
    OBVIOUS
<1>2. buf_q' = [seed |-> s, addr |-> a, input |-> i]
    BY <1>1 DEF ZeroBuffers
<1>3. buf_q'.seed = s /\ buf_q'.addr = a /\ buf_q'.input = i
    BY <1>2
<1>4. s = [w \in Digest |-> s[w]]
    BY <1>1 DEF ZeroDigest
<1>5. a = [l \in Lane |-> [w \in Wide |-> a[l][w]]]
    <2>1. PICK z : z = ZeroWide
        OBVIOUS
    <2>2. z = [w \in Wide |-> z[w]]
        BY <2>1 DEF ZeroWide
    <2>3. \A l \in Lane : a[l] = z
        BY <1>1, <2>1
    <2>4. [l \in Lane |-> z] = [l \in Lane |-> [w \in Wide |-> a[l][w]]]
        BY <2>2, <2>3
    <2>5. QED
        BY <1>1, <2>1, <2>4
<1>6. QED
    BY <1>2, <1>3, <1>4, <1>5, Zenon DEF Shaped

\* Nothing but the place in the protocol has changed.
LEMMA LoadKept ==
    ASSUME UNCHANGED <<jobVars, job_mem>>
    PROVE  /\ UNCHANGED <<ConfigIn, JobIn, Shaped, SeedBase, ParseError>>
           /\ \A n : /\ HeaderIn(n)' = HeaderIn(n) /\ SeedIn(n)' = SeedIn(n)
                     /\ AddrIn(n)' = AddrIn(n) /\ InputIn(n)' = InputIn(n)
                     /\ StoredMem(n)' = StoredMem(n)
<1>1. UNCHANGED <<desc_word_q, descriptor_addr_q, cfg_q, buf_q, job_mem>>
    BY DEF jobVars
<1>2. UNCHANGED <<ParseError, ParsedConfig, SeedBase, Result>>
    <2>1. UNCHANGED <<ParseError, ParsedConfig, SeedBase>>
        BY <1>1 DEF ParseError, ParsedConfig, SeedBase, OpTypeKnown, ConfigOk, CommonConfigOk,
              ChainOk, UniformWindowOk, MixedWindowOk, PointersAligned, DescOpType, DescStartSteps,
              DescNumSteps
    <2>2. UNCHANGED <<TheJob, Blocks>>
        BY <1>1 DEF TheJob, Blocks, Operands
    <2>3. UNCHANGED Result
        BY <1>1, <2>2 DEF Result, ChainEnds, Digests
    <2>4. QED
        BY <2>1, <2>3
<1>3. ASSUME NEW n
      PROVE  /\ HeaderIn(n)' = HeaderIn(n) /\ SeedIn(n)' = SeedIn(n)
             /\ AddrIn(n)' = AddrIn(n) /\ InputIn(n)' = InputIn(n)
             /\ StoredMem(n)' = StoredMem(n)
    BY <1>1, <1>2 DEF HeaderIn, SeedIn, AddrIn, InputIn, StoredMem, InputWordsPerLane, InputWord
<1>4. Shaped' = Shaped
    BY <1>1 DEF Shaped
<1>5. UNCHANGED InputWordsPerLane
    BY <1>1 DEF InputWordsPerLane
<1>6. ConfigIn' = ConfigIn
    BY <1>1, <1>2, <1>3 DEF ConfigIn
<1>7. JobIn' = JobIn
    BY <1>1, <1>3, <1>5, <1>6 DEF JobIn, InputIn
<1>8. QED
    BY <1>2, <1>3, <1>4, <1>6, <1>7

----------------------------------------------------------------------------
LEMMA LoadInit == Init => LoadInv
<1> SUFFICES ASSUME Init PROVE LoadInv
    OBVIOUS
<1>1. buf_q = ZeroBuffers /\ state_q = "IDLE"
    BY DEF Init, AdapterInit
<1>2. Shaped
    <2>1. PICK s, a, i : /\ s = ZeroDigest /\ a = [l \in Lane |-> ZeroWide]
                         /\ i = [l \in Lane |-> ZeroWide]
        OBVIOUS
    <2>2. buf_q = [seed |-> s, addr |-> a, input |-> i]
        BY <1>1, <2>1 DEF ZeroBuffers
    <2>3. buf_q.seed = s /\ buf_q.addr = a /\ buf_q.input = i
        BY <2>2
    <2>4. s = [w \in Digest |-> s[w]]
        BY <2>1 DEF ZeroDigest
    <2>5. a = [l \in Lane |-> [w \in Wide |-> a[l][w]]]
        <3>1. PICK z : z = ZeroWide
            OBVIOUS
        <3>2. z = [w \in Wide |-> z[w]]
            BY <3>1 DEF ZeroWide
        <3>3. \A l \in Lane : a[l] = z
            BY <2>1, <3>1
        <3>4. [l \in Lane |-> z] = [l \in Lane |-> [w \in Wide |-> a[l][w]]]
            BY <3>2, <3>3
        <3>5. QED
            BY <2>1, <3>1, <3>4
    <2>6. QED
        BY <2>2, <2>3, <2>4, <2>5, Zenon DEF Shaped
<1>3. QED
    BY <1>1, <1>2 DEF LoadInv

\* The cycles of IDLE and the core, and stalls, change none of it.
LEMMA LoadWaits ==
    ASSUME LoadInv, MemStall \/ IdleTick \/ StartCore \/ WaitCore
    PROVE  LoadInv'
<1>1. /\ UNCHANGED <<jobVars, job_mem, mem, transfer_word_q, error_code_q>>
      /\ \/ state_q' = state_q
         \/ state_q \in {"START_CORE", "WAIT_CORE"} /\ state_q' = "WAIT_CORE"
    BY DEF MemStall, IdleTick, StartCore, WaitCore, adapterVars, flagVars
<1>2. UNCHANGED <<ConfigIn, JobIn, Shaped, ParseError, descriptor_addr_q>>
    BY <1>1, LoadKept DEF jobVars
<1>3. /\ HeaderIn(8)' = HeaderIn(8) /\ SeedIn(4)' = SeedIn(4) /\ AddrIn(32)' = AddrIn(32)
      /\ \A n : StoredMem(n)' = StoredMem(n)
    BY <1>1, LoadKept
<1>4. Ending' = Ending
    BY <1>1, <1>2, <1>3 DEF Ending, Aligned
<1>5. /\ HeaderIn(transfer_word_q)' = HeaderIn(transfer_word_q)
      /\ SeedIn(transfer_word_q)' = SeedIn(transfer_word_q)
      /\ AddrIn(transfer_word_q)' = AddrIn(transfer_word_q)
    BY <1>1 DEF jobVars, HeaderIn, SeedIn, SeedBase, AddrIn
<1>6. InputIn(transfer_word_q)' = InputIn(transfer_word_q)
    BY <1>1 DEF jobVars, InputIn, InputWord, InputWordsPerLane
<1>7. StoredMem(transfer_word_q)' = StoredMem(transfer_word_q)
    <2>1. Result' = Result
        <3>1. UNCHANGED <<TheJob, Blocks>>
            BY <1>1 DEF jobVars, TheJob, Blocks, Operands
        <3>2. QED
            BY <1>1, <3>1 DEF jobVars, Result, ChainEnds, Digests
    <2>2. QED
        BY <1>1, <2>1 DEF jobVars, StoredMem
<1>8. QED
    BY <1>1, <1>2, <1>3, <1>4, <1>5, <1>6, <1>7 DEF LoadInv

LEMMA LoadStarts ==
    ASSUME LoadInv, NEW a \in DescriptorAddresses, StartDescriptor(a)
    PROVE  LoadInv'
<1>1. /\ buf_q' = ZeroBuffers /\ transfer_word_q' = 0 /\ descriptor_addr_q' = a
      /\ job_mem' = mem /\ mem' = mem
      /\ \/ state_q' = "READ_DESC"
         \/ state_q' = "WRITE_STATUS" /\ ~Aligned(a) /\ error_code_q' = ERR_BAD_ALIGN
    BY DEF StartDescriptor
<1>2. Shaped'
    BY <1>1, ZeroShaped
<1>3. HeaderIn(transfer_word_q)'
    BY <1>1 DEF HeaderIn, Header
<1>4. QED
    BY <1>1, <1>2, <1>3 DEF LoadInv, Ending, Aligned

LEMMA LoadStops ==
    ASSUME LoadInv, TypeInv, Reset \/ ReadFault \/ WriteStatus \/ WriteStatusFault
    PROVE  LoadInv'
<1>1. CASE Reset
    <2>1. state_q' = "IDLE" /\ buf_q' = ZeroBuffers
        BY <1>1 DEF Reset
    <2>2. Shaped'
        BY <2>1, ZeroShaped
    <2>3. QED
        BY <2>1, <2>2 DEF LoadInv
<1>2. CASE WriteStatus \/ WriteStatusFault
    <2>1. state_q' = "IDLE" /\ buf_q' = buf_q
        BY <1>2 DEF WriteStatus, WriteStatusFault, StatusAccepted, jobVars
    <2>2. Shaped'
        BY <2>1 DEF LoadInv, Shaped
    <2>3. QED
        BY <2>1, <2>2 DEF LoadInv
<1>3. CASE ReadFault
    <2>1. /\ state_q \in ReadStates /\ state_q' = "WRITE_STATUS" /\ error_code_q' = ERR_MEM_READ
          /\ UNCHANGED <<jobVars, mem, job_mem>> /\ buf_q' = buf_q
          /\ descriptor_addr_q' = descriptor_addr_q
        BY <1>3 DEF ReadFault, Fail, jobVars
    <2>2. mem = job_mem /\ Aligned(descriptor_addr_q)
        BY <2>1 DEF TypeInv, JobOK, ReadStates
    <2>3. Shaped'
        BY <2>1 DEF LoadInv, Shaped
    <2>4. QED
        BY <2>1, <2>2, <2>3 DEF LoadInv, Ending, Aligned
<1>4. QED
    BY <1>1, <1>2, <1>3

\* Good reads.
LEMMA LoadHeader ==
    ASSUME LoadInv, TypeInv, ReadDesc
    PROVE  LoadInv'
<1>1. /\ state_q = "READ_DESC" /\ BeatAccepted("PARSE_DESC")
      /\ UNCHANGED <<descriptor_addr_q, cfg_q, buf_q, mem, job_mem>>
      /\ desc_word_q' = [w \in Header |-> IF w \in BeatWords THEN ReadWord(w) ELSE desc_word_q[w]]
    BY DEF ReadDesc, GoodRead
<1>2. PICK t : t = transfer_word_q /\ t \in Nat
    BY DEF TypeInv, TransferOK
<1>3. PICK n : n = t + W
    OBVIOUS
<1>4. \/ state_q' = "PARSE_DESC" /\ n = 8
      \/ state_q' = "READ_DESC" /\ transfer_word_q' = n
    <2>1. BurstTotalWords = 8
        BY <1>1, BurstLengths
    <2>2. QED
        BY <1>1, <1>2, <1>3, <2>1, BeatTaken DEF TypeInv, States, Burst, ReadStates, WriteStates
<1>5. HeaderIn(n)'
    <2>1. ASSUME NEW w \in Header, w < n
          PROVE  desc_word_q'[w] = job_mem[descriptor_addr_q + w]
        <3>1. HeaderIn(t)
            BY <1>1, <1>2 DEF LoadInv
        <3>2. ReadWord(w) = job_mem[descriptor_addr_q + w]
            BY <1>1 DEF ReadWord, BurstBaseAddr, TypeInv, JobOK
        <3>3. w \in BeatWords \/ w < t
            BY <1>2, <1>3, <2>1, AdapterAssumption DEF BeatWords, Header
        <3>4. QED
            BY <1>1, <3>1, <3>2, <3>3 DEF HeaderIn
    <2>2. QED
        BY <1>1, <2>1 DEF HeaderIn
<1>6. Shaped'
    BY <1>1 DEF LoadInv, Shaped
<1>7. CASE state_q' = "PARSE_DESC" /\ n = 8
    BY <1>5, <1>6, <1>7 DEF LoadInv
<1>8. CASE state_q' = "READ_DESC" /\ transfer_word_q' = n
    <2>1. HeaderIn(transfer_word_q)'
        BY <1>5, <1>8 DEF HeaderIn
    <2>2. QED
        BY <1>6, <1>8, <2>1 DEF LoadInv
<1>9. QED
    BY <1>4, <1>7, <1>8

LEMMA LoadParse ==
    ASSUME LoadInv, TypeInv, ParseDesc
    PROVE  LoadInv'
<1>1. /\ state_q = "PARSE_DESC" /\ cfg_q' = ParsedConfig /\ transfer_word_q' = 0
      /\ UNCHANGED <<desc_word_q, descriptor_addr_q, buf_q, mem, job_mem>>
      /\ error_code_q' = ParseError
      /\ \/ state_q' = "READ_PUB_SEED" /\ ParseError = ERR_NONE
         \/ state_q' = "WRITE_STATUS" /\ ParseError # ERR_NONE
    BY DEF ParseDesc
<1>2. HeaderIn(8)' /\ Shaped'
    BY <1>1 DEF LoadInv, HeaderIn, Shaped
<1>3. ParseError' = ParseError /\ ParsedConfig' = ParsedConfig
    BY <1>1 DEF ParseError, ParsedConfig, OpTypeKnown, ConfigOk, CommonConfigOk,
       ChainOk, UniformWindowOk, MixedWindowOk, PointersAligned, DescOpType, DescStartSteps,
       DescNumSteps
<1>4. CASE state_q' = "READ_PUB_SEED"
    <2>1. SeedIn(transfer_word_q)'
        BY <1>1 DEF SeedIn, Digest
    <2>2. ConfigIn'
        BY <1>1, <1>2, <1>3, <1>4 DEF ConfigIn
    <2>3. QED
        BY <1>2, <1>4, <2>1, <2>2 DEF LoadInv
<1>5. CASE state_q' = "WRITE_STATUS"
    <2>1. mem = job_mem /\ Aligned(descriptor_addr_q)
        BY <1>1 DEF TypeInv, JobOK
    <2>2. Ending'
        BY <1>1, <1>2, <1>3, <1>5, <2>1 DEF Ending, Aligned
    <2>3. QED
        BY <1>2, <1>5, <2>2 DEF LoadInv
<1>6. QED
    BY <1>1, <1>4, <1>5

\* The operand bursts: the place reached, and the rest.
LEMMA OperandBeat ==
    ASSUME LoadInv, TypeInv, NEW next \in {"READ_ADDR", "READ_INPUT", "START_CORE"},
           state_q \in {"READ_PUB_SEED", "READ_ADDR", "READ_INPUT"}, next # state_q,
           GoodRead(next), UNCHANGED desc_word_q
    PROVE  /\ transfer_word_q \in Nat /\ mem = job_mem
           /\ \/ state_q' = next /\ transfer_word_q' = 0 /\ transfer_word_q + W = BurstTotalWords
              \/ state_q' = state_q /\ transfer_word_q' = transfer_word_q + W
           /\ UNCHANGED <<descriptor_addr_q, cfg_q, job_mem, InputWordsPerLane, SeedBase, ConfigIn>>
<1>1. /\ BeatAccepted(next) /\ UNCHANGED <<descriptor_addr_q, cfg_q, mem, job_mem>>
    BY DEF GoodRead
<1>2. transfer_word_q \in Nat /\ mem = job_mem
    BY DEF TypeInv, TransferOK, JobOK
<1>3. \/ state_q' = next /\ transfer_word_q' = 0 /\ transfer_word_q + W = BurstTotalWords
      \/ state_q' = state_q /\ transfer_word_q' = transfer_word_q + W
    BY <1>1, BeatTaken DEF TypeInv, States, Burst, ReadStates, WriteStates
<1>4. UNCHANGED <<InputWordsPerLane, SeedBase>>
    BY <1>1 DEF InputWordsPerLane, SeedBase
<1>5. UNCHANGED <<ParseError, ParsedConfig>>
    BY DEF ParseError, ParsedConfig, OpTypeKnown, ConfigOk, CommonConfigOk,
       ChainOk, UniformWindowOk, MixedWindowOk, PointersAligned, DescOpType, DescStartSteps,
       DescNumSteps
<1>6. UNCHANGED ConfigIn
    BY <1>1, <1>5 DEF ConfigIn, HeaderIn
<1>7. QED
    BY <1>1, <1>2, <1>3, <1>4, <1>6

LEMMA LoadSeed ==
    ASSUME LoadInv, TypeInv, ReadPubSeed
    PROVE  LoadInv'
<1>0. state_q = "READ_PUB_SEED" /\ GoodRead("READ_ADDR") /\ UNCHANGED desc_word_q
    BY DEF ReadPubSeed
<1>1. PICK t, n : t = transfer_word_q /\ n = t + W
    OBVIOUS
<1>2. /\ t \in Nat /\ mem = job_mem
      /\ \/ state_q' = "READ_ADDR" /\ transfer_word_q' = 0 /\ n = BurstTotalWords
         \/ state_q' = "READ_PUB_SEED" /\ transfer_word_q' = n
      /\ UNCHANGED <<descriptor_addr_q, cfg_q, job_mem, SeedBase, ConfigIn>>
    BY <1>0, <1>1, OperandBeat
<1>3. PICK s : s = [w \in Digest |-> IF w \in BeatWords THEN ReadWord(w) ELSE buf_q.seed[w]]
    OBVIOUS
<1>4. PICK s0, a, i : s0 = buf_q.seed /\ a = buf_q.addr /\ i = buf_q.input
    OBVIOUS
<1>5. buf_q = [seed |-> s0, addr |-> a, input |-> i]
    BY <1>4 DEF LoadInv, Shaped
<1>6. buf_q' = [seed |-> s, addr |-> a, input |-> i]
    <2>1. buf_q' = [buf_q EXCEPT !.seed = s]
        BY <1>3 DEF ReadPubSeed
    <2>2. QED
        BY <1>5, <2>1
<1>7. buf_q'.seed = s /\ buf_q'.addr = a /\ buf_q'.input = i
    BY <1>6
<1>8. Shaped'
    <2>1. s = [w \in Digest |-> s[w]]
        BY <1>3
    <2>2. a = [l \in Lane |-> [w \in Wide |-> a[l][w]]]
        BY <1>4 DEF LoadInv, Shaped
    <2>3. QED
        BY <1>6, <1>7, <2>1, <2>2, Zenon DEF Shaped
<1>9. SeedIn(n)'
    <2>1. ASSUME NEW w \in Digest, w < n PROVE s[w] = job_mem[SeedBase + w]
        <3>1. s[w] = IF w \in BeatWords THEN ReadWord(w) ELSE buf_q.seed[w]
            BY <1>3
        <3>2. ReadWord(w) = job_mem[SeedBase + w]
            BY <1>0, <1>2 DEF ReadWord, BurstBaseAddr, SeedBase
        <3>3. w \in BeatWords \/ w < t
            BY <1>1, <1>2, <2>1, AdapterAssumption DEF BeatWords, Digest
        <3>4. SeedIn(t)
            BY <1>0, <1>1 DEF LoadInv
        <3>5. QED
            BY <3>1, <3>2, <3>3, <3>4 DEF SeedIn
    <2>2. QED
        BY <1>2, <1>7, <2>1 DEF SeedIn
<1>10. ConfigIn'
    BY <1>0, <1>2 DEF LoadInv
<1>11. CASE state_q' = "READ_ADDR" /\ transfer_word_q' = 0 /\ n = BurstTotalWords
    <2>1. n = 4
        BY <1>0, <1>11, BurstLengths
    <2>2. AddrIn(transfer_word_q)'
        BY <1>11 DEF AddrIn, Lane, Wide
    <2>3. QED
        BY <1>8, <1>9, <1>10, <1>11, <2>1, <2>2 DEF LoadInv
<1>12. CASE state_q' = "READ_PUB_SEED" /\ transfer_word_q' = n
    <2>1. SeedIn(transfer_word_q)'
        BY <1>9, <1>12 DEF SeedIn
    <2>2. QED
        BY <1>8, <1>10, <1>12, <2>1 DEF LoadInv
<1>13. QED
    BY <1>2, <1>11, <1>12

----------------------------------------------------------------------------
LEMMA LoadAddr ==
    ASSUME LoadInv, TypeInv, ReadAddr
    PROVE  LoadInv'
<1>0. state_q = "READ_ADDR" /\ GoodRead("READ_INPUT") /\ UNCHANGED desc_word_q
    BY DEF ReadAddr
<1>1. PICK t, n : t = transfer_word_q /\ n = t + W
    OBVIOUS
<1>2. /\ t \in Nat /\ mem = job_mem
      /\ \/ state_q' = "READ_INPUT" /\ transfer_word_q' = 0 /\ n = BurstTotalWords
         \/ state_q' = "READ_ADDR" /\ transfer_word_q' = n
      /\ UNCHANGED <<descriptor_addr_q, cfg_q, job_mem, SeedBase, ConfigIn>>
    BY <1>0, <1>1, OperandBeat
<1>3. PICK a : a = [l \in Lane |-> [w \in Wide |->
                      IF 8 * l + w \in BeatWords THEN ReadWord(8 * l + w) ELSE buf_q.addr[l][w]]]
    OBVIOUS
<1>4. PICK s, a0, i : s = buf_q.seed /\ a0 = buf_q.addr /\ i = buf_q.input
    OBVIOUS
<1>5. buf_q = [seed |-> s, addr |-> a0, input |-> i]
    BY <1>4 DEF LoadInv, Shaped
<1>6. buf_q' = [seed |-> s, addr |-> a, input |-> i]
    <2>1. buf_q' = [buf_q EXCEPT !.addr = a]
        BY <1>3 DEF ReadAddr
    <2>2. QED
        BY <1>5, <2>1
<1>7. buf_q'.seed = s /\ buf_q'.addr = a /\ buf_q'.input = i
    BY <1>6
<1>8. Shaped'
    <2>1. s = [w \in Digest |-> s[w]]
        BY <1>4 DEF LoadInv, Shaped
    <2>2. a = [l \in Lane |-> [w \in Wide |-> a[l][w]]]
        BY <1>3
    <2>3. QED
        BY <1>6, <1>7, <2>1, <2>2, Zenon DEF Shaped
<1>9. AddrIn(n)'
    <2>1. ASSUME NEW l \in Lane, NEW w \in Wide, 8 * l + w < n
          PROVE  a[l][w] = job_mem[cfg_q.addrPtr + (8 * l + w)]
        <3>0. PICK k : k = 8 * l + w /\ k \in Nat
            BY DEF Lane, Wide
        <3>1. a[l][w] = IF k \in BeatWords THEN ReadWord(k) ELSE buf_q.addr[l][w]
            BY <1>3, <3>0
        <3>2. ReadWord(k) = job_mem[cfg_q.addrPtr + k]
            BY <1>0, <1>2 DEF ReadWord, BurstBaseAddr
        <3>3. k \in BeatWords \/ k < t
            BY <1>1, <1>2, <2>1, <3>0, AdapterAssumption DEF BeatWords
        <3>4. AddrIn(t)
            BY <1>0, <1>1 DEF LoadInv
        <3>5. k < t => buf_q.addr[l][w] = job_mem[cfg_q.addrPtr + k]
            BY <3>0, <3>4 DEF AddrIn
        <3>6. QED
            BY <3>0, <3>1, <3>2, <3>3, <3>5
    <2>2. QED
        BY <1>2, <1>7, <2>1 DEF AddrIn
<1>10. ConfigIn' /\ SeedIn(4)'
    BY <1>0, <1>2, <1>4, <1>7 DEF LoadInv, SeedIn
<1>11. CASE state_q' = "READ_INPUT" /\ transfer_word_q' = 0 /\ n = BurstTotalWords
    <2>1. n = 32
        BY <1>0, <1>11, BurstLengths
    <2>2. InputIn(transfer_word_q)'
        <3>1. \A l \in Lane, w \in Wide : ~(InputWord(l, w)' < 0)
            BY DEF Lane, Wide, InputWord, InputWordsPerLane
        <3>2. QED
            BY <1>11, <3>1 DEF InputIn
    <2>3. QED
        BY <1>8, <1>9, <1>10, <1>11, <2>1, <2>2 DEF LoadInv
<1>12. CASE state_q' = "READ_ADDR" /\ transfer_word_q' = n
    <2>1. AddrIn(transfer_word_q)'
        BY <1>9, <1>12 DEF AddrIn
    <2>2. QED
        BY <1>8, <1>10, <1>12, <2>1 DEF LoadInv
<1>13. QED
    BY <1>2, <1>11, <1>12

LEMMA LoadInput ==
    ASSUME LoadInv, TypeInv, ReadInput
    PROVE  LoadInv'
<1>0. state_q = "READ_INPUT" /\ GoodRead("START_CORE") /\ UNCHANGED desc_word_q
    BY DEF ReadInput
<1>1. PICK t, n : t = transfer_word_q /\ n = t + W
    OBVIOUS
<1>2. /\ t \in Nat /\ mem = job_mem
      /\ \/ state_q' = "START_CORE" /\ transfer_word_q' = 0 /\ n = BurstTotalWords
         \/ state_q' = "READ_INPUT" /\ transfer_word_q' = n
      /\ UNCHANGED <<descriptor_addr_q, cfg_q, job_mem, SeedBase, ConfigIn, InputWordsPerLane>>
    BY <1>0, <1>1, OperandBeat
<1>3. PICK i : i = [l \in Lane |-> [w \in Wide |->
                      IF w < InputWordsPerLane /\ InputWord(l, w) \in BeatWords
                      THEN ReadWord(InputWord(l, w)) ELSE buf_q.input[l][w]]]
    OBVIOUS
<1>4. PICK s, a, i0 : s = buf_q.seed /\ a = buf_q.addr /\ i0 = buf_q.input
    OBVIOUS
<1>5. buf_q = [seed |-> s, addr |-> a, input |-> i0]
    BY <1>4 DEF LoadInv, Shaped
<1>6. buf_q' = [seed |-> s, addr |-> a, input |-> i]
    <2>1. buf_q' = [buf_q EXCEPT !.input = i]
        BY <1>3 DEF ReadInput
    <2>2. QED
        BY <1>5, <2>1
<1>7. buf_q'.seed = s /\ buf_q'.addr = a /\ buf_q'.input = i
    BY <1>6
<1>8. Shaped'
    <2>1. s = [w \in Digest |-> s[w]] /\ a = [l \in Lane |-> [w \in Wide |-> a[l][w]]]
        BY <1>4 DEF LoadInv, Shaped
    <2>2. QED
        BY <1>6, <1>7, <2>1, Zenon DEF Shaped
<1>9. InputIn(n)'
    <2>1. ASSUME NEW l \in Lane, NEW w \in Wide, w < InputWordsPerLane, InputWord(l, w) < n
          PROVE  i[l][w] = job_mem[cfg_q.inPtr + InputWord(l, w)]
        <3>0. PICK k : k = InputWord(l, w) /\ k \in Nat
            BY DEF Lane, Wide, InputWord, InputWordsPerLane
        <3>1. i[l][w] = IF k \in BeatWords THEN ReadWord(k) ELSE buf_q.input[l][w]
            BY <1>3, <2>1, <3>0
        <3>2. ReadWord(k) = job_mem[cfg_q.inPtr + k]
            BY <1>0, <1>2 DEF ReadWord, BurstBaseAddr
        <3>3. k \in BeatWords \/ k < t
            BY <1>1, <1>2, <2>1, <3>0, AdapterAssumption DEF BeatWords
        <3>4. InputIn(t)
            BY <1>0, <1>1 DEF LoadInv
        <3>5. k < t => buf_q.input[l][w] = job_mem[cfg_q.inPtr + k]
            BY <2>1, <3>0, <3>4 DEF InputIn
        <3>6. QED
            BY <3>0, <3>1, <3>2, <3>3, <3>5
    <2>2. \A l \in Lane, w \in Wide : InputWord(l, w)' = InputWord(l, w)
        BY <1>2 DEF InputWord
    <2>3. QED
        BY <1>2, <1>7, <2>1, <2>2 DEF InputIn
<1>10. ConfigIn' /\ SeedIn(4)' /\ AddrIn(32)'
    BY <1>0, <1>2, <1>4, <1>7 DEF LoadInv, SeedIn, AddrIn
<1>11. CASE state_q' = "START_CORE" /\ transfer_word_q' = 0 /\ n = BurstTotalWords
    <2>1. n = 4 * InputWordsPerLane
        BY <1>0, <1>11 DEF BurstTotalWords
    <2>2. InputIn(4 * InputWordsPerLane)'
        BY <1>2, <1>9, <2>1 DEF InputIn
    <2>3. QED
        BY <1>8, <1>10, <1>11, <2>2 DEF LoadInv, JobIn
<1>12. CASE state_q' = "READ_INPUT" /\ transfer_word_q' = n
    <2>1. InputIn(transfer_word_q)'
        BY <1>9, <1>12 DEF InputIn
    <2>2. QED
        BY <1>8, <1>10, <1>12, <2>1 DEF LoadInv
<1>13. QED
    BY <1>2, <1>11, <1>12

----------------------------------------------------------------------------
\* The pointers of an accepted job are addresses.
LEMMA PointersTyped ==
    ASSUME ConfigIn, HeaderTyped
    PROVE  /\ cfg_q.seedPtr \in Nat /\ cfg_q.addrPtr \in Nat
           /\ cfg_q.inPtr \in Nat /\ cfg_q.outPtr \in Nat
<1>1. ASSUME NEW w \in 2 .. 5 PROVE desc_word_q[w] \in [ptr : Nat]
    <2>1. w \in Header
        BY DEF Header
    <2>2. HeaderWord(w) = [ptr : Nat]
        BY HeaderWordIs
    <2>3. QED
        BY <2>1, <2>2 DEF HeaderTyped
<1>2. \A w \in 2 .. 5 : desc_word_q[w].ptr \in Nat
    BY <1>1
<1>3. /\ cfg_q.seedPtr = desc_word_q[2].ptr /\ cfg_q.addrPtr = desc_word_q[3].ptr
      /\ cfg_q.inPtr = desc_word_q[4].ptr /\ cfg_q.outPtr = desc_word_q[5].ptr
    BY DEF ConfigIn, ParsedConfig
<1>4. QED
    BY <1>2, <1>3

\* A beat of the output.
LEMMA OutputBeat ==
    ASSUME LoadInv, TypeInv, CoreInv, state_q = "WRITE_OUTPUT",
           NEW n, n = transfer_word_q + W
    PROVE  Written = StoredMem(n)
<1>1. PICK t, p, r : t = transfer_word_q /\ p = cfg_q.outPtr /\ r = Result
    OBVIOUS
<1>2. /\ t \in Nat /\ p \in Nat /\ DOMAIN mem = DOMAIN job_mem /\ DOMAIN mem \subseteq Nat
      /\ CoreOut(cfg_q.op) = r /\ mem = StoredMem(t) /\ W \in {1, 2, 4} /\ n \in Nat /\ n # 0
    BY <1>1, PointersTyped, AdapterAssumption
       DEF LoadInv, JobIn, TypeInv, TransferOK, JobOK, CoreInv
<1>3. \A i : mem_wdata(i) = r[i \div 4][i % 4]
    BY <1>2 DEF mem_wdata
<1>4. Written = [x \in DOMAIN job_mem |-> IF x - p \in BeatWords
                                          THEN r[(x - p) \div 4][(x - p) % 4] ELSE mem[x]]
    BY <1>1, <1>2, <1>3 DEF Written, BurstBaseAddr
<1>5. StoredMem(n) = [x \in DOMAIN job_mem |->
                         IF x \in p .. p + n - 1 THEN r[(x - p) \div 4][(x - p) % 4]
                         ELSE job_mem[x]]
    BY <1>1, <1>2 DEF StoredMem
<1>6. ASSUME NEW x \in DOMAIN job_mem
      PROVE  (IF x - p \in BeatWords THEN r[(x - p) \div 4][(x - p) % 4] ELSE mem[x])
               = (IF x \in p .. p + n - 1 THEN r[(x - p) \div 4][(x - p) % 4] ELSE job_mem[x])
    <2>1. x \in Nat
        BY <1>2
    <2>2. PICK d : d = r[(x - p) \div 4][(x - p) % 4]
        OBVIOUS
    <2>3. x - p \in BeatWords <=> x \in p + t .. p + n - 1
        BY <1>1, <1>2, <2>1 DEF BeatWords
    <2>4. mem[x] = IF x \in p .. p + t - 1 THEN d ELSE job_mem[x]
        <3>1. CASE t = 0
            <4>1. mem = job_mem
                BY <1>2, <3>1 DEF StoredMem
            <4>2. x \notin p .. p + t - 1
                BY <1>2, <2>1, <3>1
            <4>3. QED
                BY <4>1, <4>2
        <3>2. CASE t # 0
            BY <1>1, <1>2, <2>2, <3>2 DEF StoredMem
        <3>3. QED
            BY <3>1, <3>2
    <2>5. x \in p .. p + n - 1 <=> x \in p + t .. p + n - 1 \/ x \in p .. p + t - 1
        BY <1>1, <1>2, <2>1
    <2>6. QED
        BY <2>2, <2>3, <2>4, <2>5
<1>7. QED
    BY <1>4, <1>5, <1>6

LEMMA LoadFinished ==
    ASSUME LoadInv, TypeInv, Inv, CoreFinished
    PROVE  LoadInv'
<1>1. /\ state_q = "WAIT_CORE" /\ state_q' = "WRITE_OUTPUT" /\ transfer_word_q' = 0
      /\ UNCHANGED <<jobVars, mem, job_mem>>
    BY DEF CoreFinished, CoreError, Inv, EnginePhase
<1>2. JobIn' /\ Shaped'
    BY <1>1, LoadKept DEF LoadInv
<1>3. mem = job_mem
    BY <1>1 DEF TypeInv, JobOK
<1>4. QED
    BY <1>1, <1>2, <1>3 DEF LoadInv, StoredMem

LEMMA LoadStores ==
    ASSUME LoadInv, TypeInv, CoreInv, VerdictInv, PerfInv, WriteOutput \/ WriteOutputFault
    PROVE  LoadInv'
<1>1. /\ state_q = "WRITE_OUTPUT" /\ UNCHANGED <<jobVars, job_mem>>
      /\ descriptor_addr_q' = descriptor_addr_q
    BY DEF WriteOutput, WriteOutputFault, jobVars
<1>2. JobIn /\ Aligned(descriptor_addr_q)
    BY <1>1 DEF LoadInv, TypeInv, JobOK
<1>3. JobIn' /\ Shaped' /\ Aligned(descriptor_addr_q)'
    BY <1>1, <1>2, LoadKept DEF LoadInv, Aligned
<1>4. PICK t, n : t = transfer_word_q /\ n = transfer_word_q + W
    OBVIOUS
<1>5. t \in Nat /\ n \in Nat /\ t < 16 /\ n <= 16
    <2>1. BurstTotalWords = 16
        BY <1>1, BurstLengths
    <2>2. /\ t \in Nat /\ t % W = 0 /\ t < 16
        BY <1>1, <1>4, <2>1 DEF TypeInv, TransferOK, Burst
    <2>3. 16 \in {4, 8, 16, 32}
        OBVIOUS
    <2>4. QED
        BY <1>4, <2>2, <2>3, BeatFits
<1>6. mem = StoredMem(t) /\ Written = StoredMem(n)
    BY <1>1, <1>4, OutputBeat DEF LoadInv
<1>7. StoredMem(t)' = StoredMem(t) /\ StoredMem(n)' = StoredMem(n)
    BY <1>1, LoadKept
<1>8. CASE WriteOutput
    <2>1. mem' = StoredMem(n)'
        BY <1>6, <1>7, <1>8 DEF WriteOutput
    <2>2. error_code_q' = ERR_NONE
        <3>1. error_q = FALSE
            BY <1>1 DEF PerfInv, Undecided
        <3>2. error_code_q = ERR_NONE
            BY <3>1, VerdictCases
        <3>3. QED
            BY <1>8, <3>2 DEF WriteOutput, flagVars
    <2>3. \/ state_q' = "WRITE_STATUS" /\ n = 16
          \/ state_q' = "WRITE_OUTPUT" /\ transfer_word_q' = n
        <3>1. BeatAccepted("WRITE_STATUS") /\ cfg_q' = cfg_q
            BY <1>8 DEF WriteOutput, jobVars
        <3>2. BurstTotalWords = 16
            BY <1>1, BurstLengths
        <3>3. QED
            BY <1>1, <1>4, <3>1, <3>2, BeatTaken DEF TypeInv, States, Burst, ReadStates, WriteStates
    <2>4. CASE state_q' = "WRITE_STATUS" /\ n = 16
        BY <1>3, <2>1, <2>2, <2>4 DEF LoadInv, Ending
    <2>5. CASE state_q' = "WRITE_OUTPUT" /\ transfer_word_q' = n
        <3>1. mem' = StoredMem(transfer_word_q)'
            BY <2>1, <2>5 DEF StoredMem
        <3>2. QED
            BY <1>3, <2>5, <3>1 DEF LoadInv
    <2>6. QED
        BY <2>3, <2>4, <2>5
<1>9. CASE WriteOutputFault
    <2>1. state_q' = "WRITE_STATUS" /\ error_code_q' = ERR_MEM_WRITE /\ mem' \in {mem, Written}
        BY <1>9 DEF WriteOutputFault, Fail
    <2>2. t \in 0 .. 16 /\ n \in 0 .. 16
        BY <1>5
    <2>3. \E k \in 0 .. 16 : mem' = StoredMem(k)'
        BY <1>6, <1>7, <2>1, <2>2
    <2>4. Ending'
        BY <1>3, <2>1, <2>3 DEF Ending
    <2>5. QED
        BY <1>3, <2>1, <2>4 DEF LoadInv
<1>10. QED
    BY <1>8, <1>9

LEMMA LoadNext ==
    LoadInv /\ TypeInv /\ Inv /\ CoreInv /\ VerdictInv /\ PerfInv /\ [Next]_vars => LoadInv'
<1> SUFFICES ASSUME LoadInv, TypeInv, Inv, CoreInv, VerdictInv, PerfInv, [Next]_vars
             PROVE  LoadInv'
    OBVIOUS
<1>1. CASE UNCHANGED vars
    <2>1. UNCHANGED <<desc_word_q, descriptor_addr_q, cfg_q, buf_q, job_mem, mem, transfer_word_q,
                      state_q, error_code_q>>
        BY <1>1 DEF vars, adapterVars, jobVars, flagVars
    <2>2. UNCHANGED <<jobVars, job_mem>>
        BY <2>1 DEF jobVars
    <2>3. UNCHANGED <<ConfigIn, JobIn, Shaped, ParseError>>
        BY <2>2, LoadKept
    <2>4. /\ HeaderIn(8)' = HeaderIn(8) /\ SeedIn(4)' = SeedIn(4) /\ AddrIn(32)' = AddrIn(32)
          /\ \A n : StoredMem(n)' = StoredMem(n)
        BY <2>2, LoadKept
    <2>5. Ending' = Ending
        BY <2>1, <2>3, <2>4 DEF Ending, Aligned
    <2>6. /\ HeaderIn(transfer_word_q)' = HeaderIn(transfer_word_q)
          /\ SeedIn(transfer_word_q)' = SeedIn(transfer_word_q)
          /\ AddrIn(transfer_word_q)' = AddrIn(transfer_word_q)
        BY <2>1 DEF HeaderIn, SeedIn, SeedBase, AddrIn
    <2>7. InputIn(transfer_word_q)' = InputIn(transfer_word_q)
        BY <2>1 DEF InputIn, InputWord, InputWordsPerLane
    <2>8. StoredMem(transfer_word_q)' = StoredMem(transfer_word_q)
        <3>1. UNCHANGED <<TheJob, Blocks>>
            BY <2>1 DEF TheJob, Blocks, Operands
        <3>2. Result' = Result
            BY <2>1, <3>1 DEF Result, ChainEnds, Digests
        <3>3. QED
            BY <2>1, <3>2 DEF StoredMem
    <2>9. QED
        BY <2>1, <2>3, <2>4, <2>5, <2>6, <2>7, <2>8 DEF LoadInv
<1>2. QED
    BY <1>1, LoadWaits, LoadStarts, LoadStops, LoadHeader, LoadParse, LoadSeed, LoadAddr, LoadInput,
       LoadFinished, LoadStores DEF Next, Job

(***************************************************************************)
(* In every cycle the registers of spx_descriptor_adapter hold the words   *)
(* of the job's operands that have been read, memory holds the words of    *)
(* its output that have been stored, and a job comes to its status write   *)
(* with the error code of what stopped it.                                 *)
(***************************************************************************)
THEOREM LoadHolds == Spec => []LoadInv
<1>1. VerdictInv /\ [Next]_vars => VerdictInv'
    BY StepIsEngineStep
<1>2. QED
    BY <1>1, LoadInit, LoadNext, TypesHold, InvHolds, CoreHolds, VerdictInit, PerfInit, PerfNext, PTL
       DEF Spec

----------------------------------------------------------------------------
(***************************************************************************)
(* The job as one step of the service.                                     *)
(***************************************************************************)
\* The service's copies of the data's names.
LEMMA SameNames ==
    /\ Service!Lane = Lane /\ Service!Digest = Digest /\ Service!Wide = Wide
    /\ Service!ERR_NONE = ERR_NONE /\ Service!ERR_BAD_ALIGN = ERR_BAD_ALIGN
    /\ Service!ERR_MEM_READ = ERR_MEM_READ /\ Service!ERR_MEM_WRITE = ERR_MEM_WRITE
    /\ Service!ERR_BAD_CONFIG = ERR_BAD_CONFIG /\ Service!ERR_BAD_CHAIN = ERR_BAD_CHAIN
    /\ Service!ERR_BAD_OP_TYPE = ERR_BAD_OP_TYPE
    /\ Service!OP_TYPE_THASHX4 = OP_TYPE_THASHX4
    /\ Service!OP_TYPE_WOTS_CHAINX4 = OP_TYPE_WOTS_CHAINX4
    /\ Service!OP_TYPE_WOTS_CHAINX4_MIXED = OP_TYPE_WOTS_CHAINX4_MIXED
    /\ \A op : Service!WotsOp(op) = WotsOp(op)
    /\ \A a : Service!Align(a) = Aligned(a)
    BY DEF Service!Lane, Lane, Service!Digest, Digest, Service!Wide, Wide,
       Service!ERR_NONE, ERR_NONE, Service!ERR_BAD_ALIGN, ERR_BAD_ALIGN,
       Service!ERR_MEM_READ, ERR_MEM_READ, Service!ERR_MEM_WRITE, ERR_MEM_WRITE,
       Service!ERR_BAD_CONFIG, ERR_BAD_CONFIG, Service!ERR_BAD_CHAIN, ERR_BAD_CHAIN,
       Service!ERR_BAD_OP_TYPE, ERR_BAD_OP_TYPE, Service!OP_TYPE_THASHX4, OP_TYPE_THASHX4,
       Service!OP_TYPE_WOTS_CHAINX4, OP_TYPE_WOTS_CHAINX4,
       Service!OP_TYPE_WOTS_CHAINX4_MIXED, OP_TYPE_WOTS_CHAINX4_MIXED,
       Service!WotsOp, WotsOp, Service!Align, Aligned

LEMMA SameStep ==
    \A seed, addr, step, v : Service!ChainStep(seed, addr, step, v) = ChainStep(seed, addr, step, v)
    BY Zenon DEF Service!ChainStep, ChainStep, Service!BuildAbsorbState, BuildAbsorbState, Service!AddrWithHash,
       AddrWithHash, Service!ZeroExtend, ZeroExtend, Service!Lane, Lane, Service!Digest, Digest,
       Service!Wide, Wide, Service!ZeroWord, ZeroWord

LEMMA SameChain ==
    ASSUME NEW seed, NEW addr, NEW start, NEW num, NEW v
    PROVE  Service!ScalarChain(seed, addr, start, num, v) = ScalarChain(seed, addr, start, num, v)
    BY Zenon DEF Service!ScalarChain, ScalarChain,
       Service!ChainStep, ChainStep, Service!BuildAbsorbState, BuildAbsorbState, Service!AddrWithHash,
       AddrWithHash, Service!ZeroExtend, ZeroExtend, Service!Lane, Lane, Service!Digest, Digest,
       Service!Wide, Wide, Service!ZeroWord, ZeroWord

\* The fields of the C structure, as the header registers hold them.
HeaderFields(d) ==
    /\ d.op = DescOpType /\ d.lanes = desc_word_q[1].lanes
    /\ d.variant = desc_word_q[1].variant /\ d.inblocks = desc_word_q[1].inblocks
    /\ d.pub_seed_ptr = (IF desc_word_q[0].inline THEN descriptor_addr_q + 8
                         ELSE desc_word_q[2].ptr)
    /\ d.addr_base_ptr = desc_word_q[3].ptr /\ d.input_base_ptr = desc_word_q[4].ptr
    /\ d.output_base_ptr = desc_word_q[5].ptr
    /\ d.start_step = DescNumSteps[0] /\ d.num_steps = DescNumSteps[1]
    /\ d.start_steps = DescStartSteps /\ d.lane_num_steps = DescNumSteps

\* The descriptor that was read is that of the C structure.
LEMMA DescIs ==
    ASSUME NEW d, d = Service!Desc(job_mem, descriptor_addr_q), HeaderIn(8),
           descriptor_addr_q \in Nat
    PROVE  HeaderFields(d)
<1>1. \A w \in 0 .. 7 : desc_word_q[w] = job_mem[descriptor_addr_q + w]
    BY DEF HeaderIn, Header
<1>2. PICK a, h : a = descriptor_addr_q /\ h = job_mem
    OBVIOUS
<1>3. /\ d.op = h[a + 1].op /\ d.lanes = h[a + 1].lanes /\ d.variant = h[a + 1].variant
      /\ d.inblocks = h[a + 1].inblocks
      /\ d.pub_seed_ptr = (IF h[a].inline THEN a + 8 ELSE h[a + 2].ptr)
      /\ d.addr_base_ptr = h[a + 3].ptr /\ d.input_base_ptr = h[a + 4].ptr
      /\ d.output_base_ptr = h[a + 5].ptr
      /\ d.start_step = h[a + 7].bytes[0] /\ d.num_steps = h[a + 7].bytes[1]
      /\ d.start_steps = h[a + 6].bytes /\ d.lane_num_steps = h[a + 7].bytes
    BY <1>2 DEF Service!Desc
<1>4. /\ desc_word_q[0] = h[a + 0] /\ desc_word_q[1] = h[a + 1] /\ desc_word_q[2] = h[a + 2]
      /\ desc_word_q[3] = h[a + 3] /\ desc_word_q[4] = h[a + 4] /\ desc_word_q[5] = h[a + 5]
      /\ desc_word_q[6] = h[a + 6] /\ desc_word_q[7] = h[a + 7]
    BY <1>1, <1>2
<1>5. h[a + 0] = h[a]
    BY <1>2
<1>6. QED
    BY <1>2, <1>3, <1>4, <1>5 DEF HeaderFields, DescOpType, DescStartSteps, DescNumSteps

\* The bytes of the windows.
LEMMA BytesTyped ==
    ASSUME HeaderTyped
    PROVE  \A l \in Lane : DescStartSteps[l] \in 0 .. 255 /\ DescNumSteps[l] \in 0 .. 255
<1>1. HeaderWord(6) = [bytes : [Lane -> Byte]] /\ HeaderWord(7) = [bytes : [Lane -> Byte]]
    BY HeaderWordIs
<1>2. 6 \in Header /\ 7 \in Header
    BY DEF Header
<1>3. /\ desc_word_q[6] \in [bytes : [Lane -> Byte]]
      /\ desc_word_q[7] \in [bytes : [Lane -> Byte]]
    BY <1>1, <1>2 DEF HeaderTyped
<1>4. desc_word_q[6].bytes \in [Lane -> Byte] /\ desc_word_q[7].bytes \in [Lane -> Byte]
    BY <1>3
<1>5. QED
    BY <1>4 DEF DescStartSteps, DescNumSteps, Byte

\* What PARSE_DESC refuses is what is wrong with the descriptor.
WrongWith(d, code) ==
    \/ /\ code = ERR_BAD_OP_TYPE
       /\ d.op \notin {OP_TYPE_THASHX4, OP_TYPE_WOTS_CHAINX4, OP_TYPE_WOTS_CHAINX4_MIXED}
    \/ /\ code = ERR_BAD_CONFIG
       /\ \/ ~Service!DescriptorConfigOk(d)
          \/ d.op = OP_TYPE_THASHX4 /\ ~Service!Executes(d)
    \/ /\ code = ERR_BAD_CHAIN
       /\ WotsOp(d.op) /\ Service!DescriptorConfigOk(d)
       /\ \/ ~Service!Executes(d)
          \/ d.op = OP_TYPE_WOTS_CHAINX4 /\ d.num_steps = 0
    \/ /\ code = ERR_BAD_ALIGN
       /\ \E p \in {d.pub_seed_ptr, d.addr_base_ptr, d.input_base_ptr, d.output_base_ptr} :
             ~Aligned(p)

LEMMA ConfigSame ==
    ASSUME NEW d, HeaderFields(d)
    PROVE  Service!DescriptorConfigOk(d) <=> CommonConfigOk
    BY DEF HeaderFields, Service!DescriptorConfigOk, CommonConfigOk

LEMMA ExecutesThash ==
    ASSUME NEW d, HeaderFields(d), DescOpType = OP_TYPE_THASHX4
    PROVE  Service!Executes(d) <=> CommonConfigOk /\ desc_word_q[1].inblocks \in {1, 2}
<1>1. d.op = Service!OP_TYPE_THASHX4
    BY SameNames DEF HeaderFields
<1>2. QED
    BY <1>1, ConfigSame DEF Service!Executes, HeaderFields, Service!OP_TYPE_THASHX4,
       Service!OP_TYPE_WOTS_CHAINX4, Service!OP_TYPE_WOTS_CHAINX4_MIXED

LEMMA ExecutesUniform ==
    ASSUME NEW d, HeaderFields(d), DescOpType = OP_TYPE_WOTS_CHAINX4, HeaderTyped
    PROVE  /\ Service!Executes(d) /\ d.num_steps # 0 <=> CommonConfigOk /\ UniformWindowOk
           /\ ChainOk <=> UniformWindowOk
<1>1. d.op = Service!OP_TYPE_WOTS_CHAINX4
    BY SameNames DEF HeaderFields
<1>2. Service!Executes(d) <=> CommonConfigOk /\ Service!ValidChainWindow(d.start_step, d.num_steps)
    BY <1>1, ConfigSame DEF Service!Executes, Service!OP_TYPE_THASHX4,
       Service!OP_TYPE_WOTS_CHAINX4, Service!OP_TYPE_WOTS_CHAINX4_MIXED
<1>3. DescNumSteps[0] \in 0 .. 255 /\ DescNumSteps[1] \in 0 .. 255
    BY BytesTyped DEF Lane
<1>4. Service!ValidChainWindow(d.start_step, d.num_steps) /\ d.num_steps # 0 <=> UniformWindowOk
    BY <1>3 DEF Service!ValidChainWindow, UniformWindowOk, HeaderFields
<1>5. ChainOk <=> UniformWindowOk
    BY DEF ChainOk, OP_TYPE_WOTS_CHAINX4, OP_TYPE_WOTS_CHAINX4_MIXED
<1>6. QED
    BY <1>2, <1>4, <1>5

LEMMA ExecutesMixed ==
    ASSUME NEW d, HeaderFields(d), DescOpType = OP_TYPE_WOTS_CHAINX4_MIXED
    PROVE  /\ Service!Executes(d) <=> CommonConfigOk /\ MixedWindowOk
           /\ ChainOk <=> MixedWindowOk
<1>1. d.op = Service!OP_TYPE_WOTS_CHAINX4_MIXED
    BY SameNames DEF HeaderFields
<1>2. Service!Executes(d) <=>
          /\ CommonConfigOk
          /\ \A l \in Lane : Service!ValidChainWindow(d.start_steps[l], d.lane_num_steps[l])
    BY <1>1, ConfigSame, SameNames DEF Service!Executes, Service!OP_TYPE_THASHX4,
       Service!OP_TYPE_WOTS_CHAINX4, Service!OP_TYPE_WOTS_CHAINX4_MIXED
<1>3. (\A l \in Lane : Service!ValidChainWindow(d.start_steps[l], d.lane_num_steps[l]))
          <=> MixedWindowOk
    BY DEF Service!ValidChainWindow, MixedWindowOk, HeaderFields
<1>4. ChainOk <=> MixedWindowOk
    BY DEF ChainOk, OP_TYPE_WOTS_CHAINX4, OP_TYPE_WOTS_CHAINX4_MIXED
<1>5. QED
    BY <1>2, <1>3, <1>4

LEMMA PointersSame ==
    ASSUME NEW d, HeaderFields(d), descriptor_addr_q \in Nat, Aligned(descriptor_addr_q)
    PROVE  PointersAligned <=>
             \A p \in {d.pub_seed_ptr, d.addr_base_ptr, d.input_base_ptr, d.output_base_ptr} :
                Aligned(p)
<1>1. Aligned(descriptor_addr_q + 8)
    BY DEF Aligned
<1>2. PointersAligned <=> /\ Aligned(desc_word_q[3].ptr) /\ Aligned(desc_word_q[4].ptr)
                          /\ Aligned(desc_word_q[5].ptr)
                          /\ desc_word_q[0].inline \/ Aligned(desc_word_q[2].ptr)
    BY DEF PointersAligned
<1>3. QED
    BY <1>1, <1>2 DEF HeaderFields

\* The reasons of the service, code by code.
LEMMA ReasonsAre ==
    ASSUME busy_q = TRUE, NEW d, d = Service!Desc(job_mem, descriptor_addr_q), NEW code \in 1 .. 6
    PROVE  code \in Service!Reasons <=> WrongWith(d, code)
<1>1. (IF busy_q THEN job_mem ELSE mem) = job_mem
    OBVIOUS
<1>2. code \in Service!Reasons <=>
         CASE code = ERR_BAD_OP_TYPE ->
                 d.op \notin {OP_TYPE_THASHX4, OP_TYPE_WOTS_CHAINX4, OP_TYPE_WOTS_CHAINX4_MIXED}
           [] code = ERR_BAD_CONFIG  -> \/ ~Service!DescriptorConfigOk(d)
                                        \/ d.op = OP_TYPE_THASHX4 /\ ~Service!Executes(d)
           [] code = ERR_BAD_CHAIN   -> /\ WotsOp(d.op) /\ Service!DescriptorConfigOk(d)
                                        /\ \/ ~Service!Executes(d)
                                           \/ d.op = OP_TYPE_WOTS_CHAINX4 /\ d.num_steps = 0
           [] code = ERR_BAD_ALIGN   -> \E p \in {d.pub_seed_ptr, d.addr_base_ptr,
                                                  d.input_base_ptr, d.output_base_ptr} : ~Aligned(p)
           [] OTHER                  -> FALSE
    BY <1>1, SameNames DEF Service!Reasons
<1>3. QED
    BY <1>2 DEF WrongWith, ERR_BAD_OP_TYPE, ERR_BAD_CONFIG, ERR_BAD_CHAIN, ERR_BAD_ALIGN

LEMMA ParseFindsReasons ==
    ASSUME NEW d, HeaderFields(d), HeaderTyped, descriptor_addr_q \in Nat,
           Aligned(descriptor_addr_q)
    PROVE  /\ ParseError # ERR_NONE => WrongWith(d, ParseError)
           /\ ParseError = ERR_NONE => \A code \in 1 .. 6 : ~WrongWith(d, code)
<1>0. /\ d.op = DescOpType /\ d.num_steps = DescNumSteps[1]
      /\ Service!DescriptorConfigOk(d) <=> CommonConfigOk
    BY ConfigSame DEF HeaderFields
<1>1. OpTypeKnown <=>
         d.op \in {OP_TYPE_THASHX4, OP_TYPE_WOTS_CHAINX4, OP_TYPE_WOTS_CHAINX4_MIXED}
    BY <1>0 DEF OpTypeKnown
<1>2. ASSUME OpTypeKnown
      PROVE  ~ConfigOk <=> \/ ~Service!DescriptorConfigOk(d)
                           \/ d.op = OP_TYPE_THASHX4 /\ ~Service!Executes(d)
    <2>1. CASE DescOpType = OP_TYPE_THASHX4
        BY <1>0, <2>1, ExecutesThash DEF ConfigOk, WotsOp, OP_TYPE_THASHX4, OP_TYPE_WOTS_CHAINX4,
           OP_TYPE_WOTS_CHAINX4_MIXED
    <2>2. CASE DescOpType # OP_TYPE_THASHX4
        BY <1>0, <1>2, <2>2 DEF OpTypeKnown, ConfigOk, WotsOp
    <2>3. QED
        BY <2>1, <2>2
<1>3. ASSUME OpTypeKnown, ConfigOk
      PROVE  ~ChainOk <=> /\ WotsOp(d.op) /\ Service!DescriptorConfigOk(d)
                          /\ \/ ~Service!Executes(d)
                             \/ d.op = OP_TYPE_WOTS_CHAINX4 /\ d.num_steps = 0
    <2>0. CommonConfigOk
        BY <1>3 DEF ConfigOk
    <2>1. CASE DescOpType = OP_TYPE_THASHX4
        BY <1>0, <2>1 DEF ChainOk, WotsOp, OP_TYPE_THASHX4, OP_TYPE_WOTS_CHAINX4,
           OP_TYPE_WOTS_CHAINX4_MIXED
    <2>2. CASE DescOpType = OP_TYPE_WOTS_CHAINX4
        BY <1>0, <2>0, <2>2, ExecutesUniform DEF WotsOp
    <2>3. CASE DescOpType = OP_TYPE_WOTS_CHAINX4_MIXED
        BY <1>0, <2>0, <2>3, ExecutesMixed DEF WotsOp, OP_TYPE_WOTS_CHAINX4,
           OP_TYPE_WOTS_CHAINX4_MIXED
    <2>4. QED
        BY <1>3, <2>1, <2>2, <2>3 DEF OpTypeKnown
<1>4. ~PointersAligned <=>
         \E p \in {d.pub_seed_ptr, d.addr_base_ptr, d.input_base_ptr, d.output_base_ptr} : ~Aligned(p)
    BY PointersSame
<1>5. CASE ~OpTypeKnown
    BY <1>1, <1>5 DEF ParseError, WrongWith, ERR_BAD_OP_TYPE, ERR_NONE
<1>6. CASE OpTypeKnown /\ ~ConfigOk
    BY <1>2, <1>6 DEF ParseError, WrongWith, ERR_BAD_CONFIG, ERR_NONE
<1>7. CASE OpTypeKnown /\ ConfigOk /\ ~ChainOk
    BY <1>3, <1>7 DEF ParseError, WrongWith, ERR_BAD_CHAIN, ERR_NONE
<1>8. CASE OpTypeKnown /\ ConfigOk /\ ChainOk /\ ~PointersAligned
    BY <1>4, <1>8 DEF ParseError, WrongWith, ERR_BAD_ALIGN, ERR_NONE
<1>9. CASE OpTypeKnown /\ ConfigOk /\ ChainOk /\ PointersAligned
    BY <1>1, <1>2, <1>3, <1>4, <1>9 DEF ParseError, WrongWith
<1>10. QED
    BY <1>5, <1>6, <1>7, <1>8, <1>9

----------------------------------------------------------------------------
\* The operands, as the service reads them.
LEMMA SeedRead ==
    ASSUME NEW d, HeaderFields(d), JobIn, Shaped
    PROVE  Service!DigestAt(job_mem, d.pub_seed_ptr) = buf_q.seed
<1>1. SeedBase = d.pub_seed_ptr
    BY DEF JobIn, ConfigIn, ParsedConfig, SeedBase, HeaderFields, DESC_HEADER_WORDS
<1>2. \A w \in Digest : buf_q.seed[w] = job_mem[d.pub_seed_ptr + w]
    BY <1>1 DEF JobIn, SeedIn, Digest
<1>3. buf_q.seed = [w \in Digest |-> buf_q.seed[w]]
    BY DEF Shaped
<1>4. QED
    BY <1>2, <1>3, SameNames DEF Service!DigestAt

LEMMA AddrRead ==
    ASSUME NEW d, HeaderFields(d), JobIn, Shaped, HeaderTyped, NEW l \in Lane
    PROVE  Service!WideAt(job_mem, d.addr_base_ptr + 8 * l) = buf_q.addr[l]
<1>1. cfg_q.addrPtr = d.addr_base_ptr /\ cfg_q.addrPtr \in Nat
    BY PointersTyped DEF JobIn, ConfigIn, ParsedConfig, HeaderFields
<1>2. ASSUME NEW w \in Wide
      PROVE  job_mem[(d.addr_base_ptr + 8 * l) + w] = buf_q.addr[l][w]
    <2>1. 8 * l + w < 32 /\ (d.addr_base_ptr + 8 * l) + w = cfg_q.addrPtr + (8 * l + w)
        BY <1>1 DEF Lane, Wide
    <2>2. QED
        BY <2>1 DEF JobIn, AddrIn
<1>3. buf_q.addr[l] = [w \in Wide |-> buf_q.addr[l][w]]
    BY DEF Shaped
<1>4. QED
    BY <1>2, <1>3, SameNames DEF Service!WideAt

LEMMA InputRead ==
    ASSUME NEW d, HeaderFields(d), JobIn, HeaderTyped, NEW ib \in {1, 2}, cfg_q.inblocks = ib,
           NEW l \in Lane, NEW i \in 0 .. 4 * ib - 1
    PROVE  job_mem[d.input_base_ptr + 4 * ib * l + i] = buf_q.input[l][i]
<1>1. cfg_q.inPtr = d.input_base_ptr /\ cfg_q.inPtr \in Nat
    BY PointersTyped DEF JobIn, ConfigIn, ParsedConfig, HeaderFields
<1>2. InputWordsPerLane = 4 * ib
    BY DEF InputWordsPerLane
<1>3. CASE ib = 1
    <2>1. /\ i \in Wide /\ i < 4 /\ InputWord(l, i) = 4 * l + i /\ 4 * l + i < 16
          /\ d.input_base_ptr + 4 * ib * l + i = cfg_q.inPtr + (4 * l + i)
        BY <1>1, <1>2, <1>3 DEF Lane, Wide, InputWord
    <2>2. QED
        BY <1>2, <1>3, <2>1 DEF JobIn, InputIn
<1>4. CASE ib = 2
    <2>1. /\ i \in Wide /\ i < 8 /\ InputWord(l, i) = 8 * l + i /\ 8 * l + i < 32
          /\ d.input_base_ptr + 4 * ib * l + i = cfg_q.inPtr + (8 * l + i)
        BY <1>1, <1>2, <1>4 DEF Lane, Wide, InputWord
    <2>2. QED
        BY <1>2, <1>4, <2>1 DEF JobIn, InputIn
<1>5. QED
    BY <1>3, <1>4

\* Four thash blocks.
LEMMA ThashOutputIs ==
    ASSUME NEW d, HeaderFields(d), JobIn, Shaped, HeaderTyped, ~WotsOp(cfg_q.op),
           cfg_q.inblocks \in {1, 2}
    PROVE  Digests(Blocks) = Service!ThashOutput(job_mem, d)
<1>1. PICK ib \in {1, 2} : ib = cfg_q.inblocks
    OBVIOUS
<1>2. d.inblocks = ib
    BY <1>1 DEF JobIn, ConfigIn, ParsedConfig, HeaderFields
<1>3. ASSUME NEW l \in Lane
      PROVE  Blocks[l] = [seed |-> Service!DigestAt(job_mem, d.pub_seed_ptr),
                          addr |-> Service!WideAt(job_mem, d.addr_base_ptr + 8 * l),
                          msg  |-> [i \in 0 .. 4 * d.inblocks - 1 |->
                                      job_mem[d.input_base_ptr + 4 * d.inblocks * l + i]]]
    <2>1. Blocks[l] = [seed |-> buf_q.seed, addr |-> buf_q.addr[l],
                       msg |-> [i \in (IF ib = 2 THEN Wide ELSE Digest) |-> buf_q.input[l][i]]]
        BY <1>1 DEF Blocks, AbsorbX4, BuildAbsorbState
    <2>2. (IF ib = 2 THEN Wide ELSE Digest) = 0 .. 4 * ib - 1
        <3>1. 4 * 1 - 1 = 3 /\ 4 * 2 - 1 = 7
            OBVIOUS
        <3>2. CASE ib = 1
            BY <3>1, <3>2 DEF Digest
        <3>3. CASE ib = 2
            BY <3>1, <3>3 DEF Wide
        <3>4. QED
            BY <3>2, <3>3
    <2>3. \A i \in 0 .. 4 * ib - 1 :
             job_mem[d.input_base_ptr + 4 * ib * l + i] = buf_q.input[l][i]
        BY <1>1, InputRead
    <2>4. [i \in (IF ib = 2 THEN Wide ELSE Digest) |-> buf_q.input[l][i]]
            = [i \in 0 .. 4 * ib - 1 |-> job_mem[d.input_base_ptr + 4 * ib * l + i]]
        BY <2>2, <2>3
    <2>5. QED
        BY <1>2, <2>1, <2>4, SeedRead, AddrRead, Zenon
<1>4. QED
    BY <1>3, SameNames DEF Digests, Service!ThashOutput

\* Four chains.
LEMMA ChainOutputIs ==
    ASSUME NEW d, HeaderFields(d), JobIn, Shaped, HeaderTyped, WotsOp(cfg_q.op),
           NEW s, NEW n, TheJob.start = s, TheJob.num = n
    PROVE  ChainEnds(TheJob) = Service!ChainOutput(job_mem, d, s, n)
<1>1. cfg_q.inblocks = 1
    BY DEF JobIn, ConfigIn, ParsedConfig
<1>2. /\ TheJob.seed = buf_q.seed /\ TheJob.addr = buf_q.addr
      /\ TheJob.in = [l \in Lane |-> LowHalf(buf_q.input[l])]
    BY DEF TheJob, WotsJob, Operands
<1>3. ASSUME NEW l \in Lane
      PROVE  ChainValue(TheJob, l, n[l])
               = Service!ScalarChain(Service!DigestAt(job_mem, d.pub_seed_ptr),
                                     Service!WideAt(job_mem, d.addr_base_ptr + 8 * l), s[l], n[l],
                                     Service!DigestAt(job_mem, d.input_base_ptr + 4 * l))
    <2>1. Service!DigestAt(job_mem, d.input_base_ptr + 4 * l) = LowHalf(buf_q.input[l])
        <3>1. ASSUME NEW i \in Digest
              PROVE  job_mem[(d.input_base_ptr + 4 * l) + i] = buf_q.input[l][i]
            <4>1. 1 \in {1, 2} /\ i \in 0 .. 4 * 1 - 1 /\ 4 * 1 * l = 4 * l
                BY DEF Digest, Lane
            <4>2. job_mem[d.input_base_ptr + 4 * 1 * l + i] = buf_q.input[l][i]
                BY <1>1, <4>1, InputRead
            <4>3. QED
                BY <4>1, <4>2
        <3>2. QED
            BY <3>1, SameNames DEF Service!DigestAt, LowHalf
    <2>2. ChainValue(TheJob, l, n[l])
            = ScalarChain(buf_q.seed, buf_q.addr[l], s[l], n[l], LowHalf(buf_q.input[l]))
        BY <1>2 DEF ChainValue
    <2>3. QED
        BY <2>1, <2>2, SeedRead, AddrRead, SameChain, Zenon
<1>4. QED
    BY <1>3, SameNames DEF ChainEnds, Service!ChainOutput

LEMMA OutputIsReference ==
    ASSUME NEW d, HeaderFields(d), JobIn, Shaped, HeaderTyped
    PROVE  Result = Service!Output(job_mem, d)
<1>1. /\ OpTypeKnown /\ ConfigOk /\ cfg_q = ParsedConfig
    BY DEF JobIn, ConfigIn, ParseError, ERR_NONE, ERR_BAD_OP_TYPE, ERR_BAD_CONFIG
<1>2. cfg_q.op = DescOpType /\ d.op = DescOpType
    BY <1>1 DEF ParsedConfig, HeaderFields
<1>3. /\ cfg_q.starts = DescStartSteps /\ cfg_q.nums = DescNumSteps
    BY <1>1 DEF ParsedConfig
<1>4. PICK s, n : s = TheJob.start /\ n = TheJob.num
    OBVIOUS
<1>5. /\ s = StartSteps(cfg_q.op = OP_TYPE_WOTS_CHAINX4_MIXED, DescStartSteps, DescNumSteps)
      /\ n = NumSteps(cfg_q.op = OP_TYPE_WOTS_CHAINX4_MIXED, DescNumSteps)
    BY <1>3, <1>4 DEF TheJob, WotsJob, Operands
<1>6. CASE DescOpType = OP_TYPE_THASHX4
    <2>1. ~WotsOp(cfg_q.op) /\ cfg_q.inblocks \in {1, 2}
        BY <1>1, <1>2, <1>6 DEF WotsOp, OP_TYPE_THASHX4, OP_TYPE_WOTS_CHAINX4,
           OP_TYPE_WOTS_CHAINX4_MIXED, ConfigOk, ParsedConfig
    <2>2. Result = Service!ThashOutput(job_mem, d)
        BY <2>1, ThashOutputIs DEF Result
    <2>3. d.op = Service!OP_TYPE_THASHX4
        BY <1>2, <1>6, SameNames
    <2>4. QED
        BY <2>2, <2>3 DEF Service!Output, Service!OP_TYPE_THASHX4, Service!OP_TYPE_WOTS_CHAINX4,
           Service!OP_TYPE_WOTS_CHAINX4_MIXED
<1>7. CASE DescOpType = OP_TYPE_WOTS_CHAINX4
    <2>1. WotsOp(cfg_q.op)
        BY <1>2, <1>7 DEF WotsOp
    <2>2. Result = Service!ChainOutput(job_mem, d, s, n)
        BY <1>4, <2>1, ChainOutputIs DEF Result
    <2>3. /\ s = [l \in Service!Lane |-> d.start_step] /\ n = [l \in Service!Lane |-> d.num_steps]
        BY <1>2, <1>5, <1>7, SameNames DEF StartSteps, NumSteps, HeaderFields, OP_TYPE_WOTS_CHAINX4,
           OP_TYPE_WOTS_CHAINX4_MIXED
    <2>4. d.op = Service!OP_TYPE_WOTS_CHAINX4
        BY <1>2, <1>7, SameNames
    <2>5. QED
        BY <2>2, <2>3, <2>4 DEF Service!Output, Service!OP_TYPE_THASHX4,
           Service!OP_TYPE_WOTS_CHAINX4, Service!OP_TYPE_WOTS_CHAINX4_MIXED
<1>8. CASE DescOpType = OP_TYPE_WOTS_CHAINX4_MIXED
    <2>1. WotsOp(cfg_q.op)
        BY <1>2, <1>8 DEF WotsOp
    <2>2. Result = Service!ChainOutput(job_mem, d, s, n)
        BY <1>4, <2>1, ChainOutputIs DEF Result
    <2>3. /\ s = d.start_steps /\ n = d.lane_num_steps
        BY <1>2, <1>5, <1>8 DEF StartSteps, NumSteps, HeaderFields
    <2>4. d.op = Service!OP_TYPE_WOTS_CHAINX4_MIXED
        BY <1>2, <1>8, SameNames
    <2>5. QED
        BY <2>2, <2>3, <2>4 DEF Service!Output, Service!OP_TYPE_THASHX4,
           Service!OP_TYPE_WOTS_CHAINX4, Service!OP_TYPE_WOTS_CHAINX4_MIXED
<1>9. QED
    BY <1>1, <1>6, <1>7, <1>8 DEF OpTypeKnown

----------------------------------------------------------------------------
\* A job that has not given its verdict.
LEMMA JobMemory == ASSUME busy_q = TRUE PROVE (IF busy_q THEN job_mem ELSE mem) = job_mem
    OBVIOUS

\* The output stored so far is that of the service.
LEMMA StoredIs ==
    ASSUME busy_q = TRUE, JobIn, Shaped, HeaderTyped, descriptor_addr_q \in Nat, NEW n
    PROVE  Service!WithOutput(n) = StoredMem(n)
<1>1. PICK d : d = Service!Desc(job_mem, descriptor_addr_q)
    OBVIOUS
<1>2. HeaderFields(d)
    BY <1>1, DescIs DEF JobIn, ConfigIn
<1>3. Service!Output(job_mem, d) = Result
    BY <1>2, OutputIsReference
<1>4. cfg_q.outPtr = d.output_base_ptr
    BY <1>2 DEF JobIn, ConfigIn, ParsedConfig, HeaderFields
<1>5. Service!WithOutput(n) =
        IF n = 0 THEN job_mem
        ELSE [x \in DOMAIN job_mem |->
                 IF x \in d.output_base_ptr .. d.output_base_ptr + n - 1
                 THEN Service!Output(job_mem, d)[(x - d.output_base_ptr) \div 4]
                                                [(x - d.output_base_ptr) % 4]
                 ELSE job_mem[x]]
    BY <1>1, JobMemory DEF Service!WithOutput
<1>6. QED
    BY <1>3, <1>4, <1>5 DEF StoredMem

\* The status beat.
LEMMA StatusFields ==
    ASSUME NEW h \in [inline : BOOLEAN, done : BOOLEAN, error : BOOLEAN, code : Nat],
           NEW e, NEW c, NEW f, f = [h EXCEPT !.done = TRUE, !.error = e, !.code = c]
    PROVE  f.done = TRUE /\ f.error = e /\ f.code = c
<1>1. h = [inline |-> h.inline, done |-> h.done, error |-> h.error, code |-> h.code]
    OBVIOUS
<1>2. f = [inline |-> h.inline, done |-> TRUE, error |-> e, code |-> c]
    BY <1>1
<1>3. QED
    BY <1>2

LEMMA StatusFlags ==
    ASSUME HeaderTyped
    PROVE  /\ FinalStatusWord.done = TRUE
           /\ FinalStatusWord.error = error_q
           /\ FinalStatusWord.code = error_code_q
<1>1. HeaderWord(0) = [inline : BOOLEAN, done : BOOLEAN, error : BOOLEAN, code : Nat]
    <2>1. 0 # 1 /\ 0 \notin 2 .. 5 /\ 0 \notin 6 .. 7
        OBVIOUS
    <2>2. QED
        BY <2>1 DEF HeaderWord
<1>2. 0 \in Header
    BY DEF Header
<1>3. desc_word_q[0] \in [inline : BOOLEAN, done : BOOLEAN, error : BOOLEAN, code : Nat]
    BY <1>1, <1>2 DEF HeaderTyped
<1>4. QED
    BY <1>3, StatusFields DEF FinalStatusWord

LEMMA StatusBeatIs ==
    ASSUME state_q = "WRITE_STATUS", TypeInv
    PROVE  /\ descriptor_addr_q \in Nat /\ descriptor_addr_q \in DOMAIN mem
           /\ DOMAIN mem \subseteq Nat /\ DOMAIN mem = DOMAIN job_mem /\ W \in {1, 2, 4}
           /\ \A x \in DOMAIN mem : x \in Service!StatusBeat <=> x - descriptor_addr_q \in 0 .. W - 1
           /\ Written = [x \in DOMAIN mem |->
                           IF x - descriptor_addr_q \in 0 .. W - 1
                           THEN IF x - descriptor_addr_q = 0 THEN FinalStatusWord
                                ELSE desc_word_q[x - descriptor_addr_q]
                           ELSE mem[x]]
<1>1. W \in {1, 2, 4} /\ DescriptorAddresses \subseteq Nat
    BY AdapterAssumption
<1>2. /\ descriptor_addr_q \in DescriptorAddresses /\ Prepared(job_mem, descriptor_addr_q)
      /\ DOMAIN mem \subseteq Nat /\ DOMAIN mem = DOMAIN job_mem
    BY DEF TypeInv, JobOK
<1>3. descriptor_addr_q \in Nat /\ descriptor_addr_q \in DOMAIN mem
    BY <1>1, <1>2 DEF Prepared
<1>4. transfer_word_q = 0
    BY DEF TypeInv, TransferOK, Burst
<1>5. BeatWords = 0 .. W - 1 /\ BurstBaseAddr = descriptor_addr_q
    <2>1. BeatWords = 0 .. W - 1
        BY <1>1, <1>4 DEF BeatWords
    <2>2. QED
        BY <2>1 DEF BurstBaseAddr
<1>6. \A x \in DOMAIN mem : x \in Service!StatusBeat <=> x - descriptor_addr_q \in 0 .. W - 1
    <2>1. Service!StatusBeat = descriptor_addr_q .. descriptor_addr_q + W - 1
        BY DEF Service!StatusBeat
    <2>2. QED
        BY <1>1, <1>2, <1>3, <2>1
<1>7. \A i : mem_wdata(i) = IF i = 0 THEN FinalStatusWord ELSE desc_word_q[i]
    BY DEF mem_wdata
<1>8. QED
    BY <1>1, <1>2, <1>3, <1>5, <1>6, <1>7 DEF Written

LEMMA StatusOnly ==
    ASSUME state_q = "WRITE_STATUS", TypeInv
    PROVE  /\ \A x \in DOMAIN job_mem \ Service!StatusBeat : Written[x] = mem[x]
           /\ Written[descriptor_addr_q] = FinalStatusWord
<1>1. PICK a : a = descriptor_addr_q
    OBVIOUS
<1>2. /\ a \in Nat /\ a \in DOMAIN mem /\ W \in {1, 2, 4} /\ DOMAIN mem = DOMAIN job_mem
      /\ \A x \in DOMAIN mem : x \in Service!StatusBeat <=> x - a \in 0 .. W - 1
      /\ Written = [x \in DOMAIN mem |->
                      IF x - a \in 0 .. W - 1
                      THEN IF x - a = 0 THEN FinalStatusWord ELSE desc_word_q[x - a]
                      ELSE mem[x]]
    BY <1>1, StatusBeatIs
<1>3. a - a = 0 /\ 0 \in 0 .. W - 1
    BY <1>2
<1>4. QED
    BY <1>1, <1>2, <1>3

\* With the header read, the status beat is that of the service.
LEMMA StatusIs ==
    ASSUME state_q = "WRITE_STATUS", busy_q = TRUE, TypeInv, HeaderIn(8)
    PROVE  Written = Service!WithStatus(mem, error_q, error_code_q)
<1>1. PICK a : a = descriptor_addr_q
    OBVIOUS
<1>2. /\ a \in Nat /\ a \in DOMAIN mem /\ W \in {1, 2, 4} /\ DOMAIN mem \subseteq Nat
      /\ \A x \in DOMAIN mem : x \in Service!StatusBeat <=> x - a \in 0 .. W - 1
      /\ Written = [x \in DOMAIN mem |->
                      IF x - a \in 0 .. W - 1
                      THEN IF x - a = 0 THEN FinalStatusWord ELSE desc_word_q[x - a]
                      ELSE mem[x]]
    BY <1>1, StatusBeatIs
<1>3. \A w \in 0 .. 7 : desc_word_q[w] = job_mem[a + w]
    BY <1>1 DEF HeaderIn, Header
<1>4. Service!WithStatus(mem, error_q, error_code_q)
        = [x \in DOMAIN mem |->
              IF x = a THEN [job_mem[a] EXCEPT !.done = TRUE, !.error = error_q, !.code = error_code_q]
              ELSE IF x \in Service!StatusBeat THEN job_mem[x] ELSE mem[x]]
    BY <1>1, JobMemory, Zenon DEF Service!WithStatus
<1>5. FinalStatusWord = [job_mem[a] EXCEPT !.done = TRUE, !.error = error_q, !.code = error_code_q]
    <2>1. desc_word_q[0] = job_mem[a]
        BY <1>2, <1>3
    <2>2. QED
        BY <2>1 DEF FinalStatusWord
<1>6. PICK f : f = FinalStatusWord
    OBVIOUS
<1>7. ASSUME NEW x \in DOMAIN mem
      PROVE  (IF x - a \in 0 .. W - 1
              THEN IF x - a = 0 THEN f ELSE desc_word_q[x - a] ELSE mem[x])
             = IF x = a THEN f ELSE IF x \in Service!StatusBeat THEN job_mem[x] ELSE mem[x]
    <2>1. x \in Nat /\ (x - a = 0 <=> x = a)
        BY <1>2
    <2>2. CASE x - a \in 0 .. W - 1 /\ x # a
        <3>1. x - a \in 0 .. 7 /\ a + (x - a) = x
            BY <1>2, <2>1, <2>2
        <3>2. desc_word_q[x - a] = job_mem[x]
            BY <1>3, <3>1
        <3>3. QED
            BY <1>2, <2>1, <2>2, <3>2
    <2>3. CASE x = a
        BY <1>2, <2>3
    <2>4. CASE x - a \notin 0 .. W - 1
        BY <1>2, <2>1, <2>4
    <2>5. QED
        BY <2>2, <2>3, <2>4
<1>8. QED
    BY <1>2, <1>4, <1>5, <1>6, <1>7

\* How a job may end.
LEMMA RefusalIsOutcome ==
    ASSUME busy_q = TRUE, Aligned(descriptor_addr_q), HeaderIn(8), HeaderTyped,
           descriptor_addr_q \in Nat, ParseError # ERR_NONE
    PROVE  Service!Refused(ParseError) \in Service!Outcomes
<1>1. PICK d : d = Service!Desc(job_mem, descriptor_addr_q)
    OBVIOUS
<1>2. HeaderFields(d)
    BY <1>1, DescIs
<1>3. ParseError \in 1 .. 6
    BY Codes
<1>4. WrongWith(d, ParseError)
    BY <1>2, ParseFindsReasons
<1>5. ParseError \in Service!Reasons
    BY <1>1, <1>3, <1>4, ReasonsAre
<1>6. Service!Align(descriptor_addr_q)
    BY SameNames
<1>7. QED
    BY <1>5, <1>6, Zenon DEF Service!Outcomes

LEMMA EndIsOutcome ==
    ASSUME busy_q = TRUE, Aligned(descriptor_addr_q), JobIn, HeaderTyped, descriptor_addr_q \in Nat
    PROVE  /\ Service!Completed \in Service!Outcomes
           /\ \A n \in 0 .. 16 : Service!OutputFailed(n) \in Service!Outcomes
<1>1. PICK d : d = Service!Desc(job_mem, descriptor_addr_q)
    OBVIOUS
<1>2. HeaderFields(d) /\ ParseError = ERR_NONE
    BY <1>1, DescIs DEF JobIn, ConfigIn
<1>3. \A code \in 1 .. 6 : ~WrongWith(d, code)
    BY <1>2, ParseFindsReasons
<1>4. \A code \in 1 .. 6 : code \notin Service!Reasons
    BY <1>1, <1>3, ReasonsAre
<1>5. Service!Reasons \subseteq 1 .. 6
    BY Zenon DEF Service!Reasons
<1>6. Service!Reasons = {}
    BY <1>4, <1>5
<1>7. Service!Align(descriptor_addr_q)
    BY SameNames
<1>8. Service!Outcomes = {Service!Completed} \cup {Service!OutputFailed(n) : n \in 0 .. 16}
    BY <1>6, <1>7, Zenon DEF Service!Outcomes
<1>9. QED
    BY <1>8, Zenon

----------------------------------------------------------------------------
\* The three ways a job comes to its status write.
LEMMA EndsKnown ==
    ASSUME LoadInv, TypeInv, VerdictInv, state_q = "WRITE_STATUS"
    PROVE  \/ /\ ~Aligned(descriptor_addr_q) /\ error_q = TRUE /\ error_code_q = ERR_BAD_ALIGN
              /\ mem = job_mem
           \/ /\ Aligned(descriptor_addr_q) /\ error_q = TRUE /\ error_code_q = ERR_MEM_READ
              /\ mem = job_mem
           \/ /\ HeaderIn(8)
              /\ \E o \in Service!Outcomes : /\ mem = Service!WithOutput(o.stored)
                                             /\ error_q = o.error /\ error_code_q = o.code
<1>1. Ending /\ Shaped /\ busy_q = TRUE /\ HeaderTyped
    BY Zenon DEF LoadInv, TypeInv, VerdictInv
<1>2. descriptor_addr_q \in Nat
    BY StatusBeatIs
<1>3. \/ error_q = FALSE /\ error_code_q = ERR_NONE
      \/ error_q = TRUE /\ error_code_q # ERR_NONE
    <2>1. \A c \in 1 .. 6 : c # ERR_NONE
        BY DEF ERR_NONE
    <2>2. QED
        BY <2>1, VerdictCases, Zenon
<1>4. CASE ~Aligned(descriptor_addr_q) /\ error_code_q = ERR_BAD_ALIGN /\ mem = job_mem
    <2>1. ERR_BAD_ALIGN # ERR_NONE
        BY DEF ERR_BAD_ALIGN, ERR_NONE
    <2>2. QED
        BY <1>3, <1>4, <2>1, Zenon
<1>5. CASE Aligned(descriptor_addr_q) /\ error_code_q = ERR_MEM_READ /\ mem = job_mem
    <2>1. ERR_MEM_READ # ERR_NONE
        BY DEF ERR_MEM_READ, ERR_NONE
    <2>2. QED
        BY <1>3, <1>5, <2>1, Zenon
<1>6. CASE /\ Aligned(descriptor_addr_q) /\ HeaderIn(8) /\ mem = job_mem
           /\ error_code_q = ParseError /\ ParseError # ERR_NONE
    <2>1. PICK o : o = Service!Refused(ParseError)
        OBVIOUS
    <2>2. o \in Service!Outcomes
        BY <1>1, <1>2, <1>6, <2>1, RefusalIsOutcome
    <2>3. o.stored = 0 /\ o.error = TRUE /\ o.code = ParseError
        BY <2>1 DEF Service!Refused
    <2>4. Service!WithOutput(0) = job_mem
        BY <1>1, JobMemory DEF Service!WithOutput
    <2>5. QED
        BY <1>3, <1>6, <2>2, <2>3, <2>4
<1>7. CASE Aligned(descriptor_addr_q) /\ JobIn /\ error_code_q = ERR_NONE /\ mem = StoredMem(16)
    <2>1. PICK o : o = Service!Completed
        OBVIOUS
    <2>2. o \in Service!Outcomes
        BY <1>1, <1>2, <1>7, <2>1, EndIsOutcome
    <2>3. o.stored = 16 /\ o.error = FALSE /\ o.code = ERR_NONE
        BY <2>1, SameNames DEF Service!Completed
    <2>4. Service!WithOutput(16) = StoredMem(16)
        BY <1>1, <1>2, <1>7, StoredIs
    <2>5. HeaderIn(8)
        BY <1>7 DEF JobIn, ConfigIn
    <2>6. QED
        BY <1>3, <1>7, <2>2, <2>3, <2>4, <2>5
<1>8. ASSUME Aligned(descriptor_addr_q), JobIn, error_code_q = ERR_MEM_WRITE,
             NEW n \in 0 .. 16, mem = StoredMem(n)
      PROVE  /\ HeaderIn(8)
             /\ \E o \in Service!Outcomes : /\ mem = Service!WithOutput(o.stored)
                                            /\ error_q = o.error /\ error_code_q = o.code
    <2>1. PICK o : o = Service!OutputFailed(n)
        OBVIOUS
    <2>2. o \in Service!Outcomes
        BY <1>1, <1>2, <1>8, <2>1, EndIsOutcome
    <2>3. o.stored = n /\ o.error = TRUE /\ o.code = ERR_MEM_WRITE
        BY <2>1, SameNames DEF Service!OutputFailed
    <2>4. Service!WithOutput(n) = StoredMem(n)
        BY <1>1, <1>2, <1>8, StoredIs
    <2>5. HeaderIn(8)
        BY <1>8 DEF JobIn, ConfigIn
    <2>6. error_q = TRUE
        BY <1>3, <1>8 DEF ERR_MEM_WRITE, ERR_NONE
    <2>7. QED
        BY <1>8, <2>2, <2>3, <2>4, <2>5, <2>6
<1>9. QED
    BY <1>1, <1>4, <1>5, <1>6, <1>7, <1>8 DEF Ending

LEMMA AnswerIs ==
    ASSUME VerdictInv, StatusAccepted
    PROVE  Service!Answer(error_q', error_code_q')
<1>1. busy_q = TRUE /\ busy_q' = FALSE /\ done_q' = TRUE /\ descriptor_addr_q' = descriptor_addr_q
    BY DEF StatusAccepted, VerdictInv, jobVars
<1>2. QED
    BY <1>1 DEF Service!Answer

\* The status accepted: the job has ended.
LEMMA StatusEnds ==
    ASSUME LoadInv, TypeInv, VerdictInv, WriteStatus
    PROVE  Service!JobStep
<1>1. /\ state_q = "WRITE_STATUS" /\ mem' = Written
      /\ error_q' = error_q /\ error_code_q' = error_code_q
      /\ busy_q = TRUE /\ busy_q' = FALSE /\ HeaderTyped
    BY DEF WriteStatus, StatusAccepted, VerdictInv, TypeInv
<1>2. Service!Answer(error_q, error_code_q)
    BY <1>1, AnswerIs DEF WriteStatus
<1>3. ASSUME error_q = TRUE, mem = job_mem
      PROVE  Service!HeaderUnread(error_code_q)
    <2>1. /\ \A x \in DOMAIN job_mem \ Service!StatusBeat : mem'[x] = job_mem[x]
          /\ mem'[descriptor_addr_q] = FinalStatusWord
        BY <1>1, <1>3, StatusOnly
    <2>2. /\ FinalStatusWord.done = TRUE /\ FinalStatusWord.error = TRUE
          /\ FinalStatusWord.code = error_code_q
        BY <1>1, <1>3, StatusFlags
    <2>3. Service!Answer(TRUE, error_code_q)
        BY <1>2, <1>3
    <2>4. /\ (IF busy_q THEN job_mem ELSE mem) = job_mem
          /\ (IF busy_q' THEN job_mem' ELSE mem') = mem'
        BY <1>1
    <2>5. QED
        BY <2>1, <2>2, <2>3, <2>4 DEF Service!HeaderUnread
<1>4. CASE ~Aligned(descriptor_addr_q) /\ error_q = TRUE /\ error_code_q = ERR_BAD_ALIGN /\ mem = job_mem
    BY <1>3, <1>4, SameNames DEF Service!JobStep, Service!Misaligned
<1>5. CASE Aligned(descriptor_addr_q) /\ error_q = TRUE /\ error_code_q = ERR_MEM_READ /\ mem = job_mem
    BY <1>3, <1>5, SameNames DEF Service!JobStep, Service!ReadFailed
<1>6. ASSUME HeaderIn(8), NEW o \in Service!Outcomes, mem = Service!WithOutput(o.stored),
             error_q = o.error, error_code_q = o.code
      PROVE  Service!Finish
    <2>1. mem' = Service!WithStatus(Service!WithOutput(o.stored), o.error, o.code)
        BY <1>1, <1>6, StatusIs
    <2>2. (IF busy_q' THEN job_mem' ELSE mem') = mem'
        BY <1>1
    <2>3. Service!Answer(o.error, o.code)
        BY <1>2, <1>6
    <2>4. QED
        BY <1>1, <2>1, <2>2, <2>3 DEF Service!Finish
<1>7. QED
    BY <1>1, <1>4, <1>5, <1>6, EndsKnown DEF Service!JobStep

\* The status answered with an error.
LEMMA StatusFails ==
    ASSUME LoadInv, TypeInv, VerdictInv, WriteStatusFault
    PROVE  Service!JobStep
<1>1. /\ state_q = "WRITE_STATUS" /\ mem' \in {mem, Written}
      /\ error_q' = TRUE /\ error_code_q' = ERR_MEM_WRITE
      /\ busy_q = TRUE /\ busy_q' = FALSE
    BY DEF WriteStatusFault, StatusAccepted, VerdictInv
<1>2. Service!Answer(TRUE, ERR_MEM_WRITE)
    BY <1>1, AnswerIs DEF WriteStatusFault
<1>3. /\ (IF busy_q THEN job_mem ELSE mem) = job_mem
      /\ (IF busy_q' THEN job_mem' ELSE mem') = mem'
    BY <1>1
<1>4. ASSUME mem = job_mem
      PROVE  \A x \in DOMAIN job_mem \ Service!StatusBeat : mem'[x] = job_mem[x]
    BY <1>1, <1>4, StatusOnly
<1>5. ASSUME HeaderIn(8), NEW o \in Service!Outcomes, mem = Service!WithOutput(o.stored),
             error_q = o.error, error_code_q = o.code
      PROVE  mem' \in {Service!WithOutput(o.stored),
                       Service!WithStatus(Service!WithOutput(o.stored), o.error, o.code)}
    <2>1. Written = Service!WithStatus(Service!WithOutput(o.stored), o.error, o.code)
        BY <1>1, <1>5, StatusIs
    <2>2. QED
        BY <1>1, <1>5, <2>1
<1>6. \/ \E o \in Service!Outcomes :
            mem' \in {Service!WithOutput(o.stored),
                      Service!WithStatus(Service!WithOutput(o.stored), o.error, o.code)}
      \/ \A x \in DOMAIN job_mem \ Service!StatusBeat : mem'[x] = job_mem[x]
    BY <1>1, <1>4, <1>5, EndsKnown
<1>7. /\ Service!Answer(TRUE, Service!ERR_MEM_WRITE)
      /\ (IF busy_q THEN job_mem ELSE mem)' = mem'
    BY <1>1, <1>2, SameNames
<1>8. Service!StatusFailed
    <2>1. ASSUME NEW o \in Service!Outcomes,
                 mem' \in {Service!WithOutput(o.stored),
                           Service!WithStatus(Service!WithOutput(o.stored), o.error, o.code)}
          PROVE  Service!StatusFailed
        <3>1. (IF busy_q THEN job_mem ELSE mem)'
                \in {Service!WithOutput(o.stored),
                     Service!WithStatus(Service!WithOutput(o.stored), o.error, o.code)}
            BY <1>7, <2>1
        <3>2. QED
            BY <1>7, <3>1 DEF Service!StatusFailed
    <2>2. ASSUME \A x \in DOMAIN job_mem \ Service!StatusBeat : mem'[x] = job_mem[x]
          PROVE  Service!StatusFailed
        <3>1. \A x \in DOMAIN (IF busy_q THEN job_mem ELSE mem) \ Service!StatusBeat :
                 (IF busy_q THEN job_mem ELSE mem)'[x] = (IF busy_q THEN job_mem ELSE mem)[x]
            BY <1>3, <1>7, <2>2
        <3>2. QED
            BY <1>7, <3>1, Zenon DEF Service!StatusFailed
    <2>3. QED
        BY <1>6, <2>1, <2>2
<1>9. QED
    BY <1>8 DEF Service!JobStep

\* A reset: what has been stored is a part of the output.
LEMMA ResetAborts ==
    ASSUME LoadInv, TypeInv, VerdictInv, Reset
    PROVE  Service!Abort
<1>1. /\ busy_q' = FALSE /\ done_q' = FALSE /\ error_q' = FALSE /\ error_code_q' = ERR_NONE
      /\ descriptor_addr_q' = 0 /\ mem' = mem
    BY DEF Reset
<1>2. Service!ServiceInit'
    BY <1>1, SameNames DEF Service!ServiceInit
<1>3. (IF busy_q' THEN job_mem' ELSE mem') = mem
    BY <1>1
<1>4. CASE state_q = "IDLE"
    <2>1. (IF busy_q THEN job_mem ELSE mem) = mem
        BY <1>4 DEF VerdictInv
    <2>2. QED
        BY <1>2, <1>3, <2>1 DEF Service!Abort
<1>5. CASE state_q # "IDLE"
    <2>1. busy_q = TRUE /\ (IF busy_q THEN job_mem ELSE mem) = job_mem
        BY <1>5 DEF VerdictInv
    <2>2. /\ HeaderTyped /\ Shaped
          /\ descriptor_addr_q \in Nat
        BY <1>5, AdapterAssumption DEF TypeInv, JobOK, LoadInv
    <2>3. ASSUME JobIn, Aligned(descriptor_addr_q), NEW n \in 0 .. 16, mem = StoredMem(n)
          PROVE  Service!Abort
        <3>1. Service!Completed \in Service!Outcomes
            BY <2>1, <2>2, <2>3, EndIsOutcome
        <3>2. mem = Service!WithOutput(n)
            BY <2>1, <2>2, <2>3, StoredIs
        <3>3. CASE n = 0
            <4>1. mem = job_mem
                BY <2>3, <3>3 DEF StoredMem
            <4>2. QED
                BY <1>2, <1>3, <2>1, <4>1 DEF Service!Abort
        <3>4. CASE n # 0
            <4>1. n \in 1 .. 16
                BY <3>4
            <4>2. QED
                BY <1>2, <1>3, <2>1, <3>1, <3>2, <4>1 DEF Service!Abort
        <3>5. QED
            BY <3>3, <3>4
    <2>4. CASE mem = job_mem
        BY <1>2, <1>3, <2>1, <2>4 DEF Service!Abort
    <2>5. CASE state_q = "WRITE_OUTPUT"
        <3>1. JobIn /\ mem = StoredMem(transfer_word_q) /\ Aligned(descriptor_addr_q)
            BY <2>5 DEF LoadInv, TypeInv, JobOK
        <3>2. transfer_word_q \in 0 .. 16
            <4>1. BurstTotalWords = 16
                BY <2>5, BurstLengths
            <4>2. QED
                BY <2>5, <4>1 DEF TypeInv, TransferOK, Burst
        <3>3. QED
            BY <2>3, <3>1, <3>2
    <2>6. CASE state_q = "WRITE_STATUS"
        <3>1. \/ mem = job_mem
              \/ JobIn /\ Aligned(descriptor_addr_q) /\ \E n \in 0 .. 16 : mem = StoredMem(n)
            <4>1. 16 \in 0 .. 16
                OBVIOUS
            <4>2. QED
                BY <2>6, <4>1 DEF LoadInv, Ending
        <3>2. QED
            BY <2>3, <2>4, <3>1
    <2>7. QED
        BY <1>5, <2>4, <2>5, <2>6 DEF TypeInv, JobOK
<1>6. QED
    BY <1>4, <1>5

LEMMA StartStarts ==
    ASSUME VerdictInv, NEW a \in DescriptorAddresses, StartDescriptor(a)
    PROVE  Service!Start
<1>1. /\ busy_q = FALSE /\ busy_q' = TRUE /\ done_q' = FALSE /\ descriptor_addr_q' = a
      /\ job_mem' = mem
    BY DEF StartDescriptor, VerdictInv
<1>2. QED
    BY <1>1, SameNames DEF Service!Start

\* The cycles of a job, and the others.
LEMMA CycleStutters ==
    ASSUME VerdictInv, Working \/ IdleTick \/ UNCHANGED vars
    PROVE  UNCHANGED Service!serviceVars
<1>1. CASE IdleTick \/ UNCHANGED vars
    <2>1. UNCHANGED <<busy_q, done_q, error_q, error_code_q, mem, job_mem, descriptor_addr_q>>
        BY <1>1 DEF IdleTick, vars, adapterVars, flagVars, jobVars
    <2>2. QED
        BY <2>1 DEF Service!serviceVars
<1>2. CASE Working
    <2>1. state_q # "IDLE"
        BY <1>2 DEF Working, MemStall, mem_valid, ReadDesc, ParseDesc, ReadPubSeed, ReadAddr, ReadInput,
           ReadFault, StartCore, WaitCore, CoreFinished, WriteOutput, WriteOutputFault, ReadStates,
           WriteStates
    <2>2. UNCHANGED <<busy_q, done_q, job_mem, descriptor_addr_q>>
        BY <1>2 DEF Working, MemStall, ReadDesc, ParseDesc, ReadPubSeed, ReadAddr, ReadInput,
           ReadFault, StartCore, WaitCore, CoreFinished, WriteOutput, WriteOutputFault, GoodRead,
           Fail, flagVars, jobVars
    <2>3. busy_q = TRUE /\ busy_q' = TRUE
        BY <2>1, <2>2 DEF VerdictInv
    <2>4. QED
        BY <2>2, <2>3 DEF Service!serviceVars
<1>3. QED
    BY <1>1, <1>2

(***************************************************************************)
(* Software sees a job of spx_descriptor_adapter as one step of the        *)
(* service, as far as safety goes: memory stays as it was at the start     *)
(* until the status is accepted, and holds then what the C reference of    *)
(* the descriptor computes from it and a status word with the verdict, or  *)
(* exactly what the service says an error, a failed write or a reset       *)
(* leaves there; for every memory, digest function, beat width, number of  *)
(* Keccak rounds, and any stalls, faults and resets.                       *)
(***************************************************************************)
THEOREM AdapterIsService ==
    Spec => Service!ServiceInit /\ [][Service!ServiceNext]_(Service!serviceVars)
<1>1. Init => Service!ServiceInit
    <2> SUFFICES ASSUME Init PROVE Service!ServiceInit
        OBVIOUS
    <2>1. /\ busy_q = FALSE /\ done_q = FALSE /\ error_q = FALSE /\ error_code_q = ERR_NONE
          /\ descriptor_addr_q = 0
        BY DEF Init, AdapterInit
    <2>2. QED
        BY <2>1, SameNames DEF Service!ServiceInit
<1>2. LoadInv /\ TypeInv /\ VerdictInv /\ [Next]_vars =>
         [Service!ServiceNext]_(Service!serviceVars)
    <2> SUFFICES ASSUME LoadInv, TypeInv, VerdictInv, [Next]_vars
                 PROVE  [Service!ServiceNext]_(Service!serviceVars)
        OBVIOUS
    <2>1. \/ \E a \in DescriptorAddresses : StartDescriptor(a)
          \/ Working \/ IdleTick \/ UNCHANGED vars
          \/ WriteStatus \/ WriteStatusFault \/ Reset
        BY DEF Next, Job, Working
    <2>2. Service!Start \/ Service!JobStep \/ Service!Abort \/ UNCHANGED Service!serviceVars
        BY <2>1, StartStarts, CycleStutters, StatusEnds, StatusFails, ResetAborts
    <2>3. QED
        BY <2>2 DEF Service!ServiceNext
<1>3. VerdictInv /\ [Next]_vars => VerdictInv'
    BY StepIsEngineStep
<1>4. QED
    BY <1>1, <1>2, <1>3, LoadHolds, TypesHold, VerdictInit, PTL DEF Spec
=============================================================================
