-------------------------- MODULE WotsChainX4Core --------------------------
(***************************************************************************)
(* spx_wots_chainx4_core: four WOTS+ chains walked in lockstep through one *)
(* external four-lane thash engine.  One step of WotsTick is one clock     *)
(* edge; its arguments are the input wires.  A lane whose count is used up *)
(* keeps its chain value and address while the others go on.               *)
(*                                                                         *)
(* wots_job and wots_trail are history variables: the job accepted last    *)
(* and, per lane, the chain values the lane has held since.                *)
(***************************************************************************)
EXTENDS SpxWords, Sequences

VARIABLES wots_state_q,    \* "IDLE", "START_THASH", "WAIT_THASH"
          wots_done,
          wots_error,
          wots_pub_seed_q,
          wots_addr_q,     \* [Lane -> address]
          chain_q,         \* [Lane -> 128-bit value]
          step_q,          \* [Lane -> step number]
          steps_left_q,    \* [Lane -> steps still to take]
          wots_out,        \* [Lane -> 128-bit value]
          wots_job,
          wots_trail

wotsRegs == <<wots_pub_seed_q, wots_addr_q, chain_q, step_q, steps_left_q>>
wotsVars == <<wots_state_q, wots_done, wots_error, wotsRegs, wots_out, wots_job, wots_trail>>

SPX_WOTS_W == 16

----------------------------------------------------------------------------
\* A job on the input wires: pub_seed, four addresses, four chain values and
\* the window (start step and count) of each lane.
StartConfigOk(job) ==
    \A l \in Lane : /\ job.start[l] <= SPX_WOTS_W
                    /\ job.num[l] <= SPX_WOTS_W - 1
                    /\ job.start[l] + job.num[l] <= SPX_WOTS_W

AnyStepsRequested(job) == \E l \in Lane : job.num[l] # 0

\* cfg_start_step and cfg_num_steps: bytes 0 and 1 of the second word are
\* start_step and num_steps, replicated, of a uniform job.
StartSteps(mixed, starts, nums) == IF mixed THEN starts ELSE [l \in Lane |-> nums[0]]
NumSteps(mixed, nums)           == IF mixed THEN nums ELSE [l \in Lane |-> nums[1]]

NoJob == [seed |-> ZeroDigest, addr |-> [l \in Lane |-> ZeroWide],
          in |-> [l \in Lane |-> ZeroDigest],
          start |-> [l \in Lane |-> 0], num |-> [l \in Lane |-> 0]]

wots_req_valid == wots_state_q = "START_THASH"

\* The request wires towards the thash engine.
WotsRequest ==
    [seed |-> wots_pub_seed_q, addr |-> wots_addr_q,
     in |-> [l \in Lane |-> ZeroExtend(chain_q[l])], inblocks |-> 1]

(* Faults a change of the machine could introduce: a finished lane counts *)
(* on or takes a response, an address keeps the old step or gets none at   *)
(* the beginning, all lanes are expected to end in the same cycle.         *)
NextStepForAll == [l \in Lane |-> step_q[l] + 1]
ResponseForAll(rsp) == rsp
StaleAddrNext  == [l \in Lane |-> AddrWithHash(wots_addr_q[l], step_q[l])]
PlainAddr(job) == job.addr
LanesEndTogether == \A l \in Lane : steps_left_q[l] = 1

\* What a response changes: only the lanes of active_mask move.
Active(l) == steps_left_q[l] # 0
StepsLeftNext  == [l \in Lane |-> IF Active(l) THEN steps_left_q[l] - 1 ELSE steps_left_q[l]]
StepNext       == [l \in Lane |-> IF Active(l) THEN step_q[l] + 1 ELSE step_q[l]]
ChainNext(rsp) == [l \in Lane |-> IF Active(l) THEN rsp[l] ELSE chain_q[l]]
AllStepsDoneNext == \A l \in Lane : StepsLeftNext[l] = 0
AddrBegin(job) == [l \in Lane |-> AddrWithHash(job.addr[l], job.start[l])]
AddrNext       == [l \in Lane |-> IF StepsLeftNext[l] # 0
                                   THEN AddrWithHash(wots_addr_q[l], StepNext[l])
                                   ELSE wots_addr_q[l]]

----------------------------------------------------------------------------
WotsInit ==
    /\ wots_state_q = "IDLE"
    /\ wots_done = FALSE
    /\ wots_error = FALSE
    /\ wots_pub_seed_q = ZeroDigest
    /\ wots_addr_q = [l \in Lane |-> ZeroWide]
    /\ chain_q = [l \in Lane |-> ZeroDigest]
    /\ step_q = [l \in Lane |-> 0]
    /\ steps_left_q = [l \in Lane |-> 0]
    /\ wots_out = [l \in Lane |-> ZeroDigest]
    /\ wots_job = NoJob
    /\ wots_trail = [l \in Lane |-> <<ZeroDigest>>]

\* rst_n low.
WotsReset ==
    /\ wots_state_q' = "IDLE"
    /\ wots_done' = FALSE
    /\ wots_error' = FALSE
    /\ wots_pub_seed_q' = ZeroDigest
    /\ wots_addr_q' = [l \in Lane |-> ZeroWide]
    /\ chain_q' = [l \in Lane |-> ZeroDigest]
    /\ step_q' = [l \in Lane |-> 0]
    /\ steps_left_q' = [l \in Lane |-> 0]
    /\ wots_out' = [l \in Lane |-> ZeroDigest]
    /\ wots_job' = NoJob
    /\ wots_trail' = [l \in Lane |-> <<ZeroDigest>>]

WotsRemember(job) ==
    /\ wots_job' = job
    /\ wots_trail' = [l \in Lane |-> <<job.in[l]>>]

WotsQuietTick(start) ==
    /\ wots_state_q = "IDLE" /\ ~start
    /\ wots_done' = FALSE
    /\ UNCHANGED <<wots_state_q, wots_error, wotsRegs, wots_out, wots_job, wots_trail>>

\* A window out of range: zeros, done and error in the next cycle.
WotsRefuseTick(start, job) ==
    /\ wots_state_q = "IDLE" /\ start
    /\ ~StartConfigOk(job)
    /\ wots_error' = TRUE
    /\ wots_done' = TRUE
    /\ wots_out' = [l \in Lane |-> ZeroDigest]
    /\ WotsRemember(job)
    /\ UNCHANGED <<wots_state_q, wotsRegs>>

\* No lane has a step to take: the inputs are the outputs.
WotsCopyTick(start, job) ==
    /\ wots_state_q = "IDLE" /\ start
    /\ StartConfigOk(job)
    /\ ~AnyStepsRequested(job)
    /\ wots_error' = FALSE
    /\ wots_done' = TRUE
    /\ wots_out' = job.in
    /\ WotsRemember(job)
    /\ UNCHANGED <<wots_state_q, wotsRegs>>

WotsBeginTick(start, job) ==
    /\ wots_state_q = "IDLE" /\ start
    /\ StartConfigOk(job)
    /\ AnyStepsRequested(job)
    /\ wots_error' = FALSE
    /\ wots_done' = FALSE
    /\ wots_state_q' = "START_THASH"
    /\ wots_pub_seed_q' = job.seed
    /\ wots_addr_q' = AddrBegin(job)
    /\ chain_q' = job.in
    /\ step_q' = job.start
    /\ steps_left_q' = job.num
    /\ WotsRemember(job)
    /\ UNCHANGED wots_out

WotsRequestTick(ready) ==
    /\ wots_state_q = "START_THASH"
    /\ wots_state_q' = IF ready THEN "WAIT_THASH" ELSE "START_THASH"
    /\ wots_done' = FALSE
    /\ UNCHANGED <<wots_error, wotsRegs, wots_out, wots_job, wots_trail>>

WotsWaitTick(rspValid) ==
    /\ wots_state_q = "WAIT_THASH" /\ ~rspValid
    /\ wots_done' = FALSE
    /\ UNCHANGED <<wots_state_q, wots_error, wotsRegs, wots_out, wots_job, wots_trail>>

WotsResponseTick(rspValid, rsp) ==
    /\ wots_state_q = "WAIT_THASH" /\ rspValid
    /\ chain_q' = ChainNext(rsp)
    /\ step_q' = StepNext
    /\ steps_left_q' = StepsLeftNext
    /\ wots_addr_q' = AddrNext
    /\ wots_out' = IF AllStepsDoneNext THEN ChainNext(rsp) ELSE wots_out
    /\ wots_done' = AllStepsDoneNext
    /\ wots_state_q' = IF AllStepsDoneNext THEN "IDLE" ELSE "START_THASH"
    /\ wots_trail' = [l \in Lane |-> IF Active(l) THEN Append(wots_trail[l], rsp[l])
                                     ELSE wots_trail[l]]
    /\ UNCHANGED <<wots_error, wots_pub_seed_q, wots_job>>

WotsTick(start, job, ready, rspValid, rsp) ==
    \/ WotsQuietTick(start)
    \/ WotsRefuseTick(start, job)
    \/ WotsCopyTick(start, job)
    \/ WotsBeginTick(start, job)
    \/ WotsRequestTick(ready)
    \/ WotsWaitTick(rspValid)
    \/ WotsResponseTick(rspValid, rsp)
============================================================================
