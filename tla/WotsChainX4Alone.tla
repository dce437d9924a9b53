-------------------------- MODULE WotsChainX4Alone --------------------------
(***************************************************************************)
(* The WOTS chain machine in front of a thash engine of which only the     *)
(* promise of ThashServer is known: it may let a request wait, and answer  *)
(* it after any number of cycles.  The environment may raise start in any  *)
(* cycle, also while the machine is busy, with any job on the wires.       *)
(***************************************************************************)
EXTENDS WotsChainX4Core, ThashServer

CONSTANT Jobs              \* records seed, addr, in, start, num

\* The windows come in bytes.
ASSUMPTION JobsAssumption ==
    \A job \in Jobs : job.start \in [Lane -> Byte] /\ job.num \in [Lane -> Byte]

vars == <<wotsVars, serverVars>>

Init == WotsInit /\ ServerInit

Clock(start, job, ready) == WotsTick(start, job, ready, answered, answer)

\* The engine is ready and takes the request that is offered.
RequestTaken ==
    /\ wots_req_valid
    /\ Accept
    /\ pending' = AbsorbX4(WotsRequest)
    /\ \E start \in BOOLEAN, job \in Jobs : Clock(start, job, TRUE)

\* The engine is not ready, or ready with nothing offered.
NothingTaken ==
    /\ Quiet
    /\ \E start \in BOOLEAN, job \in Jobs : Clock(start, job, FALSE)

EngineAnswers ==
    /\ Respond
    /\ \E start \in BOOLEAN, job \in Jobs : Clock(start, job, FALSE)

Tick == RequestTaken \/ NothingTaken \/ EngineAnswers

\* The clock runs, and the engine takes and answers what is asked of it.
Spec == /\ Init /\ [][Tick]_vars
        /\ WF_vars(Tick)
        /\ WF_vars(RequestTaken)
        /\ WF_vars(EngineAnswers)

----------------------------------------------------------------------------
(***************************************************************************)
(* Type of the control registers; eight bits hold every counter.           *)
(***************************************************************************)
TypeOK ==
    /\ wots_state_q \in {"IDLE", "START_THASH", "WAIT_THASH"}
    /\ wots_done \in BOOLEAN
    /\ wots_error \in BOOLEAN
    /\ step_q \in [Lane -> 0 .. SPX_WOTS_W]
    /\ steps_left_q \in [Lane -> 0 .. SPX_WOTS_W - 1]

(***************************************************************************)
(* The request that is offered or being served is the next step of every   *)
(* lane that has one to take: the address carries the job's address with   *)
(* the number of that step, which is below W, and the step number and the  *)
(* remaining count move together.  Lanes with different windows share one  *)
(* request, so a lane that finished early must not shift another's number. *)
(***************************************************************************)
RequestIsNextStep ==
    wots_state_q # "IDLE" =>
        /\ wots_pub_seed_q = wots_job.seed
        /\ \E l \in Lane : Active(l)
        /\ \A l \in Lane :
              /\ steps_left_q[l] \in 0 .. wots_job.num[l]
              /\ step_q[l] = wots_job.start[l] + wots_job.num[l] - steps_left_q[l]
              /\ Active(l) => /\ step_q[l] < SPX_WOTS_W
                              /\ wots_addr_q[l] = AddrWithHash(wots_job.addr[l], step_q[l])

(***************************************************************************)
(* Every lane's chain values are those of the scalar chain of its own      *)
(* input, address and window: each one is the thash of the one before it   *)
(* under the next hash step.  A response taken twice, taken by a lane that *)
(* is finished, or computed under another step number would break it.      *)
(***************************************************************************)
ChainsAreScalar ==
    \A l \in Lane :
        /\ wots_trail[l][1] = wots_job.in[l]
        /\ \A k \in 1 .. Len(wots_trail[l]) - 1 :
              wots_trail[l][k + 1] = ChainStep(wots_job.seed, wots_job.addr[l],
                                               wots_job.start[l] + k - 1, wots_trail[l][k])

(***************************************************************************)
(* When the machine reports done without error, every lane has taken       *)
(* exactly the number of steps it was asked for and its output is the end  *)
(* of its chain, whatever the windows of the other lanes.                  *)
(***************************************************************************)
DoneIsEndOfChain ==
    wots_done /\ ~wots_error =>
        \A l \in Lane : /\ Len(wots_trail[l]) = wots_job.num[l] + 1
                        /\ wots_out[l] = wots_trail[l][Len(wots_trail[l])]

\* A job that is begun ends: at most W-1 requests are made for it.
JobAnswered == wots_state_q = "START_THASH" ~> wots_done
============================================================================
