----------------------- MODULE DescriptorAdapterProps -----------------------
(***************************************************************************)
(* What must be true of the descriptor adapter.                            *)
(***************************************************************************)
EXTENDS DescriptorAdapter

(***************************************************************************)
(* Type of the control registers and counters.                             *)
(***************************************************************************)
TypeOK ==
    /\ state_q \in States
    /\ transfer_word_q \in 0 .. 31
    /\ busy_q \in BOOLEAN /\ done_q \in BOOLEAN /\ error_q \in BOOLEAN
    /\ error_code_q \in 0 .. 6
    /\ cfg_q.inblocks \in 0 .. 3
    /\ perf_q \in [{"load", "core", "store", "total"} -> Nat]
    /\ shared_thash_busy_q \in BOOLEAN

(***************************************************************************)
(* The engine is at rest in every cycle in which the adapter does not wait *)
(* for it: a start pulse, which both cores look at in their idle state     *)
(* only, is never lost, and no late done pulse of one job ends another.    *)
(* While the adapter waits, something is under way that will answer it.    *)
(***************************************************************************)
EngineAtRest ==
    IF state_q # "WAIT_CORE" THEN EngineIdle
    ELSE CoreDone(cfg_q.op) \/ thash_state_q # "IDLE" \/ wots_state_q # "IDLE"

(***************************************************************************)
(* The busy flag that holds back the WOTS machine's requests says what it  *)
(* stands for: it is up exactly while the thash engine has a request, or   *)
(* shows its done pulse.  An engine taken for free would lose a request.   *)
(***************************************************************************)
BusyFlagExact == shared_thash_busy_q <=> (thash_state_q # "IDLE" \/ thash_done)

(***************************************************************************)
(* The two copies of the chain-window check agree: the WOTS machine never  *)
(* refuses a job PARSE_DESC let through, so ERR_BAD_CHAIN is always found  *)
(* before any operand is read.                                             *)
(***************************************************************************)
WindowChecksAgree == state_q = "WAIT_CORE" => ~CoreError(cfg_q.op)

(***************************************************************************)
(* docs/phase3_2_descriptor_adapter.md: the total counts the load, core    *)
(* and store cycles, the start cycle, the parse cycle and the handoff      *)
(* cycle, whatever stalls and errors occurred; a job that ends early       *)
(* counts the cycles it went through.                                      *)
(***************************************************************************)
Overhead ==
    CASE state_q = "READ_DESC" -> {1}
      [] state_q = "PARSE_DESC" -> {1}
      [] state_q \in {"READ_PUB_SEED", "READ_ADDR", "READ_INPUT", "START_CORE", "WAIT_CORE"} -> {2}
      [] state_q = "WRITE_OUTPUT" -> {3}
      [] state_q = "WRITE_STATUS" -> IF error_q /\ error_code_q # ERR_MEM_WRITE THEN {1, 2} ELSE {3}
      [] state_q = "IDLE" -> IF ~done_q THEN {0} ELSE IF error_q THEN {1, 2, 3} ELSE {3}

PerfAccounting ==
    \E o \in Overhead : perf_q.total = perf_q.load + perf_q.core + perf_q.store + o

(***************************************************************************)
(* docs/phase4_2b_shared_engine.md: the core counter of a finished job is  *)
(* 27 for a thash job and 28 n + 1 for chains of which the longest takes n *)
(* steps (24 rounds).  Memory stalls never count as core cycles, and lanes *)
(* of different lengths cost what the longest costs alone.                 *)
(***************************************************************************)
ChainCycles ==
    LET counts == NumSteps(cfg_q.op = OP_TYPE_WOTS_CHAINX4_MIXED, cfg_q.nums)
    IN  {(Rounds + 4) * counts[l] + 1 :
            l \in {l \in Lane : \A k \in Lane : counts[k] <= counts[l]}}

CoreCyclesAreLatency ==
    done_q /\ ~error_q =>
        perf_q.core \in IF WotsOp(cfg_q.op) THEN ChainCycles ELSE {Rounds + 3}

(***************************************************************************)
(* A beat the memory has not accepted stays as it was offered: address,    *)
(* direction and write data do not change during a stall, although the     *)
(* write data comes straight from the core's output registers.             *)
(***************************************************************************)
Offered == [addr |-> mem_addr, we |-> state_q \in WriteStates,
            data |-> IF state_q \in WriteStates THEN [i \in BeatWords |-> mem_wdata(i)] ELSE <<>>]

StallHoldsRequest ==
    [][budget'.stalls # budget.stalls => Offered' = Offered]_vars

(***************************************************************************)
(* The job as software sees it is one step of the abstract service: memory *)
(* stays as it was at the start until the status is accepted, and is then  *)
(* what the reference computes from it, for every kind of job, error and   *)
(* beat width; and every job started ends.                                 *)
(***************************************************************************)
Service == INSTANCE DescriptorService
             WITH BeatWidth <- W, Addresses <- DescriptorAddresses,
                  smem   <- IF busy_q THEN job_mem ELSE mem,
                  sbusy  <- busy_q, sdone <- done_q,
                  serror <- IF busy_q THEN FALSE ELSE error_q,
                  scode  <- IF busy_q THEN ERR_NONE ELSE error_code_q,
                  sdesc  <- descriptor_addr_q

ImplementsService == Service!ServiceSpec

(***************************************************************************)
(* Seen through start, busy, done, error and code alone, the adapter is    *)
(* the engine the control path is modelled with: done falls with a start,  *)
(* stays up with an unchanged verdict until the next one, and rises at the *)
(* edge at which busy falls, for every start.                              *)
(***************************************************************************)
Engine == INSTANCE DescEngine
            WITH ErrorCodes <- 1 .. 6, desc_busy <- busy_q, desc_done <- done_q,
                 desc_verdict <- [error |-> error_q, code |-> error_code_q]

ImplementsEngine == Engine!DescSpec

(***************************************************************************)
(* docs/phase3_2_descriptor_adapter.md: "The adapter requires descriptor   *)
(* and buffer pointers to be aligned to the active memory beat width".     *)
(* The code asks for 16 bytes whatever the width.                          *)
(***************************************************************************)
BeatAligned(a) == a % W = 0

AlignmentIsBeatWidth ==
    done_q /\ error_code_q = ERR_BAD_ALIGN =>
        \/ ~BeatAligned(descriptor_addr_q)
        \/ \E w \in 2 .. 5 : ~BeatAligned(desc_word_q[w].ptr)
============================================================================
