------------------------- MODULE DescriptorAdapter -------------------------
(***************************************************************************)
(* spx_descriptor_adapter: reads a descriptor and its buffers from memory, *)
(* runs the shared engine and writes the four digests and a status word    *)
(* back.  Every action but Reset is one clock cycle: the adapter's own     *)
(* registers change as the state's branch of the always_ff block says, and *)
(* both cores take their step of the same edge (EngineTick).               *)
(*                                                                         *)
(* Addresses count 32-bit words; a 16-byte boundary is a multiple of four. *)
(* The memory (external: a bus, or the testbench's array) may let a beat   *)
(* wait or answer it with an error; of a write answered with an error it   *)
(* is unknown whether it was stored.  Software does not touch memory while *)
(* a job runs.                                                             *)
(***************************************************************************)
EXTENDS SharedEngine

CONSTANTS MEM_WORDS_PER_CYCLE,
          InitialMemories,      \* what software has prepared
          DescriptorAddresses,  \* what software may pass to start
          MaxJobs, MaxStalls, MaxFaults, MaxResets   \* bounds of a run

W == MEM_WORDS_PER_CYCLE

ASSUMPTION AdapterAssumption ==
    /\ W \in {1, 2, 4}
    /\ MaxJobs \in Nat /\ MaxStalls \in Nat /\ MaxFaults \in Nat /\ MaxResets \in Nat
    /\ DescriptorAddresses \subseteq Nat
    /\ \A m \in InitialMemories : DOMAIN m \subseteq Nat

VARIABLES state_q,
          desc_word_q,          \* [Header -> word]
          descriptor_addr_q,
          cfg_q,                \* what PARSE_DESC keeps of the header
          transfer_word_q,
          buf_q,                \* pub_seed_q, addr_q, input_q
          busy_q, done_q, error_q, error_code_q,
          perf_q,               \* the four performance counters
          mem,                  \* [address -> word], external
          budget,               \* jobs, stalls, faults and resets so far
          job_mem               \* history: memory when the job was started

jobVars     == <<desc_word_q, descriptor_addr_q, cfg_q, buf_q>>
flagVars    == <<busy_q, done_q, error_q, error_code_q>>
adapterVars == <<state_q, transfer_word_q, jobVars, flagVars, perf_q, mem, budget, job_mem>>
vars        == <<adapterVars, engineVars>>

DESC_HEADER_WORDS == 8
PUB_SEED_WORDS    == 4
ADDR_WORDS        == 32
OUTPUT_WORDS      == 16

ReadStates  == {"READ_DESC", "READ_PUB_SEED", "READ_ADDR", "READ_INPUT"}
WriteStates == {"WRITE_OUTPUT", "WRITE_STATUS"}
States == ReadStates \cup WriteStates \cup {"IDLE", "PARSE_DESC", "START_CORE", "WAIT_CORE"}

Aligned(a) == a % 4 = 0

\* What the fields of a header can hold, and the start of a job as software
\* makes it (external): the words at an aligned address are a header, with
\* any contents, good or bad.
HeaderWord(w) ==
    CASE w = 0        -> [inline : BOOLEAN, done : BOOLEAN, error : BOOLEAN, code : Nat]
      [] w = 1        -> [op : Nat, variant : Nat, lanes : Nat, inblocks : 0 .. 3]
      [] w \in 2 .. 5 -> [ptr : Nat]
      [] w \in 6 .. 7 -> [bytes : [Lane -> Byte]]

Prepared(m, a) ==
    /\ a \in DOMAIN m
    /\ Aligned(a) => \A w \in Header : a + w \in DOMAIN m /\ m[a + w] \in HeaderWord(w)

----------------------------------------------------------------------------
(* The memory interface.                                                   *)

InputWordsPerLane == IF cfg_q.inblocks = 2 THEN 8 ELSE 4

BurstTotalWords ==
    CASE state_q = "READ_DESC"     -> DESC_HEADER_WORDS
      [] state_q = "READ_PUB_SEED" -> PUB_SEED_WORDS
      [] state_q = "READ_ADDR"     -> ADDR_WORDS
      [] state_q = "READ_INPUT"    -> 4 * InputWordsPerLane
      [] state_q = "WRITE_OUTPUT"  -> OUTPUT_WORDS
      [] state_q = "WRITE_STATUS"  -> W

\* The inline seed follows the header.
BurstBaseAddr ==
    CASE state_q \in {"READ_DESC", "WRITE_STATUS"} -> descriptor_addr_q
      [] state_q = "READ_PUB_SEED" -> IF cfg_q.inline THEN descriptor_addr_q + DESC_HEADER_WORDS
                                      ELSE cfg_q.seedPtr
      [] state_q = "READ_ADDR"     -> cfg_q.addrPtr
      [] state_q = "READ_INPUT"    -> cfg_q.inPtr
      [] state_q = "WRITE_OUTPUT"  -> cfg_q.outPtr

mem_valid == state_q \in ReadStates \cup WriteStates
mem_addr  == BurstBaseAddr + transfer_word_q

TransferWordNext == transfer_word_q + W
OneBeatMore      == TransferWordNext > BurstTotalWords    \* a fault
TransferLast     == TransferWordNext >= BurstTotalWords

\* The words of the burst that this beat carries; in the fault only the
\* first word of the beat is used.
FirstWordOnly == {transfer_word_q}
BeatWords == transfer_word_q .. transfer_word_q + W - 1
ReadWord(i) == mem[BurstBaseAddr + i]

FinalStatusWord ==
    [desc_word_q[0] EXCEPT !.done = TRUE, !.error = error_q, !.code = error_code_q]

mem_wdata(i) ==
    IF state_q = "WRITE_OUTPUT" THEN CoreOut(cfg_q.op)[i \div 4][i % 4]
    ELSE IF i = 0 THEN FinalStatusWord ELSE desc_word_q[i]

Written == [a \in DOMAIN mem |-> IF a - BurstBaseAddr \in BeatWords
                                 THEN mem_wdata(a - BurstBaseAddr) ELSE mem[a]]

----------------------------------------------------------------------------
(* The header in desc_word_q, and the tests PARSE_DESC makes of it.        *)

DescOpType     == desc_word_q[1].op
DescStartSteps == desc_word_q[6].bytes
DescNumSteps   == desc_word_q[7].bytes

OpTypeKnown == DescOpType \in {OP_TYPE_THASHX4, OP_TYPE_WOTS_CHAINX4,
                               OP_TYPE_WOTS_CHAINX4_MIXED}

CommonConfigOk == desc_word_q[1].lanes = 4 /\ desc_word_q[1].variant = 1

ConfigOk == /\ CommonConfigOk
            /\ WotsOp(DescOpType) \/ desc_word_q[1].inblocks \in {1, 2}

UniformWindowOk ==
    /\ DescNumSteps[1] \in 1 .. 15
    /\ DescNumSteps[0] \in 0 .. 15
    /\ DescNumSteps[0] + DescNumSteps[1] <= 16

\* A fault: the limit of the last step is off by one.
LooseMixedWindow ==
    \A l \in Lane : DescNumSteps[l] <= 15 /\ DescStartSteps[l] + DescNumSteps[l] <= 17

MixedWindowOk ==
    \A l \in Lane : /\ DescStartSteps[l] <= 16
                    /\ DescNumSteps[l] <= 15
                    /\ DescStartSteps[l] + DescNumSteps[l] <= 16

ChainOk == CASE DescOpType = OP_TYPE_WOTS_CHAINX4       -> UniformWindowOk
             [] DescOpType = OP_TYPE_WOTS_CHAINX4_MIXED -> MixedWindowOk
             [] OTHER                                   -> TRUE

\* The seed pointer is not looked at when the seed is inline; it is in the
\* fault.
EveryPointerAligned == \A w \in 2 .. 5 : Aligned(desc_word_q[w].ptr)
PointersAligned ==
    /\ \A w \in 3 .. 5 : Aligned(desc_word_q[w].ptr)
    /\ desc_word_q[0].inline \/ Aligned(desc_word_q[2].ptr)

ParseError ==
    IF ~OpTypeKnown THEN ERR_BAD_OP_TYPE
    ELSE IF ~ConfigOk THEN ERR_BAD_CONFIG
    ELSE IF ~ChainOk THEN ERR_BAD_CHAIN
    ELSE IF ~PointersAligned THEN ERR_BAD_ALIGN
    ELSE ERR_NONE

ParsedConfig ==
    [inline |-> desc_word_q[0].inline,
     op |-> DescOpType,
     inblocks |-> IF WotsOp(DescOpType) THEN 1 ELSE desc_word_q[1].inblocks,
     starts |-> DescStartSteps, nums |-> DescNumSteps,
     seedPtr |-> desc_word_q[2].ptr, addrPtr |-> desc_word_q[3].ptr,
     inPtr |-> desc_word_q[4].ptr, outPtr |-> desc_word_q[5].ptr]

----------------------------------------------------------------------------
(* Clock cycles.                                                           *)

ZeroBuffers == [seed |-> ZeroDigest, addr |-> [l \in Lane |-> ZeroWide],
                input |-> [l \in Lane |-> ZeroWide]]
ZeroConfig == [inline |-> FALSE, op |-> OP_TYPE_THASHX4, inblocks |-> 0,
               starts |-> [l \in Lane |-> 0], nums |-> [l \in Lane |-> 0],
               seedPtr |-> 0, addrPtr |-> 0, inPtr |-> 0, outPtr |-> 0]
ZeroPerf == [load |-> 0, core |-> 0, store |-> 0, total |-> 0]

AdapterInit ==
    /\ state_q = "IDLE"
    /\ desc_word_q = ZeroHeader
    /\ descriptor_addr_q = 0
    /\ cfg_q = ZeroConfig
    /\ transfer_word_q = 0
    /\ buf_q = ZeroBuffers
    /\ busy_q = FALSE /\ done_q = FALSE /\ error_q = FALSE /\ error_code_q = ERR_NONE
    /\ perf_q = ZeroPerf

Init ==
    /\ AdapterInit
    /\ EngineInit
    /\ mem \in InitialMemories
    /\ budget = [jobs |-> 0, stalls |-> 0, faults |-> 0, resets |-> 0]
    /\ job_mem = mem

Spend(what) == budget' = [budget EXCEPT ![what] = @ + 1]

\* Both cores' step of this clock edge.
EngineClock(clear) ==
    EngineTick(cfg_q.op, state_q = "START_CORE", cfg_q.inblocks,
               [seed |-> buf_q.seed, addr |-> buf_q.addr, in |-> buf_q.input,
                starts |-> cfg_q.starts, nums |-> cfg_q.nums], clear)

\* The total counts every cycle of a job, the others those of their states.
\* In the faults the total misses the cycles no other counter counts, and
\* the counters are not cleared between jobs.
CountBursts(counters) ==
    perf_q' = [c \in DOMAIN perf_q |->
                  IF c \in counters \/ (c = "total" /\ counters # {})
                  THEN perf_q[c] + 1 ELSE perf_q[c]]
KeepCounting == [perf_q EXCEPT !.total = 1]
PerfAtStart  == [ZeroPerf EXCEPT !.total = 1]
Count(counters) ==
    perf_q' = [c \in DOMAIN perf_q |-> IF c \in counters \cup {"total"}
                                       THEN perf_q[c] + 1 ELSE perf_q[c]]

\* An error stops the job; in the fault only its code is recorded.
NoteCode(code) ==
    /\ error_code_q' = code
    /\ UNCHANGED <<error_q, busy_q, done_q>>
Fail(code) ==
    /\ error_q' = TRUE
    /\ error_code_q' = code
    /\ UNCHANGED <<busy_q, done_q>>

\* IDLE with start low.
IdleTick ==
    /\ state_q = "IDLE"
    /\ EngineClock(FALSE)
    /\ UNCHANGED adapterVars

\* start && !busy_q.  Header registers, pointers and inblocks keep the
\* previous job's contents until PARSE_DESC.
StartDescriptor(a) ==
    /\ state_q = "IDLE" /\ ~busy_q
    /\ budget.jobs < MaxJobs /\ Spend("jobs")
    /\ descriptor_addr_q' = a
    /\ transfer_word_q' = 0
    /\ busy_q' = TRUE
    /\ done_q' = FALSE
    /\ error_q' = ~Aligned(a)
    /\ error_code_q' = IF Aligned(a) THEN ERR_NONE ELSE ERR_BAD_ALIGN
    /\ perf_q' = PerfAtStart
    /\ buf_q' = ZeroBuffers
    /\ cfg_q' = [cfg_q EXCEPT !.op = ZeroConfig.op, !.starts = ZeroConfig.starts,
                              !.nums = ZeroConfig.nums]
    /\ state_q' = IF Aligned(a) THEN "READ_DESC" ELSE "WRITE_STATUS"
    /\ job_mem' = mem
    /\ EngineClock(TRUE)
    /\ UNCHANGED <<desc_word_q, mem>>

\* A cycle of a burst in which the memory is not ready.
MemStall ==
    /\ mem_valid
    /\ budget.stalls < MaxStalls /\ Spend("stalls")
    /\ Count({IF state_q \in ReadStates THEN "load" ELSE "store"})
    /\ EngineClock(FALSE)
    /\ UNCHANGED <<state_q, transfer_word_q, jobVars, flagVars, mem, job_mem>>

\* The bookkeeping of an accepted beat; next is the state after the burst.
BeatAccepted(next) ==
    /\ state_q' = IF TransferLast THEN next ELSE state_q
    /\ transfer_word_q' = IF TransferLast THEN 0 ELSE TransferWordNext

GoodRead(next) ==
    /\ BeatAccepted(next)
    /\ Count({"load"})
    /\ EngineClock(FALSE)
    /\ UNCHANGED <<descriptor_addr_q, cfg_q, flagVars, mem, budget, job_mem>>

ReadDesc ==
    /\ state_q = "READ_DESC"
    /\ desc_word_q' = [w \in Header |-> IF w \in BeatWords THEN ReadWord(w) ELSE desc_word_q[w]]
    /\ GoodRead("PARSE_DESC")
    /\ UNCHANGED buf_q

ParseDesc ==
    /\ state_q = "PARSE_DESC"
    /\ cfg_q' = ParsedConfig
    /\ transfer_word_q' = 0
    /\ error_q' = (ParseError # ERR_NONE)
    /\ error_code_q' = ParseError
    /\ state_q' = IF ParseError = ERR_NONE THEN "READ_PUB_SEED" ELSE "WRITE_STATUS"
    /\ Count({})
    /\ EngineClock(FALSE)
    /\ UNCHANGED <<desc_word_q, descriptor_addr_q, buf_q, busy_q, done_q, mem, budget, job_mem>>

ReadPubSeed ==
    /\ state_q = "READ_PUB_SEED"
    /\ buf_q' = [buf_q EXCEPT !.seed =
                    [w \in Digest |-> IF w \in BeatWords THEN ReadWord(w) ELSE @[w]]]
    /\ GoodRead("READ_ADDR")
    /\ UNCHANGED desc_word_q

ReadAddr ==
    /\ state_q = "READ_ADDR"
    /\ buf_q' = [buf_q EXCEPT !.addr =
                    [l \in Lane |-> [w \in Wide |->
                        IF 8 * l + w \in BeatWords THEN ReadWord(8 * l + w) ELSE @[l][w]]]]
    /\ GoodRead("READ_INPUT")
    /\ UNCHANGED desc_word_q

\* Input lanes are compact: four or eight words each.
InputWord(l, w) == InputWordsPerLane * l + w
ReadInput ==
    /\ state_q = "READ_INPUT"
    /\ buf_q' = [buf_q EXCEPT !.input =
                    [l \in Lane |-> [w \in Wide |->
                        IF w < InputWordsPerLane /\ InputWord(l, w) \in BeatWords
                        THEN ReadWord(InputWord(l, w)) ELSE @[l][w]]]]
    /\ GoodRead("START_CORE")
    /\ UNCHANGED desc_word_q

\* A read beat answered with an error: its data is dropped.
ReadFault ==
    /\ state_q \in ReadStates
    /\ budget.faults < MaxFaults /\ Spend("faults")
    /\ Fail(ERR_MEM_READ)
    /\ state_q' = "WRITE_STATUS"
    /\ transfer_word_q' = 0
    /\ Count({"load"})
    /\ EngineClock(FALSE)
    /\ UNCHANGED <<jobVars, mem, job_mem>>

StartCore ==
    /\ state_q = "START_CORE"
    /\ state_q' = "WAIT_CORE"
    /\ Count({"core"})
    /\ EngineClock(FALSE)
    /\ UNCHANGED <<transfer_word_q, jobVars, flagVars, mem, budget, job_mem>>

WaitCore ==
    /\ state_q = "WAIT_CORE" /\ ~CoreDone(cfg_q.op)
    /\ Count({"core"})
    /\ EngineClock(FALSE)
    /\ UNCHANGED <<state_q, transfer_word_q, jobVars, flagVars, mem, budget, job_mem>>

\* The done cycle is counted by the total only.
CoreFinished ==
    /\ state_q = "WAIT_CORE" /\ CoreDone(cfg_q.op)
    /\ transfer_word_q' = 0
    /\ IF CoreError(cfg_q.op)
       THEN state_q' = "WRITE_STATUS" /\ Fail(ERR_BAD_CHAIN)
       ELSE state_q' = "WRITE_OUTPUT" /\ UNCHANGED flagVars
    /\ Count({})
    /\ EngineClock(FALSE)
    /\ UNCHANGED <<jobVars, mem, budget, job_mem>>

WriteOutput ==
    /\ state_q = "WRITE_OUTPUT"
    /\ mem' = Written
    /\ BeatAccepted("WRITE_STATUS")
    /\ Count({"store"})
    /\ EngineClock(FALSE)
    /\ UNCHANGED <<jobVars, flagVars, budget, job_mem>>

WriteOutputFault ==
    /\ state_q = "WRITE_OUTPUT"
    /\ budget.faults < MaxFaults /\ Spend("faults")
    /\ mem' \in {mem, Written}
    /\ Fail(ERR_MEM_WRITE)
    /\ state_q' = "WRITE_STATUS"
    /\ transfer_word_q' = 0
    /\ Count({"store"})
    /\ EngineClock(FALSE)
    /\ UNCHANGED <<jobVars, job_mem>>

\* The status beat ends the job, whatever the memory answers.
StatusAccepted ==
    /\ state_q = "WRITE_STATUS"
    /\ busy_q' = FALSE
    /\ done_q' = TRUE
    /\ state_q' = "IDLE"
    /\ Count({"store"})
    /\ EngineClock(FALSE)
    /\ UNCHANGED <<transfer_word_q, jobVars, job_mem>>

WriteStatus ==
    /\ StatusAccepted
    /\ mem' = Written
    /\ UNCHANGED <<error_q, error_code_q, budget>>

WriteStatusFault ==
    /\ StatusAccepted
    /\ budget.faults < MaxFaults /\ Spend("faults")
    /\ mem' \in {mem, Written}
    /\ error_q' = TRUE
    /\ error_code_q' = ERR_MEM_WRITE

\* rst_n low: every register of the adapter and of both cores, not memory.
Reset ==
    /\ budget.resets < MaxResets /\ Spend("resets")
    /\ state_q' = "IDLE"
    /\ desc_word_q' = ZeroHeader
    /\ descriptor_addr_q' = 0
    /\ cfg_q' = ZeroConfig
    /\ transfer_word_q' = 0
    /\ buf_q' = ZeroBuffers
    /\ busy_q' = FALSE /\ done_q' = FALSE /\ error_q' = FALSE /\ error_code_q' = ERR_NONE
    /\ perf_q' = ZeroPerf
    /\ EngineReset
    /\ UNCHANGED <<mem, job_mem>>

----------------------------------------------------------------------------
Job ==
    \/ ReadDesc \/ ParseDesc \/ ReadPubSeed \/ ReadAddr \/ ReadInput \/ ReadFault
    \/ StartCore \/ WaitCore \/ CoreFinished
    \/ WriteOutput \/ WriteOutputFault \/ WriteStatus \/ WriteStatusFault

Next ==
    \/ IdleTick
    \/ \E a \in DescriptorAddresses : Prepared(mem, a) /\ StartDescriptor(a)
    \/ MemStall
    \/ Job
    \/ Reset

\* The clock runs and the memory accepts a beat in the end.
Spec == Init /\ [][Next]_vars /\ WF_vars(Job)
============================================================================
