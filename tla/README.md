# Verification of the SPHINCS+ batch coprocessor

TLA+ models, TLC runs and TLAPS proofs for the four-lane SPHINCS+ hash
coprocessor of this repository: the Keccak and thash cores, the WOTS+ chain
core, the descriptor adapter that runs jobs out of memory, the memory shim below
it, the instruction path above it up to the polling program, the older register
wrapper with its two prototype adapters, and the C code the hardware serves: the
SPHINCS+ reference with its batched and vectorised variants, the software models
of the hardware, and the planner's counts.  Paths below are relative to the
repository (`src/`).

## 1. The system

Software prepares a *descriptor* and operand buffers in memory and hands the
descriptor's address to the coprocessor through CV-X-IF instructions.  The
coprocessor reads descriptor and operands, computes four lanes of SHAKE256
thash (one call, or a whole WOTS+ chain per lane), writes four digests and a
status word back, and software polls for the end.

```
 software (smoke tests)                         software model (C)
   | CV-X-IF issue/commit/result                  descriptor_ext_model.c
   v                                              wots_chainx4_model.c ...
 spx_cvxif_real_adapter -> spx_cvxif_desc_adapter
                             | start, busy, done, error
                             v
                           spx_descriptor_adapter ----> memory port
                             |        |                  (spx_mem_master_shim
                             |  spx_wots_chainx4_core     -> bus)
                             |        | request/response
                             +--> spx_thashx4_core -> spx_keccakx4_core
                                                        -> spx_keccak_round x4

 spx_cvxif_adapter | spx_cvxif_adapter_coarse  (prototypes)
   -> spx_cop_wrapper (registers) -> spx_thashx4_core

 sign.c -> merkle.c, fors.c, wots.c -> utilsx1/x2/x4/x8.c -> thash*, hash*
   -> fips202*, sha2*, haraka*        batch_scheduler.c counts, spx_model/ predicts
```

### Inventory

| component | state it keeps | operations | what makes it correct |
|---|---|---|---|
| Keccak core `rtl/core/spx_keccakx4_core.sv` | busy, round counter, four states, done pulse | load, round, finish | exactly the rounds 0..23, in order, of the state loaded; done once |
| thash core `rtl/core/spx_thashx4_core.sv` | three-state machine, absorbed blocks, output, done pulse | start, hand over to Keccak, wait | every request taken is answered once, with its own digests; requests are seen in idle only |
| WOTS chain core `rtl/core/spx_wots_chainx4_core.sv` | three-state machine, per lane chain value, address, step, steps left; done, error | begin / refuse / copy a job, request, response | every lane is the scalar chain of its own window although all lanes share one request |
| descriptor adapter `rtl/cvxif/spx_descriptor_adapter.sv` | ten-state machine, header, operands, parsed configuration, flags, four performance counters, busy flag of the shared engine | start, four read bursts, parse, start core, wait, two write bursts, every error path | a job does to memory what the C model computes, or reports what went wrong; it always ends; nothing of one job reaches the next |
| C model of a descriptor `sw/spx_model/descriptor_ext_model.c`, `wots_chainx4_model.c` | none (pure) | execute a descriptor | the reference of the hardware |
| memory shim `rtl/mem/spx_mem_master_shim_mock.sv` | idle / wait for response, held request | forward a beat, hold it for a late response | one bus request per beat; the beat is accepted with its own response |
| descriptor control adapter `rtl/cvxif/spx_cvxif_desc_adapter.sv` | descriptor address, sticky done / error / code, last value of done | SET_DESC, START, STATUS, CLEAR, WAIT | a completion is neither lost nor reported twice; START is dropped while busy |
| CV-X-IF adapter `rtl/cvxif/spx_cvxif_real_adapter.sv` | five-state machine, pending instruction, pending result | issue, commit, kill, forward, result | a killed instruction has no effect, a committed one exactly one, with one result of its id |
| register wrapper `rtl/wrapper/spx_cop_wrapper.sv` | operand, configuration, status and output registers | read, write, start | writes wait while busy, error and done flags are those of the last command and job |
| prototype adapters `rtl/cvxif/spx_cvxif_adapter*.sv` | pending instruction, pending command | translate instructions into wrapper commands | one response per instruction |
| public-key grouping `sw/spx_model/wots_pk_grouping_model.c` | none (pure) | pack chains four per descriptor, statistics | every chain in exactly one lane, a short last group never a uniform descriptor |
| SPHINCS+ reference `sw/sphincsplus/ref/` | buffers of a call; the state of an incremental hash | make keys, sign, open; trees, chains, FORS; thash, prf, message hash of three families; incremental hashing; eighteen parameter sets | a signature is the one the standard defines; what was signed opens and nothing else does; no address hashes two things |
| batched SPHINCS+ paths `sw/sphincsplus/ref/wotsx1.c`, `fors.c`, `thashx4_shake_simple.c` | buffers of a call | leaves and trees by fours with scalar tails | the same signature as the scalar code |
| parallel variants `sw/sphincsplus/shake-avx2/`, `shake-a64/`, `sha2-avx2/`, `haraka-aesni/` | buffers of a call | two, four or eight leaves, chains, hashes side by side | the same signature and the same digests as the reference |
| batch counters `batch_scheduler.c` | counters by region | record a batch, record left-over calls, reset | every call is counted once |
| schedule model `sw/spx_model/sign_schedule_model.c` | none (pure) | counts and cycle estimates of a signature | the counts are those of the work |
| profiling `sw/sphincsplus/ref/profile.c` | counters, clocks | classify, record, print | a call falls into one class |
| Keccak round, Keccak C model, permutations of `fips202.c` and `keccak4x/` | none (pure) | theta..iota on 1600 bits | equal functions, tables included |
| smoke tests, testbenches, synthesis scripts | - | drive the above | out of the model, but for the polling protocol; they fix the environment's behaviour |

### What is hard here

* **Pulses between clocked machines.**  Every start and done is a one-cycle
  pulse looked at in one state only.  A machine that is a cycle early or late
  loses it and the system hangs, since nothing has a timeout.
* **One engine, two users.**  Since phase 4.2b the adapter and the chain core
  share one thash engine, multiplexed by the operation register and guarded by
  a busy flag that is set and cleared from the two ends of a request.
* **Lockstep lanes.**  Lanes with windows of different lengths share each
  request; a finished lane must hold while the others go on.
* **Faults in the middle of a job.**  Any beat of six bursts may wait or fail,
  including the last output beat and the status beat itself; a reset may fall
  into any cycle.
* **What the previous job left.**  Registers are cleared at different moments
  of the next job; some only when its header has been parsed.
* **Completion is an edge.**  The engine holds done until the next start; the
  control adapter turns its rise into a sticky completion, which START and CLEAR
  of the same cycle erase.
* **Speculation.**  The core issues before it knows whether an instruction
  stays; commits and kills of other ids pass by.
* **Duplicated decisions.**  The window of a chain is checked in the adapter
  and again in the core, in different words, and a third time in C.
* **One function, many codes.**  Each hash and each tree exists two to five
  times: scalar, batched by four with tails, two, four and eight lanes, with the
  padding put into the words of a state by hand.  Test vectors pass one
  parameter set through one code.
* **Addresses edited in place.**  One 32-byte address is moved through layers,
  trees, chains and types by setters of single fields; what a setter does not
  clear stays.
* **Boundaries of blocks.**  A call that fills a block, a message that ends with
  one, a length that just does not fit: six incremental hashes decide it each in
  its own words.

`PROJECT.json` lists these at their lines under `hazards`, with the properties
that would show each going wrong.

## 2. Modules

| module | models | kind |
|---|---|---|
| `SpxWords` | words, lanes, address edits, chain step, header fields (`spx_thashx4_pkg.sv`, header layout of the adapter) | definitions |
| `ThashX4` | what one four-lane thash call absorbs and returns (`thash_shake_simple.c`, `absorb_state` of the core) | definitions |
| `ThashServer` | **abstract**: an engine that takes one request at a time and answers it | specification |
| `ThashX4Core` | `spx_thashx4_core` with `spx_keccakx4_core` inside | component |
| `ThashX4Alone` | that pair with free inputs; refinement of `ThashServer` | composition |
| `ThashX4Proof` | theorems about `ThashX4Alone` | proofs |
| `WotsChainX4Core` | `spx_wots_chainx4_core` | component |
| `WotsChainX4Alone` | the chain core in front of *any* `ThashServer` | composition |
| `WotsChainX4Proof` | theorems about `WotsChainX4Alone` | proofs |
| `SharedEngine` | the multiplexer, busy flag and both cores of the adapter | composition |
| `DescriptorAdapter` | `spx_descriptor_adapter`: all states, bursts, errors, reset | component |
| `DescriptorService` | **abstract**: one atomic job on memory, and what a descriptor computes after the C model and scalar chains | specification |
| `DescriptorAdapterProps` | properties of the adapter and the refinements of `DescriptorService` and `DescEngine` | properties |
| `DescEngine` | **abstract**: what the control side sees of an engine (start, busy, done, verdict) | specification |
| `CvxifDescAdapter` | `spx_cvxif_desc_adapter` | component |
| `DescControlAlone` | the control adapter over *any* `DescEngine`, any instruction in any cycle | composition |
| `CvxifRealAdapter` | `spx_cvxif_real_adapter` | component |
| `XifAlone` | the CV-X-IF adapter between a core and a unit, both free within the protocol | composition |
| `XifProof` | theorems about `XifAlone` | proofs |
| `Offload` | polling program, core, both adapters and any `DescEngine` | composition |
| `OffloadProof` | theorems about `Offload` | proofs |
| `MemPort` | **abstract**: the memory port as `DescriptorAdapter` uses it | specification |
| `MemShim` | `spx_mem_master_shim_mock`, between a port and a bus; refinement of `MemPort` | component |
| `BridgesProof` | theorems about `DescControlAlone` and `MemShim` | proofs |
| `DescriptorAdapterProof` | theorems about `DescriptorAdapter` with both cores | proofs |
| `CopWrapper` | `spx_cop_wrapper` over any `ThashServer` | component |
| `PrototypePath` | `spx_cvxif_adapter`, `spx_cvxif_adapter_coarse` or raw commands, over the wrapper | composition |
| `CopRegisterFile` | **abstract**: a file of words that answers instructions | specification |
| `PrototypeProof` | theorems about `PrototypePath` | proofs |
| `WotsGrouping` | `wots_pk_grouping_model.c` and the chains of `wots_chainx4_model.c` under it | component |
| `KeccakRounds` | one permutation after the RTL, the C model, `fips202.c` and `KeccakP-1600-times4-SIMD256.c` | component |
| `WotsDigits` | the digits and the checksum WOTS+ signs (`wots.c`), and what they give away | component |
| `SoftwareProof` | theorems about `WotsGrouping`, `KeccakRounds`, `WotsDigits` and `SpxStreams` | proofs |
| `SpxParams` | the eighteen parameter headers and the address offsets | definitions |
| `SpxStreams` | sponges and SHA-2, incremental, at one go, in lanes, seeded | component |
| `SpxHash` | thash, prf, randomness and message hash of every family, one to eight lanes | component |
| `SpxTrees` | addresses, chains, hash trees, FORS, scalar, batched and in lanes; the batch counters | definitions |
| `SpxSign` | `sign.c` for each of the builds, and a carrier that may damage what it carries | component |
| `SpxStandard` | what keys and signatures are by definition, and what they cost | properties |
| `MC*` | values of the constants for TLC | |

The compositions meet at abstract specifications, so that no run needs the whole
system at once:

```
 Offload, DescControlAlone  use  DescEngine         <- implemented by DescriptorAdapter (adapter_1w, proved)
 DescriptorAdapter          uses a port like MemPort <- implemented by MemShim and a bus (shim_alone, proved)
 WotsChainX4Alone           uses ThashServer        <- implemented by ThashX4Core (thash_alone, proved)
 software                   sees DescriptorService  <- implemented by DescriptorAdapter (adapter_*, proved)
 CopWrapper                 uses ThashServer        <- implemented by ThashX4Core
 prototype's host           sees CopRegisterFile    <- implemented by PrototypePath (prototype, proved)
 SpxSign, SpxTrees          use a hash by name      <- computed as SpxHash and SpxStreams show (software)
```

`DescControlAlone` and `MemShim` need no values a configuration cannot
write and are run without an MC module.  `MCSoftware` holds the six machines of
the software (grouping, permutation, streams, hashes, signing, digits); they share
nothing, so each behaviour picks one of them (`part`) and leaves the others parked.

### How state and actions correspond to the code

*Registers* keep their RTL names.  The two machines of the thash core and its
Keccak core both have `done`, so they are prefixed (`thash_done`,
`keccak_done`, `wots_done`), and the adapter's configuration registers are the
fields of `cfg_q`, its operand registers those of `buf_q`, its four counters
those of `perf_q`.

*A step is one clock edge.*  Right hand sides read the registers before the
edge, primed variables are the nonblocking assignments, so the machines see
each other's pulses exactly as late as in the RTL.  In `DescriptorAdapter` each
action is one branch of the `always_ff` conjoined with `EngineClock`, the same
edge in both cores; there is no step in which one machine moves and another
stands still.  The machines of the instruction path and the shim are operators
`...Tick` over the wires of a cycle; a composition chooses the wires it leaves
free and connects the others (`Offload!Hardware` is the netlist of the two
adapters and the engine).  The end of an action's chain of cases is explicit: a beat that
waits (`MemStall`), fails, is not the last, is the last.

*Data* is kept by origin.  A 32-bit word of an operand is a record naming where
it came from and its most significant byte (which the address edit and the
padding touch); digests are terms built by the constant `Thash`.  Words of the
header are records of their fields.  The Keccak state is the absorbed block and
the list of round numbers applied so far, so a digest is right only if rounds
0..Rounds-1 were applied in this order; the permutation itself is not modelled
here.

*The software* is sequential; what its actions are is a question of what one wants
to look between.  In `SpxSign` they are the calls of the library (make a key,
sign, open) and the carrier's; `SpxStreams` has one for each incremental call;
`WotsGrouping` one for each group counted and each executed; `KeccakRounds` one for each turn of
a code's loop.  `SpxHash` makes one call of one function.  Loops that a caller cannot
look into are folds or recursive functions with the code's index.

Data is what tells two computations apart.  In `SpxTrees` a buffer of N bytes is a
term - the function, the address as far as that function reads it, the inputs -
and an address is its 32 bytes, written field by field by the code's setters, so
that a left-over field is seen.  A callback (`gen_leaf`) is known by its name, as
is the code of a build (`ref`, `batch`, `x2`, `x4`, `x8`).  Memory the code leaves uninitialised
is filled with `garbage` of the run's choice.  In `SpxStreams` and `SpxHash` a byte is the set of names
XORed into it, and a permutation or compression is known by the blocks given so
far: a wrong pad, place, order, count or seed shows as another term.  `KeccakRounds` works
on the bits themselves: a word is the set of its one bits.  A hash is therefore
an ideal one, determined by exactly what it was given and never colliding.

The digest of a message is split into FORS leaves, tree and leaf before `SpxSign`
looks at it: `DigestsOf` chooses them, and any other message, key, randomness or
root has another digest.

*The wrapper* shows three hosts (`adapter`: fine, coarse, bare), one instruction
in a cycle; a word the host writes is known by its number, of which only the bits the
configuration and status registers look at are used.

*History variables* are named in the module headers: `wots_job` (the job
accepted last), `wots_trail` (the values a lane has held), `job_mem` (memory
at the start of a job), `fresh` and `started` (completions as a program counts
them), `asked` and `ran` (what an id was issued for, how often it was run), `gRoots` (what a signature
signed on the way up) and `jobs` (what the engine was started on and how it ended).  They are never read
by a guard.

*Environment.*  Software may start a job whenever the adapter is not busy and
leaves memory alone meanwhile, as the smoke tests and testbenches do.  It starts it
on a descriptor (`Prepared`): at an aligned address are eight words whose fields
hold whatever they can hold, good or bad; at any other, anything.  Memory
may let a beat wait, or answer it with an error; of a write answered with an
error the model leaves open whether it was stored.  The bus and the memory
array are not under the adapter's control and are external.

The core offers instructions under ids that are free, and commits or kills an
issued one in a *later* cycle, as `tb_cv32e40x_spx_core_smoke.sv` checks (it stops
on a commit of an id that is not outstanding yet); a commit in the cycle of the
issue would not be seen by the adapter.  The id of an instruction that was not
accepted is killed or committed like the others.  In `Offload` the program is
`run_case` of the smoke tests: clear, set the descriptor, start (which must answer
busy), poll until done, clear.  Their limit of 50000 polls is left out.

## 3. Runs

| run | module | what it asks | bounds |
|---|---|---|---|
| `thash_alone` | `MCThashX4Alone` | does the engine, its inputs free in every cycle, answer exactly what it took? | `Rounds` = 4; requests with every `inblocks` |
| `wots_alone` | `MCWotsChainX4Alone` | is every lane the scalar chain of its window, over any engine that keeps its promise, and does each job end? | seven jobs: both ends of the chain, mixed windows, the longest window, each limit exceeded by one |
| `adapter_1w` | `MCDescriptorAdapter` | every kind of job, every refusal, aliased buffers, a stall and a fault at any beat | one word per beat, one job, one stall, one fault |
| `adapter_4w` | `MCDescriptorAdapter` | does a job disturb the next? | four words per beat, two jobs, one stall, one fault |
| `adapter_2w_reset` | `MCDescriptorAdapter` | does a reset in any cycle leave the cores ready for the next job? | two words per beat, two jobs, one fault, one reset |
| `control_alone` | `DescControlAlone` | is a completion ever lost, doubled or mixed up with another job's? | two addresses, two error codes; any number of jobs and resets |
| `xif_alone` | `MCXifAlone` | does an instruction run only when committed, once, and come back with its own result? | three ids, six kinds of offer; any number of instructions and resets |
| `offload` | `MCOffload` | does the polling program read the verdict of its own jobs, and finish? | two descriptors, two wrong-path instructions, two error codes |
| `shim_alone` | `MemShim` | is the shim with a bus behind it the port the adapter is modelled with? | two addresses, two values; any number of beats and resets |
| `prototype` | `MCPrototypePath` | is the wrapper under either prototype adapter, or bare, the register file of its documents? | three hosts, a few words, every register kind, any number of instructions, jobs and resets |
| `software` | `MCSoftware` | do all the codes compute what the standard defines, and does the plan count what they do? | below |
| `doc_alignment` | `MCDescriptorAdapter` | is the alignment that the document asks for the one the code enforces? | as `adapter_1w` without stall and fault |

The properties, in the order of their weight:

* `ImplementsService` — the whole adapter with both cores implements
  `DescriptorService`: memory after a job is what the reference computes from
  memory before it (scalar chains, scalar thash, output overlapping the input
  or the descriptor included), or the job reports one of the reasons that
  really apply to the descriptor; partial output only with a write error; and
  every job ends.  The reference is written from the C model, not from the RTL.
* `ImplementsServer` — the thash core implements `ThashServer`.  `wots_alone`
  uses only that promise, so its results hold for this engine.
* `ChainsAreScalar`, `RequestIsNextStep`, `DoneIsEndOfChain` — lockstep equals
  four scalar chains.
* `EngineAtRest`, `BusyFlagExact` — no start or done is lost or taken twice
  across jobs and resets; the first is asked by `adapter_2w_reset`, where a reset
  falls into any cycle.
* `Handshake` — the same inside the engine, and rounds in order.
* `WindowChecksAgree` — adapter and chain core agree on windows.
* `PerfAccounting`, `CoreCyclesAreLatency` — the documented counter formulas; the
  first is asked by `adapter_4w`, where two jobs follow each other.
* `StallHoldsRequest` — a beat the memory has not accepted does not change.
* `JobAnswered` — a begun chain job ends.
* `ImplementsEngine`, `ImplementsPort` — the two joints of the decomposition:
  the adapter is an engine as the control path expects it, and the shim is a
  memory as the adapter expects it, liveness included.
* `ReportIsOfThisJob`, `ProgramFinishes`, `StartAnswersBusy` — end to end: one
  job per committed START, on the address set before, nothing for killed
  instructions; the program leaves its polling loop with the outcome of that
  very job and gets through all of them.
* `StatusIsFresh`, `BusyOrDone` — what a status read shows in any cycle is the
  completion since the last CLEAR or START, and between a START and the next
  CLEAR exactly one of busy and done.
* `RunsOnceAfterCommit`, `ResultIsOwn`, `CommittedRetires` — the CV-X-IF
  contract, in every order of issue, commit, kill, readiness and answers.
* `OneOutstanding` — the bus never has more than the request of the beat
  offered, still on its wires.
* `ImplementsRegisterFile` — whatever the host offers and whenever the engine
  ends, every instruction of the prototypes is answered once, with what the
  registers held when it was taken, and every job ends.  The coarse adapter answers a write
  before the wrapper does and leaves that response on the wires.
* `JobIsOfRegisters` — while the wrapper is busy its registers are those of the
  job: writes are held back, reads are not.
* `SignatureIsStandard` — root, every part of a signature and every root signed
  on the way are those of the standard's definition, in all five codes.  The
  definition makes each node from nothing under the address of its place; the
  code goes over the leaves once, in batches, and edits its addresses.
* `OpensWhatWasSigned` — a signature opens to its message under its key, and
  damaged, exchanged, lengthened or cut off it does not, and the buffer is cleared.
* `AddressesSeparate` — of all that a signature hashes no two things have the
  same address in the bytes the hash reads (22 of 32 in SHA-2).
* `DigitsNeverDominate` — of two digests neither has all chain lengths at least
  as large as the other's, so that no chain of one signature gives another.
* `HashesAreDefined`, `StreamsAreStandard` — each lane of each vectorised hash is
  the scalar hash, and that is its definition; incremental hashing is hashing at
  one go, however the input is cut.
* `KeccakAgrees` — four codes of the permutation have the state of the standard
  after every turn of their loops: the RTL's round, the C model's, the two rounds
  unrolled in `fips202.c`, the vector code's with parities prepared a round ahead.
* `GroupingIsScalar` — any chains, packed by four, give what they give alone,
  and the statistics say what was packed.
* `WorkMatchesSchedule` — the planner's closed formulas are the numbers of hashes
  a signature makes, class by class, and the batch counters account for each.

`doc_alignment` is a disagreement between a document and the code:
`docs/phase3_2_descriptor_adapter.md` asks for alignment to the beat width, the
adapter asks for 16 bytes whatever the width.  The run ends with a job refused
for alignment although all its addresses are multiples of the beat.

A smaller disagreement needs no run: the C model accepts a uniform chain job of
zero steps and copies its input, the adapter (and
`docs/phase4_1_wots_chain_descriptor.md`) refuses it with `ERR_BAD_CHAIN`.
`DescriptorService` allows the refusal explicitly.

Another is in a header: `ref/api.h:39,47` gives the public key as
`[root || PUB_SEED]`; `sign.c` (its comments at lines 52 and 85, and its code)
stores `PUB_SEED || root`, and so does `SpxSign`.

### Bounds, and why they are enough

* `Rounds` is 3 or 4 instead of 24.  The round counter is only compared with
  its last value; one round would merge the first and the last, three keep a
  first, a middle and a last one.  The proofs are for every `Rounds`.
* Addresses count words, so 16-byte alignment is a multiple of four.  Offsets
  within a word cannot be expressed; the code tests bits 3..0 together.
* The 32-bit wrap of an address and of the counters is left out: a burst has at
  most 32 words and buffers lie inside memory; a counter would wrap after 2^32
  cycles of one job.
* One fault per run: after the first fault a job performs no further beat
  except the status beat; a second fault can only be that of the status beat
  (`adapter_1w` reaches the status beat's own fault; a fault at the status
  beat after an earlier one ends in the same registers).
* One stall per run: a stalled cycle changes counters and the cores only, and
  the cores are at rest during bursts (`EngineAtRest`).
* Two jobs: a third would find what the second found, registers of one job.
* `control_alone`, `xif_alone` and `shim_alone` have no bound on the length of a
  run: their state is finite.  Three ids are one instruction in the adapter and
  two that were refused or wait for their commit beside it.
* `offload` runs two jobs: the second finds done still up and the completion of
  the first.  Two killed instructions can both fall between any two of the
  program's.
* Chain jobs of up to three steps in the adapter; `wots_alone` has those of 15.
* `prototype` has no bound on the length of a run.  `StreamAddr` bounds where the
  host lets the pointer stream: one place of each register block and the holes.
* `software`, signing: hashes of two bytes (four message digits and two of the
  checksum), two layers of trees of height three, three FORS trees of sixteen
  leaves.  Six chains leave a tail of two behind a batch of four and none of
  eight can be full; eight leaves are one, two or four groups of the lanes; the FORS
  levels go down to fewer than four parents.  Both address layouts, eight builds
  of five codes, three digests with leaves inside and at the end, trees at the start and inside, digits 0 and 15;
  ten places of a signature are damaged, one of each kind.
* `software`, hashes: thash and prf for the three lengths of a hash in each
  family, thash of one, two, three and five values (the keys' 35 to 67 go through the same
  loops); randomness and message hash for all eighteen sets, with messages
  that end short of a block, at its end and behind it.  Streams take the lengths around
  their blocks and around the room for the bit count (`MCPieces`, `MCWholes`).  `MaxCalls` = 2 absorbing and two squeezing calls: the state
  between calls is a position in a block, and the lengths put it at 0, inside
  and at the end.
* `software`, permutation: all 24 rounds on all 1600 bits, of the zero state and
  of one whose words differ.  Every bit takes part in a round, so an offset or a
  constant that differs shows.
* `software`, grouping: `MaxChains` = 5, one full group and one of one, of five
  windows: longest, two at the end, none, refused, short.
* `software`, digits: every sum of the message digits for hashes of 16, 24 and 32
  bytes.

### Fairness

* The clock runs and memory eventually accepts or refuses a beat: `WF_vars(Job)`
  in `DescriptorAdapter`, where stalls are bounded by `MaxStalls`.  Without an
  accepting memory the adapter waits for ever; it has no timeout.  Starting a
  job and reset carry no fairness.
* `ThashX4Alone`: weak fairness of the clock only; a machine's progress follows.
* `WotsChainX4Alone`: weak fairness of the clock, of taking an offered request,
  and of answering, the last two being what the engine promises
  (`EveryRequestAnswered`) and what the adapter's busy flag permits
  (`BusyFlagExact`).
* `XifAlone`: a unit that is ready again and again and answers what it took, a
  core that takes an offered result.  Nothing obliges the core to issue or to
  commit.
* `Offload`: the clock, the core's next transaction, and the end of each engine
  job, which `ImplementsEngine` gives for the adapter.
* `MemShim`: the bus takes a request that is held and answers what it took.
* `DescControlAlone` has none; its properties are safety.

* `PrototypePath`: the clock, where anything waits for it, and the engine's answer.
* The software's machines have none; their properties are safety.

Deadlock is checked in every run except `software`: its machines stop when the
call under study has returned.

## 4. Proofs

The proofs use these assumptions on constants, which TLC evaluates on the runs:

* `RoundsAssumption`: at least one Keccak round.
* `JobsAssumption`: the windows of a chain job come in bytes, which is what the packed
  words hold.
* `AdapterAssumption`: a beat is one, two or four words (the RTL has no other);
  addresses are natural numbers, those of memory too; the bounds are numbers.
* `OffloadAssumption`: the program has at least one descriptor, at an address.
* `InstructionsAssumption`: what a host offers is an operation its adapter decodes, or the
  one that stands for all others, with a word of the host; a raw command names no
  destination.
* `WindowsAssumption`: a caller's chain windows are unsigned numbers.
* `KeccakInputsAssumption`: what is permuted is a state of twenty-five 64-bit words.
* `DigitSetsAssumption`: the sets of parameters have the lengths the headers derive from
  `SPX_N`, which they refuse outside 2 .. 256.
* `IdsAssumption`: ids are finitely many numbers.
* `LengthsAssumption`: the lengths a caller may hash, feed or ask for are natural
  numbers.  That the bits of a SHA-2 message are counted in 64 bits is a guard
  (`Countable`), as in the standard.

Nothing is assumed of `Thash`, of the requests, of operands, of the range of the
windows, of what a descriptor's fields or the rest of memory hold, or of error codes.

`ThashX4Proof`, for every number of rounds, digest function and requests:

* `TypeCorrect` — `Spec => []TypeOK`.
* `HandshakeHolds` — `Spec => []Handshake`.
* `EngineIsServer` — `Spec => Server!ServerSafety`: initial states map to
  initial states and every clock edge maps to taking, rejecting, answering or
  a quiet step of the abstract server.

The inductive invariant is `TypeOK /\ Handshake /\ AbsorbOK`.  Type correctness
alone does not survive a step: that the round counter stays below `Rounds`
needs to know that a start arrives in Keccak's idle state only.  `Handshake`
relates the two machines (Keccak works exactly while the thash core waits, and
its done pulse falls into that state) and says that the rounds applied are
those before the counter.  `AbsorbOK` adds that Keccak's state was absorbed
from the blocks of the open request.  With it the three cases of an edge
(`IdleTick`, `StartTick`, `WaitTick`) each map to one action of the server; the
digest is right since a done pulse implies that all rounds were applied.

`WotsChainX4Proof`, for every digest function, every set of jobs and any engine
that keeps the server's promise:

* `TypeCorrect` — `Spec => []TypeOK`.
* `RequestsCorrect` — `Spec => []RequestIsNextStep`.
* `LockstepIsScalar` — `Spec => []ChainsAreScalar`.
* `DoneCorrect` — `Spec => []DoneIsEndOfChain`.

The inductive invariant is `TypeOK /\ MachineInv /\ EngineInStep`.  The three
properties are not inductive by themselves.  `WindowFits` says that a job at work
passed `StartConfigOk`, without which step numbers could pass W.
`TrailFollowsCount` ties the number of values a lane has held to its remaining
count and its chain register to the last of them; a response extends the trails
of the active lanes only, and that the step number the engine hashed under is
the one the scalar chain expects follows from `RequestIsNextStep`.
`EngineInStep` says that what the engine works on, or has just answered, is the
machine's present request: the machine takes the answer by a valid bit alone.
There is one lemma per clock edge (quiet, refuse, copy, begin, request, wait,
response) and under it one step per conjunct; the response takes the most, lane
by lane, active or finished.

`BridgesProof`, for every set of addresses and error codes and any engine
that behaves as `DescEngine`, hence over the adapter by `AdapterIsEngine`:

* `StatusCorrect` — `Spec => []StatusIsFresh`.
* `PollCorrect` — `Spec => []BusyOrDone`.

The inductive invariant is `TypeInv /\ CompletionInv`.  A completion is in one of
three places: nowhere, on its way (done has risen and the adapter has not seen
the rise), or kept in the sticky flags, then with the engine's verdict
unchanged.  That an engine at work has done low is what makes the next end a
rise again.  There is one lemma per step of the engine (begin, work, finish,
rest), each over every instruction that may arrive in the same cycle.

`XifProof`, for every set of ids and instructions, any core and any unit that
keep the protocol:

* `RunsOnce` — `Spec => []RunsOnceAfterCommit`.
* `ResultsOwn` — `Spec => []ResultIsOwn`.

Neither property is inductive: `RunsOnceAfterCommit` says nothing of which id
the adapter holds, so the forwarding of an id killed long ago would not
contradict it.  The invariant `StageInv` has one disjunct per state of the adapter, saying
at what stage of its life the id in `pending_q` is, how often the unit ran for it, that
the pending fields are those it was issued with, what the unit works on, and
that every other id is outside the adapter with nothing run for it.  There is
one lemma per state; `AsideStays` deals with issues, commits and kills of other ids
in the same cycle.

`OffloadProof`, for every sequence of descriptors, any error codes and any number
of killed instructions, over any engine that behaves as `DescEngine`, hence over the
adapter by `AdapterIsEngine`:

* `StartIsAnswered` — `Spec => []StartAnswersBusy`.
* `ReportIsCorrect` — `Spec => []ReportIsOfThisJob`.

The invariant joins the stages of `XifProof` and the completions of
`BridgesProof`, for the two ids the core uses, with the place the program is at:
its job is not begun (`Ahead`), begun (`Under`: at work, just ended, or kept in the
sticky flags) or read to its end (`Over`).  What makes it more than the sum of its parts
is that a killed SET_DESC, START or CLEAR may sit in the CV-X-IF adapter at each of these
places, and that the START of a second job finds done still up from the first.

`DescriptorAdapterProof`, for every number of rounds, beat width, set of
descriptor addresses, contents of memory, digest function and bound on stalls,
faults and resets:

* `AtRest`, `FlagExact` — `Spec => []EngineAtRest`, `Spec => []BusyFlagExact`.
* `WindowsAgree` — `Spec => []WindowChecksAgree`.
* `StallsHold` — `Spec => StallHoldsRequest`.
* `CountersAddUp` — `Spec => []PerfAccounting`.
* `AdapterTypes` — `Spec => []TypeOK`, hence that no burst passes its last word.
* `Latency` — `Spec => []CoreCyclesAreLatency`.
* `LoadHolds` — `Spec => []LoadInv`: the registers hold what has been read of the
  operands, memory what has been stored of the output.
* `AdapterIsService` — the safety half of `ImplementsService`: initial states and steps
  of the adapter are those of `DescriptorService`.  The service's memory stays as it
  was until the status is accepted; then it holds what the C reference computes and a
  status word with the verdict, or exactly what the service says an error, a failed
  write or a reset leaves.
* `AdapterIsEngine` — initial states and steps of the adapter are those of
  `DescEngine`, so that what `BridgesProof` shows over any engine holds over
  this one.

The invariant is `EnginePhase /\ ParsedFits`.  `EnginePhase` pairs the adapter's state
with those of the chain machine, the thash core and Keccak: all at rest outside
WAIT_CORE; inside it, for a thash job the core open and the flag up, for a chain
job one of three phases (about to request, waiting, done).  `EngineAtRest` alone is not
inductive: when WAIT_CORE is left the cores are at rest only because the done
pulse is shown in a state from which they have nothing left to do.  `ParsedFits` carries
the window PARSE_DESC accepted over the operand bursts to the start, where the chain
core looks at it again; it is what makes a refusal impossible.  Each machine's edge
has its lemmas (rest stays rest, work goes on, the answer shows once); the thirteen steps that leave the cores alone are one case
(`CalmStep`).  The counters have an invariant of their own on top, `PerfInv`; a job
that the core refused would count otherwise, so they rest on `WindowsAgree`'s
invariant.

The refinement of the service takes three more layers, each an invariant over
the ones before:

* `TypeInv` types the registers, bounds each burst by its length (`TransferOK`) and
  keeps, from the start of a job to its output, memory as software prepared it (`JobOK`).
* `CoreInv` says what a core at work is computing.  For thash, that the engine
  stands `e` cycles into the request of this job (`ThashAt`).  For chains, that some
  number `k` of answers has come, that each lane holds its value after as many of them
  as are its own (`LanesAt`), and that the core counter is `Cost(k)` and the cycles since
  (`ChainsAt`).  `Latency` falls out of the same invariant as the digests.
* `LoadInv` says that the first `n` words of the burst under way are those of memory, and
  that memory with the first `n` words stored is `StoredMem(n)`, where the words are
  of the result, not of what a later read of an overlapping input would give; and how a
  job has come to its status write (`Ending`).

The value of a whole chain is a recursive function in `DescriptorService`, and proving
anything of it takes an induction.  The library's theorems with a predicate as a parameter
cannot be instantiated here, but that every set of numbers has a least element follows
from those about well-founded relations as *sets*; `Least` and `Induct` derive from
it an induction over a set of numbers, `ChainsAgree` that chains of two lengths agree where both are defined, and
`ScalarChainNext` the step the machine takes.  With `FinalMem` for what the service's
atomic step leaves, the theorem is one lemma per way a job can end.

`BridgesProof` again, for every set of addresses and data, any requester that holds
its beat and any bus that answers in order:

* `OneRequest` — `Spec => []OneOutstanding`.
* `ShimIsPort` — initial states and steps of shim and bus are those of `MemPort`.

The invariant says that while the shim waits its held request, the bus's only one
and the beat still offered are the same, and that otherwise the bus has none.

`PrototypeProof`, for every set of instructions (`InstructionsAssumption`) and every
digest function:

* `JobsCorrect` — `Spec => []JobIsOfRegisters`, inductive with the types of the
  flags.  The lemma that carries it is `FlagsOfCycle`: whatever the command, the busy
  flag falls only at the end of a job and rises only with a start that is served.
* `FileIsServed` — the safety half of `ImplementsRegisterFile`: initial states and
  steps of wrapper and adapter are those of `CopRegisterFile`.

The second goes from the wrapper outwards: its registers as words under addresses,
what each command makes of the words (a write, a clear, a start, a read, each against
the file's), what each of the two adapters makes of its instructions, and last the edge,
where a job that ends leaves its digests before the instruction is served.  The
invariant `Adapted` adds to `JobIsOfRegisters` that an adapter that waits for a response has one
on its wires, that none issues a start while the wrapper is busy, and that the bare
host has no adapter state at all.

`SoftwareProof`, of the software that packs chains for the chain machine, for any number
of chains and any windows:

* `GroupingCorrect` — `GroupingSpec => []GroupingIsScalar`.

`MixedModelIs` says that the lockstep model gives four chains the values they have by
definition; it goes over the turns of the loop with a closed form of what each has done
(`Turned`: a lane past its window keeps its value *and* the address of its last step).
`ScalarModelIs` does it for the reference, lane by lane.  `GroupingInv` is about prefixes of the
caller's array: after `n` groups its first `4 * n` chains, or all, have been looked at,
added up, or executed.

Of the Keccak rounds, from *every* state of 1600 bits:

* `KeccakCorrect` — `RoundsSpec => []KeccakAgrees`: the engine's rounds, the C model's, the
  unrolled ones of `fips202.c` and those of the vector library pass through the states of
  the standard, round by round (the unrolled two by two).

The standard gives its tables by rules and the codes write them out.  So the
first half of the proof runs the rules: the walk of rho turn by turn
(`RhoOffsetIs`), and the shift register to each of the 168 states from which a bit of a
round constant is read (`StartsAre`, `ConstantsAre`).  With the tables equal, the second half
is for any state: `OneRound` says of each word where it came from, how far it was
turned and which words were mixed in, and each code's round is brought to that form:
the loops by their indices, the unrolled rounds word by word, the vector code by the
column parities it carries from one round to the next, which are part of the
invariant `RoundsInv`, and by byte shuffles that must be the rotations by 8 and 56.

Of the digits that WOTS+ signs, for every length of a digest that the headers allow:

* `NoDigestDominates` — of two different digests each has a smaller digit somewhere, in
  the message or in the checksum.  Whoever knows a value of a chain can hash it on
  but not back, so this is what keeps a signature from being that of another digest.
* `DigitsCorrect` — `DigitsSpec => []DigitsNeverDominate`.

`CsumFalls` is the induction over the loop that adds the checksum up: digits that are
nowhere smaller and somewhere larger leave less.  `ChecksumIs` says that the digits of the
checksum are worth exactly what was added up: none of it is lost in the bytes, which needs that
the largest sum fits the two, three or four digits the header reserves (`15 * 2 * n`
below 256 up to `n` = 8, below 4096 up to 136), and that the shift puts an odd number
of digits at the top.  Of two numbers in the same number of digits the smaller has a smaller
digit (`WorthFalls`).  `NoDigestDominates` takes any two digests; the run takes one
for every sum, and `DigitsCorrect` says that the run's question has the same answer
for every parameter set, `CsumOfSum` being what the loop makes of the run's digests.

Of the hash streams, for every length of a message, every cut of it into calls, every
number of calls and every way to ask for the output:

* `StreamsCorrect` — `StreamsSpec => []StreamsAreStandard`: the incremental sponges, those that
  hash at one go, alone or in lanes, and the SHA-2 of `sha2.c`, `sha256x8.c` and
  `sha512x4.c`, seeded or not, give the permutation or compression the padded message of
  the standard and nothing else, and a sponge's output is its rate, byte after byte.

The inductive invariant `StreamsInv` says what an incremental stream holds between two
calls.  `StreamsAreStandard` alone says nothing while a stream absorbs, and of one that is
squeezed not how much of its last block is still to be taken.  While it absorbs, a
sponge has given away the full blocks of what it was fed and has the `n < r` bytes behind
them in its state (`Absorbs`); while it is squeezed, `q` full blocks, the padded one and
zeros have gone in for `p` permutations, and `left < r` bytes of the last are not taken
yet (`Squeezes`: taken and left make `p` blocks).  `AbsorbIs` and
`SqueezeIs` show that a call of any length keeps this, turn by turn of its loop, and that a call
that ends a block leaves none of it behind.  `OneShotIs` brings the hash at one go, with
its last block built beside the state, to the same closed form, and `StandardSpongeIs`
the standard's.  For SHA-2, `MessageBlocks` cuts a message into whole blocks and a
rest; `TailIs` is what the standard makes of the rest, in one block or two;
`BesideIs` (incremental, a padded copy of the rest) and `InPlaceIs` (parallel, in the lane's own
block) are what the codes make of it.  The bit count needs that the shifts the two codes
use agree (`ShiftBits`: a count of bits, shifted, is one of bytes shifted by three less)
and that what is above 64 bits is zero, which is where `Countable` comes in.

Only model-checked:

* liveness (`EveryRequestAnswered`, `JobAnswered`, `EveryJobEnds`, `CommittedRetires`,
  `ProgramFinishes`, the liveness halves of the refinements), which is beyond the
  prover under fairness;
* of `software`, `HashesAreDefined`, `SignatureIsStandard`, `OpensWhatWasSigned`, `AddressesSeparate` and `WorkMatchesSchedule`.  They are about
  operators that recurse over data and are declared `RECURSIVE`, or share a module
  with such, which the provers cannot use.

## 5. Not modelled

* Inside one call of a primitive: the SHA-2 compression, the Haraka
  permutation and its bit-sliced and AES-NI codes, `tweak_constants`, and the
  assembly of `f1600x2.s`.  They are pure functions of a fixed block, without
  state or order to get wrong, and their arithmetic on 32-bit words is the province of test
  vectors; in `SpxStreams` they are named.  The Keccak permutation is modelled
  since the repository writes it four times, once in hardware.  Of the vector
  library the 12-round permutation and the fast loops, which nothing here calls,
  are left out.
* How a message digest is cut into FORS leaves, tree and leaf (`hash_message`'s last
  lines): `SpxHash` ends with the bytes, `SpxSign` begins with the numbers.
* Cycle estimates (`sign_schedule_model.c`, the three of
  `descriptor_ext_model.c`): products of modelled counts with constants.
* Profiling counters, clocks and printing; `randombytes`; test programs.
* Real bus protocols: the shim's bus is the mock bus of the testbenches, with
  requests and responses in order.
* A reset that reaches the shim but not a bus with an open request: all parts
  share `rst_n` in this repository.
* SPX_WAIT behaves as STATUS in the control adapter and is not decoded by the
  CV-X-IF adapter, so no program reaches it.
* Testbenches and synthesis scripts, and of the smoke tests all but the polling
  protocol: drivers and reports without state of their own that matters here.

## 6. What could follow

* `HashesAreDefined` for every length of a hash and every message, from `StreamsCorrect`:
  each function is one call of a stream on a buffer that has to be shown to hold the
  definition's bytes.
* The SHA-2 compression against a definition, word for word, should the
  hardware ever take it over.
