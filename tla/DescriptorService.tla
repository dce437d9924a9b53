------------------------- MODULE DescriptorService -------------------------
(***************************************************************************)
(* What software may rely on when it starts a descriptor: the job is one   *)
(* step.  It reads memory as it was at the start and leaves there the      *)
(* reference output and the status word, or a status word that says why    *)
(* not; nothing else of memory changes.  What a failed write or a reset    *)
(* leaves behind is said exactly.                                          *)
(***************************************************************************)
EXTENDS ThashX4

CONSTANTS BeatWidth,       \* words the status write carries
          Addresses        \* descriptor addresses software may pass

VARIABLES smem,            \* memory
          sbusy, sdone, serror, scode,
          sdesc            \* the descriptor being worked on

serviceVars == <<smem, sbusy, sdone, serror, scode, sdesc>>

----------------------------------------------------------------------------
(***************************************************************************)
(* The C reference of one descriptor, spx_descriptor_model_execute, as a   *)
(* function of memory: what it refuses and the four digests it computes.   *)
(* The WOTS chains are those of the scalar reference, lane by lane.        *)
(***************************************************************************)
DigestAt(m, a) == [i \in Digest |-> m[a + i]]
WideAt(m, a)   == [i \in Wide |-> m[a + i]]

\* The descriptor as the C structure has it; the seed of an inline
\* descriptor follows its header.
Desc(m, a) ==
    [op |-> m[a + 1].op, lanes |-> m[a + 1].lanes, variant |-> m[a + 1].variant,
     inblocks |-> m[a + 1].inblocks,
     pub_seed_ptr |-> IF m[a].inline THEN a + 8 ELSE m[a + 2].ptr,
     addr_base_ptr |-> m[a + 3].ptr, input_base_ptr |-> m[a + 4].ptr,
     output_base_ptr |-> m[a + 5].ptr,
     start_step |-> m[a + 7].bytes[0], num_steps |-> m[a + 7].bytes[1],
     start_steps |-> m[a + 6].bytes, lane_num_steps |-> m[a + 7].bytes]

ValidChainWindow(start, num) == start <= 16 /\ num <= 15 /\ start + num <= 16

DescriptorConfigOk(d) == d.lanes = 4 /\ d.variant = 1

\* Whether execute returns 0.
Executes(d) ==
    /\ DescriptorConfigOk(d)
    /\ CASE d.op = OP_TYPE_THASHX4      -> d.inblocks \in {1, 2}
         [] d.op = OP_TYPE_WOTS_CHAINX4 -> ValidChainWindow(d.start_step, d.num_steps)
         [] d.op = OP_TYPE_WOTS_CHAINX4_MIXED ->
               \A l \in Lane : ValidChainWindow(d.start_steps[l], d.lane_num_steps[l])
         [] OTHER -> FALSE

\* The digests it stores at output_base_ptr, lane after lane.
ThashOutput(m, d) ==
    [l \in Lane |-> Thash([seed |-> DigestAt(m, d.pub_seed_ptr),
                           addr |-> WideAt(m, d.addr_base_ptr + 8 * l),
                           msg  |-> [i \in 0 .. 4 * d.inblocks - 1 |->
                                        m[d.input_base_ptr + 4 * d.inblocks * l + i]]])]

ChainOutput(m, d, starts, nums) ==
    [l \in Lane |-> ScalarChain(DigestAt(m, d.pub_seed_ptr),
                                WideAt(m, d.addr_base_ptr + 8 * l),
                                starts[l], nums[l],
                                DigestAt(m, d.input_base_ptr + 4 * l))]

Output(m, d) ==
    CASE d.op = OP_TYPE_THASHX4 -> ThashOutput(m, d)
      [] d.op = OP_TYPE_WOTS_CHAINX4 ->
            ChainOutput(m, d, [l \in Lane |-> d.start_step], [l \in Lane |-> d.num_steps])
      [] d.op = OP_TYPE_WOTS_CHAINX4_MIXED ->
            ChainOutput(m, d, d.start_steps, d.lane_num_steps)

----------------------------------------------------------------------------
Align(a) == a % 4 = 0

\* What is wrong with the descriptor; the uniform operation, unlike its C
\* reference, refuses a chain of no steps.
Reasons ==
    LET d == Desc(smem, sdesc)
        Ops == {OP_TYPE_THASHX4, OP_TYPE_WOTS_CHAINX4, OP_TYPE_WOTS_CHAINX4_MIXED}
    IN  {code \in 1 .. 6 :
            CASE code = ERR_BAD_OP_TYPE -> d.op \notin Ops
              [] code = ERR_BAD_CONFIG  -> \/ ~DescriptorConfigOk(d)
                                           \/ d.op = OP_TYPE_THASHX4 /\ ~Executes(d)
              [] code = ERR_BAD_CHAIN   -> /\ WotsOp(d.op) /\ DescriptorConfigOk(d)
                                           /\ \/ ~Executes(d)
                                              \/ d.op = OP_TYPE_WOTS_CHAINX4 /\ d.num_steps = 0
              [] code = ERR_BAD_ALIGN   -> \E p \in {d.pub_seed_ptr, d.addr_base_ptr,
                                                     d.input_base_ptr, d.output_base_ptr} : ~Align(p)
              [] OTHER                  -> FALSE}

\* Memory with the first n words of the reference output stored.
WithOutput(n) ==
    LET d   == Desc(smem, sdesc)
        out == Output(smem, d)
        stored == d.output_base_ptr .. d.output_base_ptr + n - 1
    IN  IF n = 0 THEN smem
        ELSE [a \in DOMAIN smem |-> IF a \in stored
                                    THEN out[(a - d.output_base_ptr) \div 4][(a - d.output_base_ptr) % 4]
                                    ELSE smem[a]]

\* The status beat repeats the header's words and sets the status fields.
StatusBeat == sdesc .. sdesc + BeatWidth - 1
WithStatus(m, error, code) ==
    [a \in DOMAIN m |->
        IF a = sdesc THEN [smem[a] EXCEPT !.done = TRUE, !.error = error, !.code = code]
        ELSE IF a \in StatusBeat THEN smem[a] ELSE m[a]]

----------------------------------------------------------------------------
(* How a job can end: the words of output stored, and the verdict.         *)

Completed == [stored |-> 16, error |-> FALSE, code |-> ERR_NONE]
Refused(code) == [stored |-> 0, error |-> TRUE, code |-> code]
OutputFailed(n) == [stored |-> n, error |-> TRUE, code |-> ERR_MEM_WRITE]

Outcomes ==
    IF ~Align(sdesc) THEN {}
    ELSE IF Reasons # {} THEN {Refused(code) : code \in Reasons}
    ELSE {Completed} \cup {OutputFailed(n) : n \in 0 .. 16}

ServiceInit ==
    /\ sbusy = FALSE /\ sdone = FALSE /\ serror = FALSE /\ scode = ERR_NONE
    /\ sdesc = 0

Start ==
    /\ ~sbusy
    /\ sbusy' = TRUE /\ sdone' = FALSE
    /\ serror' = FALSE /\ scode' = ERR_NONE
    /\ sdesc' \in Addresses
    /\ UNCHANGED smem

Answer(error, code) ==
    /\ sbusy
    /\ sbusy' = FALSE /\ sdone' = TRUE
    /\ serror' = error /\ scode' = code
    /\ UNCHANGED sdesc

Finish ==
    /\ sbusy
    /\ \E o \in Outcomes : /\ Answer(o.error, o.code)
                           /\ smem' = WithStatus(WithOutput(o.stored), o.error, o.code)

\* The header may not have been read: the status fields are written, the
\* rest of the status beat is unspecified, the rest of memory unchanged.
HeaderUnread(code) ==
    /\ Answer(TRUE, code)
    /\ \A a \in DOMAIN smem \ StatusBeat : smem'[a] = smem[a]
    /\ smem'[sdesc].done /\ smem'[sdesc].error /\ smem'[sdesc].code = code

Misaligned == ~Align(sdesc) /\ HeaderUnread(ERR_BAD_ALIGN)
ReadFailed == Align(sdesc) /\ HeaderUnread(ERR_MEM_READ)

\* The status write was answered with an error: stored or not, the adapter
\* reports the failure.
StatusFailed ==
    /\ Answer(TRUE, ERR_MEM_WRITE)
    /\ \/ \E o \in Outcomes :
             smem' \in {WithOutput(o.stored),
                        WithStatus(WithOutput(o.stored), o.error, o.code)}
       \/ \A a \in DOMAIN smem \ StatusBeat : smem'[a] = smem[a]

\* A reset during a job stops it after some of its output.
Abort ==
    /\ ServiceInit'
    /\ \/ UNCHANGED smem
       \/ sbusy /\ Completed \in Outcomes /\ \E n \in 1 .. 16 : smem' = WithOutput(n)

JobStep == Finish \/ Misaligned \/ ReadFailed \/ StatusFailed

ServiceNext == Start \/ JobStep \/ Abort

\* Every job that is started comes to its end.
EveryJobEnds == sbusy ~> ~sbusy

ServiceSpec == ServiceInit /\ [][ServiceNext]_serviceVars /\ EveryJobEnds
============================================================================
