--------------------------- MODULE PrototypePath ---------------------------
(***************************************************************************)
(* The two prototype instruction adapters over the wrapper: the fine one,  *)
(* spx_cvxif_adapter, whose instructions name a register, and the coarse   *)
(* one, spx_cvxif_adapter_coarse, whose instructions follow a pointer; and *)
(* the wrapper bare, under raw commands.  Which of the three is mounted    *)
(* never changes.  A step is one clock edge of adapter, wrapper and engine *)
(* under any instruction on the wires.                                     *)
(***************************************************************************)
EXTENDS CopWrapper

CONSTANTS Instructions,    \* adapter -> the records op, addr, rs1, rd a host can offer it
          StreamAddr       \* bound: where the host lets the pointer stream

VARIABLES adapter,         \* "fine", "coarse" or "bare"
          state_q,         \* "IDLE", "WAIT_RSP", "START_ISSUE"
          ptr_q, pending_rd_q,
          resp             \* instr_resp_valid, _data, _rd and instr_illegal

\* The instructions of an adapter; a written word is known by its number,
\* and a raw command names no destination.
Ops(a) ==
    CASE a = "fine"   -> {"SPX_WR", "SPX_RD", "SPX_START", "SPX_STATUS", "SPX_CLR", "SPX_OTHER"}
      [] a = "coarse" -> {"SPX_SET_PTR", "SPX_WR_NEXT", "SPX_RD_NEXT", "SPX_START_THASHX4",
                          "SPX_STATUS", "SPX_OTHER"}
      [] a = "bare"   -> {"CMD_WRITE", "CMD_READ", "CMD_START", "CMD_OTHER"}

ASSUMPTION InstructionsAssumption ==
    /\ DOMAIN Instructions \subseteq {"fine", "coarse", "bare"}
    /\ \A a \in DOMAIN Instructions : \A instr \in Instructions[a] :
          /\ instr.op \in Ops(a)
          /\ Number(instr.rs1) \in Nat /\ instr.rs1 = HostWord(Number(instr.rs1))
          /\ a = "bare" => instr.rd = 0

adapterVars == <<adapter, state_q, ptr_q, pending_rd_q, resp>>
vars == <<adapterVars, wrapperVars>>

Resp(data, rd, illegal) == [valid |-> TRUE, data |-> data, rd |-> rd, illegal |-> illegal]
NoResp(rd) == [valid |-> FALSE, data |-> ZeroWord, rd |-> rd, illegal |-> FALSE]

ClearBoth == HostWord(6)

----------------------------------------------------------------------------
(***************************************************************************)
(* The fine adapter: one wrapper command for an instruction.               *)
(***************************************************************************)
FineDecode(instr) ==
    CASE instr.op = "SPX_WR"     -> Command(CMD_WRITE, instr.addr, instr.rs1)
      [] instr.op = "SPX_RD"     -> Command(CMD_READ, instr.addr, ZeroWord)
      [] instr.op = "SPX_START"  -> Command(CMD_START, 0, ZeroWord)
      [] instr.op = "SPX_STATUS" -> Command(CMD_READ, REG_STATUS, ZeroWord)
      [] instr.op = "SPX_CLR"    -> Command(CMD_WRITE, REG_STATUS, ClearBoth)
      [] OTHER                   -> NoCommand

FineIdle(instr) ==
    LET cmd == FineDecode(instr)
        legal == cmd # NoCommand
    IN  /\ state_q = "IDLE"
        /\ WrapperTick(cmd)
        /\ IF legal /\ ~CmdReady(cmd.op)
           THEN /\ resp' = NoResp(pending_rd_q)
                /\ UNCHANGED <<state_q, pending_rd_q>>
           ELSE /\ pending_rd_q' = instr.rd
                /\ state_q' = IF legal THEN "WAIT_RSP" ELSE "IDLE"
                /\ resp' = IF legal THEN NoResp(instr.rd) ELSE Resp(ZeroWord, instr.rd, TRUE)
        /\ UNCHANGED ptr_q

----------------------------------------------------------------------------
(***************************************************************************)
(* The coarse adapter.  The pointer may stand on a data or an output       *)
(* register; configuration and status have instructions of their own.      *)
(***************************************************************************)
MappedLegal == ptr_q \in (0 .. 3) \cup (16 .. 79) \cup (96 .. 111)

UsesPtr(instr) == instr.op \in {"SPX_WR_NEXT", "SPX_RD_NEXT"}

CoarseLegal(instr) ==
    \/ instr.op \in {"SPX_SET_PTR", "SPX_START_THASHX4", "SPX_STATUS"}
    \/ UsesPtr(instr) /\ MappedLegal

CoarseDecode(instr) ==
    CASE instr.op = "SPX_WR_NEXT" /\ MappedLegal ->
             Command(CMD_WRITE, ptr_q, instr.rs1)
      [] instr.op = "SPX_RD_NEXT" /\ MappedLegal ->
             Command(CMD_READ, ptr_q, ZeroWord)
      [] instr.op = "SPX_START_THASHX4" ->
             Command(CMD_WRITE, REG_CONFIG, HostWord(Number(instr.rs1) % 4))
      [] instr.op = "SPX_STATUS" -> Command(CMD_READ, REG_STATUS, ZeroWord)
      [] OTHER -> NoCommand

\* A write is answered in the cycle after it is taken, without waiting for
\* the wrapper's response; a read waits for it.
CoarseIdle(instr) ==
    LET cmd == CoarseDecode(instr)
    IN  /\ state_q = "IDLE"
        /\ WrapperTick(cmd)
        /\ IF cmd # NoCommand /\ ~CmdReady(cmd.op)
           THEN /\ resp' = NoResp(pending_rd_q)
                /\ UNCHANGED <<state_q, ptr_q, pending_rd_q>>
           ELSE /\ pending_rd_q' = instr.rd
                /\ state_q' = CASE cmd.op = CMD_READ -> "WAIT_RSP"
                                [] instr.op = "SPX_START_THASHX4" -> "START_ISSUE"
                                [] OTHER -> "IDLE"
                /\ ptr_q' = CASE instr.op = "SPX_SET_PTR" -> instr.addr
                              [] UsesPtr(instr) /\ MappedLegal -> (ptr_q + 1) % 256
                              [] OTHER -> ptr_q
                /\ resp' = IF state_q' = "IDLE" THEN Resp(ZeroWord, instr.rd, ~CoarseLegal(instr))
                           ELSE NoResp(instr.rd)

----------------------------------------------------------------------------
(***************************************************************************)
(* The wrapper's own command port.                                         *)
(***************************************************************************)
CMD_OTHER == 9

RawDecode(instr) ==
    CASE instr.op = "CMD_WRITE" -> Command(CMD_WRITE, instr.addr, instr.rs1)
      [] instr.op = "CMD_READ"  -> Command(CMD_READ, instr.addr, ZeroWord)
      [] instr.op = "CMD_START" -> Command(CMD_START, instr.addr, ZeroWord)
      [] OTHER                  -> Command(CMD_OTHER, instr.addr, ZeroWord)

Raw(instr) ==
    /\ WrapperTick(RawDecode(instr))
    /\ resp' = NoResp(pending_rd_q)
    /\ UNCHANGED <<state_q, ptr_q, pending_rd_q>>

----------------------------------------------------------------------------
NoInstruction ==
    /\ state_q = "IDLE"
    /\ WrapperTick(NoCommand)
    /\ resp' = NoResp(pending_rd_q)
    /\ UNCHANGED <<state_q, ptr_q, pending_rd_q>>

WaitRsp ==
    /\ state_q = "WAIT_RSP"
    /\ WrapperTick(NoCommand)
    /\ IF rsp_valid THEN /\ resp' = Resp(rsp_rdata, pending_rd_q, FALSE)
                         /\ state_q' = "IDLE"
                    ELSE /\ resp' = NoResp(pending_rd_q)
                         /\ UNCHANGED state_q
    /\ UNCHANGED <<adapter, ptr_q, pending_rd_q>>

StartIssue ==
    /\ state_q = "START_ISSUE"
    /\ WrapperTick(Command(CMD_START, 0, ZeroWord))
    /\ IF CmdReady(CMD_START) THEN /\ resp' = Resp(ZeroWord, pending_rd_q, FALSE)
                                   /\ state_q' = "IDLE"
                              ELSE /\ resp' = NoResp(pending_rd_q)
                                   /\ UNCHANGED state_q
    /\ UNCHANGED <<adapter, ptr_q, pending_rd_q>>

Init ==
    /\ adapter \in DOMAIN Instructions
    /\ state_q = "IDLE"
    /\ ptr_q = 0
    /\ pending_rd_q = 0
    /\ resp = NoResp(0)
    /\ WrapperInit

Offers ==
    {instr \in Instructions[adapter] : UsesPtr(instr) => ptr_q \in StreamAddr}

Offered(instr) ==
    \/ adapter = "fine" /\ FineIdle(instr)
    \/ adapter = "coarse" /\ CoarseIdle(instr)
    \/ adapter = "bare" /\ Raw(instr)

\* rst_n low: adapter, wrapper and engine lose everything at once.
Reset ==
    /\ state_q' = "IDLE"
    /\ ptr_q' = 0
    /\ pending_rd_q' = 0
    /\ resp' = NoResp(0)
    /\ WrapperReset
    /\ UNCHANGED adapter

Clock ==
    /\ \/ \E instr \in Offers : Offered(instr)
       \/ NoInstruction
       \/ WaitRsp
       \/ StartIssue
    /\ UNCHANGED adapter

Next == Clock \/ Reset

\* The clock runs, where anything waits for it, and the engine answers what
\* it took.
Spec ==
    /\ Init /\ [][Next]_vars
    /\ WF_vars((state_q # "IDLE" \/ answered) /\ Clock)
    /\ WF_vars(Respond /\ Clock)

----------------------------------------------------------------------------
(***************************************************************************)
(* The registers under their documented addresses.                         *)
(***************************************************************************)
RegisterAddr == (0 .. 3) \cup (16 .. 81) \cup (96 .. 111)
AllInstructions == UNION {Instructions[a] : a \in DOMAIN Instructions}

RegisterAt(a) ==
    CASE a \in 0 .. 3     -> pub_seed_q[a]
      [] a \in 16 .. 47   -> addr_q[(a - 16) \div 8][(a - 16) % 8]
      [] a \in 48 .. 79   -> input_q[(a - 48) \div 8][(a - 48) % 8]
      [] a \in 96 .. 111  -> output_q[(a - 96) \div 4][(a - 96) % 4]
      [] a = REG_CONFIG   -> InblocksWord(inblocks_q)
      [] a = REG_STATUS   -> flags_q

AnswerOf(r) ==
    CASE r.valid /\ r.illegal  -> [kind |-> "illegal", rd |-> r.rd]
      [] r.valid /\ ~r.illegal -> [kind |-> "answer", rd |-> r.rd, data |-> r.data]
      [] OTHER                 -> [kind |-> "nothing"]

\* What the wrapper answers the adapter, or the host of a bare wrapper.
WrapperAnswer == [kind |-> "answer", rd |-> pending_rd_q, data |-> rsp_rdata]

RegisterFile ==
    INSTANCE CopRegisterFile
      WITH Instructions <- AllInstructions,
           file <- [a \in RegisterAddr |-> RegisterAt(a)],
           ptr  <- ptr_q,
           open <- CASE state_q = "WAIT_RSP"    -> WrapperAnswer
                     [] state_q = "START_ISSUE" -> [kind |-> "start", rd |-> pending_rd_q]
                     [] OTHER                   -> [kind |-> "nothing"],
           resp <- IF adapter = "bare"
                   THEN IF rsp_valid THEN WrapperAnswer ELSE [kind |-> "nothing"]
                   ELSE AnswerOf(resp)

(***************************************************************************)
(* The host sees a register file.  Whatever it offers, in whatever cycle   *)
(* the engine answers, each instruction is answered once, with what the    *)
(* file held when the instruction was taken - never with the response of   *)
(* the write before it, which the coarse adapter leaves on the wires; a    *)
(* job's digests are of the registers as they stand when it ends; and      *)
(* every job ends.                                                         *)
(***************************************************************************)
ImplementsRegisterFile == RegisterFile!FileSpec

(***************************************************************************)
(* The job in the engine is the one the registers describe: while busy is  *)
(* up the engine holds their four blocks, or has the digests of them ready *)
(* in this very cycle; while busy is down it holds none.  A command let    *)
(* through in a busy cycle, or a busy flag dropped early, breaks it.       *)
(***************************************************************************)
JobIsOfRegisters ==
    /\ flags_q.busy =>
          \/ pending = AbsorbX4(Request) /\ ~answered
          \/ pending = None /\ answered /\ answer = ThashX4(Request)
    /\ ~flags_q.busy => pending = None /\ ~answered
============================================================================
