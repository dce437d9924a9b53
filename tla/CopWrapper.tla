----------------------------- MODULE CopWrapper -----------------------------
(***************************************************************************)
(* spx_cop_wrapper: the register file in front of one thash engine.  A     *)
(* step of WrapperTick is one clock edge; its argument is the command on   *)
(* the wires, or NoCommand.  The engine inside is the server that          *)
(* ThashX4Core is shown to implement: it answers in some later cycle.      *)
(*                                                                         *)
(* A word the host writes is known by its number; only the low bits of it  *)
(* that the configuration and the status registers look at are ever used.  *)
(***************************************************************************)
EXTENDS ThashServer, Integers

VARIABLES pub_seed_q, addr_q, input_q, output_q,   \* the data registers
          inblocks_q,
          flags_q,                \* busy_q, done_q, error_q, error_code_q
          rsp_valid, rsp_rdata

fileVars    == <<pub_seed_q, addr_q, input_q, inblocks_q>>
wrapperVars == <<fileVars, output_q, flags_q, rsp_valid, rsp_rdata, serverVars>>

CMD_WRITE == 1
CMD_READ  == 2
CMD_START == 3

REG_CONFIG == 80
REG_STATUS == 81

ERR_BAD_OP       == 1
ERR_BAD_ADDR     == 2
ERR_BAD_INBLOCKS == 3

Command(op, addr, wdata) == [op |-> op, addr |-> addr, wdata |-> wdata]
NoCommand == Command(0, 0, ZeroWord)

HostWord(n) == [src |-> <<"host", n>>, msb |-> 0]
Number(w) == IF w = ZeroWord THEN 0 ELSE w.src[2]

InblocksWord(n) == [inblocks |-> n]
FlagsWord(flags, n) == [flags |-> flags, inblocks |-> n]

----------------------------------------------------------------------------
(***************************************************************************)
(* The address decoder: which register an address selects, and the lane    *)
(* and the word in it.  The offset is the difference of the low five bits. *)
(***************************************************************************)
Selected(sel, lane, word) == [sel |-> sel, lane |-> lane, word |-> word]

Decode(addr) ==
    LET offset == ((addr % 32) - 16) % 32
    IN  CASE addr \in 0 .. 3     -> Selected("pub_seed", 0, addr % 4)
          [] addr \in 16 .. 47   -> Selected("addr", offset \div 8, offset % 8)
          [] addr \in 48 .. 79   -> Selected("input", offset \div 8, offset % 8)
          [] addr = REG_CONFIG   -> Selected("config", 0, 0)
          [] addr = REG_STATUS   -> Selected("status", 0, 0)
          [] addr \in 96 .. 111  -> LET out == addr % 32
                                    IN  Selected("output", (out \div 4) % 4, out % 4)
          [] OTHER               -> Selected("none", 0, 0)

ReadRdata(s) ==
    CASE s.sel = "pub_seed" -> pub_seed_q[s.word]
      [] s.sel = "addr"     -> addr_q[s.lane][s.word]
      [] s.sel = "input"    -> input_q[s.lane][s.word]
      [] s.sel = "config"   -> InblocksWord(inblocks_q)
      [] s.sel = "status"   -> FlagsWord(flags_q, inblocks_q)
      [] s.sel = "output"   -> output_q[s.lane][s.word]
      [] s.sel = "none"     -> ZeroWord

\* Reads are always taken, everything else only while no job runs; and the
\* interlock forgotten for writes.
WritesNotHeld(op) == op \in {CMD_READ, CMD_WRITE} \/ ~flags_q.busy
CmdReady(op) == op = CMD_READ \/ ~flags_q.busy

----------------------------------------------------------------------------
NoFlags == [busy |-> FALSE, done |-> FALSE, error |-> FALSE, code |-> 0]
Failed(flags, code) == [flags EXCEPT !.error = TRUE, !.code = code]
NoError(flags) == [flags EXCEPT !.error = FALSE, !.code = 0]

ServedInblocks == inblocks_q \in {1, 2}

\* What a write to the status register clears: done by bit 1, error by bit 2.
StatusWritten(flags, n) ==
    LET f == IF (n \div 2) % 2 = 1 THEN [flags EXCEPT !.done = FALSE] ELSE flags
    IN  IF (n \div 4) % 2 = 1 THEN NoError(f) ELSE f

\* A job that ends leaves its digests, whatever command comes at the same
\* edge; the fault lets the response to a read be in the way of it.
CaptureUnlessRead == answered /\ flags_q.busy /\ ~rsp_valid
Capture == answered /\ flags_q.busy
Captured(flags) ==
    IF Capture THEN [flags EXCEPT !.busy = FALSE, !.done = TRUE] ELSE flags

FlagsAfter(cmd, s) ==
    LET flags == Captured(flags_q)
    IN  CASE cmd.op = CMD_WRITE /\ s.sel = "status" ->
                 StatusWritten(flags, Number(cmd.wdata))
          [] cmd.op \in {CMD_WRITE, CMD_READ} /\ s.sel = "none" ->
                 Failed(flags, ERR_BAD_ADDR)
          [] cmd.op = CMD_WRITE /\ s.sel = "output" ->
                 Failed(flags, ERR_BAD_ADDR)
          [] cmd.op = CMD_START /\ ServedInblocks ->
                 [NoError(flags) EXCEPT !.busy = TRUE, !.done = FALSE]
          [] cmd.op = CMD_START /\ ~ServedInblocks ->
                 [Failed(flags, ERR_BAD_INBLOCKS) EXCEPT !.busy = FALSE, !.done = FALSE]
          [] cmd.op \notin {CMD_WRITE, CMD_READ, CMD_START} ->
                 Failed(flags, ERR_BAD_OP)
          [] OTHER -> flags

WrapperRead(cmd, s) ==
    /\ rsp_rdata' = IF cmd.op = CMD_READ THEN ReadRdata(s) ELSE ZeroWord
    /\ IF cmd.op # CMD_WRITE THEN UNCHANGED fileVars
       ELSE /\ pub_seed_q' = IF s.sel = "pub_seed"
                             THEN [pub_seed_q EXCEPT ![s.word] = cmd.wdata] ELSE pub_seed_q
            /\ addr_q' = IF s.sel = "addr"
                         THEN [addr_q EXCEPT ![s.lane][s.word] = cmd.wdata] ELSE addr_q
            /\ input_q' = IF s.sel = "input"
                          THEN [input_q EXCEPT ![s.lane][s.word] = cmd.wdata] ELSE input_q
            /\ inblocks_q' = IF s.sel = "config" THEN Number(cmd.wdata) % 4 ELSE inblocks_q

----------------------------------------------------------------------------
\* The engine's wires.
CoreStart(cmd) == cmd.op = CMD_START /\ ServedInblocks
Request == [seed |-> pub_seed_q, addr |-> addr_q, in |-> input_q, inblocks |-> inblocks_q]

EngineTick(start) ==
    IF start /\ pending = None
    THEN Accept /\ pending' = AbsorbX4(Request)
    ELSE Respond \/ Quiet

WrapperInit ==
    /\ pub_seed_q = ZeroDigest
    /\ addr_q = [l \in Lane |-> ZeroWide]
    /\ input_q = [l \in Lane |-> ZeroWide]
    /\ output_q = [l \in Lane |-> ZeroDigest]
    /\ inblocks_q = 1
    /\ flags_q = NoFlags
    /\ rsp_valid = FALSE
    /\ rsp_rdata = ZeroWord
    /\ ServerInit

\* A command that is not accepted changes nothing.
WrapperTick(cmd) ==
    /\ output_q' = IF Capture THEN answer ELSE output_q
    /\ IF cmd # NoCommand /\ CmdReady(cmd.op)
       THEN LET s == Decode(cmd.addr) IN
            /\ rsp_valid' = TRUE
            /\ flags_q' = FlagsAfter(cmd, s)
            /\ WrapperRead(cmd, s)
            /\ EngineTick(CoreStart(cmd))
       ELSE /\ rsp_valid' = FALSE
            /\ rsp_rdata' = ZeroWord
            /\ flags_q' = Captured(flags_q)
            /\ UNCHANGED fileVars
            /\ EngineTick(FALSE)

\* rst_n low, for the wrapper and the engine at once.
WrapperReset ==
    /\ pub_seed_q' = ZeroDigest
    /\ addr_q' = [l \in Lane |-> ZeroWide]
    /\ input_q' = [l \in Lane |-> ZeroWide]
    /\ output_q' = [l \in Lane |-> ZeroDigest]
    /\ inblocks_q' = 1
    /\ flags_q' = NoFlags
    /\ rsp_valid' = FALSE
    /\ rsp_rdata' = ZeroWord
    /\ pending' = None
    /\ answered' = FALSE
    /\ answer' = [l \in Lane |-> ZeroDigest]
============================================================================
