--------------------------- MODULE PrototypeProof ---------------------------
(***************************************************************************)
(* The wrapper under both prototype adapters and under raw commands, for   *)
(* any set of instructions and any digest function: the job in the engine  *)
(* is that of the registers, and every clock edge is a cycle of the        *)
(* register file that CopRegisterFile promises.                            *)
(*                                                                         *)
(* The second is proved from the wrapper outwards: the registers as words  *)
(* under addresses, what each command makes of the words, what each        *)
(* adapter makes of its instructions, and last the edge itself, where a    *)
(* job that ends leaves its digests before the instruction is served.      *)
(***************************************************************************)
EXTENDS PrototypePath, TLAPS

Flags == [busy : BOOLEAN, done : BOOLEAN, error : BOOLEAN, code : Nat]
Inv   == flags_q \in Flags /\ answered \in BOOLEAN /\ JobIsOfRegisters

LEMMA AtReset ==
    /\ WrapperInit => Inv
    /\ WrapperReset => Inv'
<1>1. NoFlags \in Flags /\ NoFlags.busy = FALSE
    BY DEF NoFlags, Flags
<1>2. WrapperInit => Inv
    BY <1>1 DEF WrapperInit, ServerInit, Inv, JobIsOfRegisters
<1>3. WrapperReset => Inv'
    BY <1>1 DEF WrapperReset, Inv, JobIsOfRegisters
<1>4. QED
    BY <1>2, <1>3

\* What a command makes of the flags.  The busy flag falls at the end of a
\* job, rises with a start that is served, and else stays.
LEMMA FlagsOfCycle ==
    ASSUME flags_q \in Flags, NEW cmd, NEW s, CmdReady(cmd.op)
    PROVE  /\ FlagsAfter(cmd, s) \in Flags
           /\ flags_q.busy => (FlagsAfter(cmd, s).busy <=> ~answered) /\ cmd.op = CMD_READ
           /\ ~flags_q.busy => (FlagsAfter(cmd, s).busy <=> CoreStart(cmd))
<1>1. /\ Captured(flags_q) \in Flags
      /\ flags_q.busy => (Captured(flags_q).busy <=> ~answered)
      /\ ~flags_q.busy => ~Captured(flags_q).busy
    BY DEF Captured, Capture, Flags
<1>2. \A f \in Flags : \A c \in Nat :
        /\ Failed(f, c) \in Flags /\ Failed(f, c).busy = f.busy
        /\ NoError(f) \in Flags /\ NoError(f).busy = f.busy
        /\ [f EXCEPT !.done = FALSE] \in Flags /\ [f EXCEPT !.done = FALSE].busy = f.busy
    BY DEF Failed, NoError, Flags
<1>3. \A f \in Flags : \A n :
        StatusWritten(f, n) \in Flags /\ StatusWritten(f, n).busy = f.busy
    BY <1>2 DEF StatusWritten
<1>4. CASE cmd.op = CMD_READ
    <2>1. FlagsAfter(cmd, s) \in {Captured(flags_q), Failed(Captured(flags_q), ERR_BAD_ADDR)}
        BY <1>4 DEF FlagsAfter, CMD_READ, CMD_WRITE, CMD_START
    <2>2. FlagsAfter(cmd, s) \in Flags /\ FlagsAfter(cmd, s).busy = Captured(flags_q).busy
        BY <1>1, <1>2, <2>1 DEF ERR_BAD_ADDR
    <2>3. ~CoreStart(cmd)
        BY <1>4 DEF CoreStart, CMD_READ, CMD_START
    <2>4. QED
        BY <1>1, <1>4, <2>2, <2>3
<1>5. CASE cmd.op = CMD_WRITE
    <2>1. FlagsAfter(cmd, s) \in {Captured(flags_q), Failed(Captured(flags_q), ERR_BAD_ADDR),
                                  StatusWritten(Captured(flags_q), Number(cmd.wdata))}
        BY <1>5 DEF FlagsAfter, CMD_READ, CMD_WRITE, CMD_START
    <2>2. FlagsAfter(cmd, s) \in Flags /\ FlagsAfter(cmd, s).busy = Captured(flags_q).busy
        <3>1. CASE FlagsAfter(cmd, s) = StatusWritten(Captured(flags_q), Number(cmd.wdata))
            BY <1>1, <1>3, <3>1, Zenon
        <3>2. CASE FlagsAfter(cmd, s) # StatusWritten(Captured(flags_q), Number(cmd.wdata))
            BY <1>1, <1>2, <2>1, <3>2 DEF ERR_BAD_ADDR
        <3>3. QED
            BY <3>1, <3>2
    <2>3. ~CoreStart(cmd) /\ ~flags_q.busy
        BY <1>5 DEF CoreStart, CmdReady, CMD_READ, CMD_WRITE, CMD_START
    <2>4. QED
        BY <1>1, <2>2, <2>3
<1>6. CASE cmd.op = CMD_START
    <2>1. ~flags_q.busy
        BY <1>6 DEF CmdReady, CMD_READ, CMD_START
    <2>2. CASE ServedInblocks
        <3>1. FlagsAfter(cmd, s) = [NoError(Captured(flags_q)) EXCEPT !.busy = TRUE, !.done = FALSE]
            BY <1>6, <2>2 DEF FlagsAfter, CMD_READ, CMD_WRITE, CMD_START
        <3>2. FlagsAfter(cmd, s) \in Flags /\ FlagsAfter(cmd, s).busy = TRUE
            BY <1>1, <1>2, <3>1 DEF Flags
        <3>3. QED
            BY <1>6, <2>1, <2>2, <3>2 DEF CoreStart
    <2>3. CASE ~ServedInblocks
        <3>1. FlagsAfter(cmd, s) =
                 [Failed(Captured(flags_q), ERR_BAD_INBLOCKS) EXCEPT !.busy = FALSE, !.done = FALSE]
            BY <1>6, <2>3 DEF FlagsAfter, CMD_READ, CMD_WRITE, CMD_START
        <3>2. Failed(Captured(flags_q), ERR_BAD_INBLOCKS) \in Flags
            BY <1>1, <1>2 DEF ERR_BAD_INBLOCKS
        <3>3. FlagsAfter(cmd, s) \in Flags /\ FlagsAfter(cmd, s).busy = FALSE
            BY <3>1, <3>2 DEF Flags
        <3>4. QED
            BY <1>6, <2>1, <2>3, <3>3 DEF CoreStart
    <2>4. QED
        BY <2>2, <2>3
<1>7. CASE cmd.op \notin {CMD_READ, CMD_WRITE, CMD_START}
    <2>1. FlagsAfter(cmd, s) = Failed(Captured(flags_q), ERR_BAD_OP)
        BY <1>7 DEF FlagsAfter
    <2>2. FlagsAfter(cmd, s) \in Flags /\ FlagsAfter(cmd, s).busy = Captured(flags_q).busy
        BY <1>1, <1>2, <2>1 DEF ERR_BAD_OP
    <2>3. ~CoreStart(cmd) /\ ~flags_q.busy
        BY <1>7 DEF CoreStart, CmdReady
    <2>4. QED
        BY <1>1, <2>2, <2>3
<1>8. QED
    BY <1>4, <1>5, <1>6, <1>7

\* A cycle in which the registers stay and the busy flag goes its way.
LEMMA BusyCycle ==
    ASSUME Inv, flags_q.busy, EngineTick(FALSE), UNCHANGED fileVars,
           flags_q' \in Flags, flags_q'.busy <=> ~answered
    PROVE  Inv'
<1>1. Request' = Request /\ AbsorbX4(Request)' = AbsorbX4(Request)
      /\ ThashX4(Request)' = ThashX4(Request)
    BY DEF Request, fileVars, AbsorbX4, ThashX4
<1>2. CASE pending = AbsorbX4(Request) /\ ~answered
    <2>1. CASE Respond
        <3>1. answer' = ThashX4(Request)
            BY <1>2, <2>1 DEF Respond, ThashX4
        <3>2. QED
            BY <1>1, <1>2, <2>1, <3>1 DEF Respond, Inv, JobIsOfRegisters
    <2>2. CASE Quiet
        BY <1>1, <1>2, <2>2 DEF Quiet, Inv, JobIsOfRegisters
    <2>3. QED
        BY <2>1, <2>2 DEF EngineTick
<1>3. CASE pending = None /\ answered
    BY <1>3 DEF EngineTick, Respond, Quiet, Inv, JobIsOfRegisters
<1>4. QED
    BY <1>2, <1>3 DEF Inv, JobIsOfRegisters

LEMMA WrapperKeeps == ASSUME Inv, NEW cmd, WrapperTick(cmd) PROVE Inv'
<1>1. CASE cmd # NoCommand /\ CmdReady(cmd.op)
    <2> DEFINE s == Decode(cmd.addr)
    <2>1. flags_q' = FlagsAfter(cmd, s) /\ WrapperRead(cmd, s) /\ EngineTick(CoreStart(cmd))
        BY <1>1 DEF WrapperTick
    <2>2. flags_q \in Flags
        BY DEF Inv
    <2>3. CASE flags_q.busy
        <3>1. cmd.op = CMD_READ /\ (flags_q'.busy <=> ~answered) /\ flags_q' \in Flags
            BY <1>1, <2>1, <2>2, <2>3, FlagsOfCycle
        <3>2. UNCHANGED fileVars /\ CoreStart(cmd) = FALSE
            BY <2>1, <3>1 DEF WrapperRead, CoreStart, CMD_READ, CMD_WRITE, CMD_START
        <3>3. QED
            BY <2>1, <2>3, <3>1, <3>2, BusyCycle
    <2>4. CASE ~flags_q.busy
        <3>1. (flags_q'.busy <=> CoreStart(cmd)) /\ flags_q' \in Flags
            BY <1>1, <2>1, <2>2, <2>4, FlagsOfCycle
        <3>2. pending = None /\ ~answered
            BY <2>4 DEF Inv, JobIsOfRegisters
        <3>3. CASE CoreStart(cmd)
            <4>1. pending' = AbsorbX4(Request) /\ answered' = FALSE
                BY <2>1, <3>2, <3>3 DEF EngineTick, Accept
            <4>2. UNCHANGED fileVars
                BY <2>1, <3>3 DEF WrapperRead, CoreStart, CMD_WRITE, CMD_START
            <4>3. AbsorbX4(Request)' = AbsorbX4(Request)
                BY <4>2 DEF Request, fileVars, AbsorbX4
            <4>4. QED
                BY <3>1, <3>3, <4>1, <4>3 DEF Inv, JobIsOfRegisters
        <3>4. CASE ~CoreStart(cmd)
            BY <2>1, <3>1, <3>2, <3>4 DEF EngineTick, Respond, Quiet, Inv, JobIsOfRegisters
        <3>5. QED
            BY <3>3, <3>4
    <2>5. QED
        BY <2>3, <2>4
<1>2. CASE ~(cmd # NoCommand /\ CmdReady(cmd.op))
    <2>1. flags_q' = Captured(flags_q) /\ UNCHANGED fileVars /\ EngineTick(FALSE)
        BY <1>2 DEF WrapperTick
    <2>2. /\ flags_q' \in Flags
          /\ flags_q.busy => (flags_q'.busy <=> ~answered)
          /\ ~flags_q.busy => ~flags_q'.busy
        BY <2>1 DEF Captured, Capture, Flags, Inv
    <2>3. CASE flags_q.busy
        BY <2>1, <2>2, <2>3, BusyCycle
    <2>4. CASE ~flags_q.busy
        BY <2>1, <2>2, <2>4 DEF EngineTick, Respond, Quiet, Inv, JobIsOfRegisters
    <2>5. QED
        BY <2>3, <2>4
<1>3. QED
    BY <1>1, <1>2

LEMMA CycleKeeps == Inv /\ [Next]_vars => Inv'
<1> SUFFICES ASSUME Inv, [Next]_vars PROVE Inv'
    OBVIOUS
<1>1. CASE Reset
    BY <1>1, AtReset DEF Reset
<1>2. CASE Clock
    BY <1>2, WrapperKeeps
       DEF Clock, Offered, FineIdle, CoarseIdle, Raw, NoInstruction, WaitRsp, StartIssue
<1>3. CASE UNCHANGED vars
    BY <1>3 DEF vars, wrapperVars, fileVars, serverVars, Inv, JobIsOfRegisters, Request, AbsorbX4, ThashX4
<1>4. QED
    BY <1>1, <1>2, <1>3 DEF Next

(***************************************************************************)
(* Whatever the host offers and whenever the engine of spx_cop_wrapper     *)
(* answers, the job in it is that of the registers, which nothing changes  *)
(* while it runs.                                                          *)
(***************************************************************************)
THEOREM JobsCorrect == Spec => []JobIsOfRegisters
<1>1. Init => Inv
    BY AtReset DEF Init
<1>2. Inv => JobIsOfRegisters
    BY DEF Inv
<1>3. QED
    BY <1>1, <1>2, CycleKeeps, PTL DEF Spec

----------------------------------------------------------------------------
(***************************************************************************)
(* The wrapper as a file of words.                                         *)
(***************************************************************************)
\* The word at an address, for given registers.
FileWord(seed, addr, in, out, n, flags, a) ==
    CASE a \in 0 .. 3     -> seed[a]
      [] a \in 16 .. 47   -> addr[(a - 16) \div 8][(a - 16) % 8]
      [] a \in 48 .. 79   -> in[(a - 48) \div 8][(a - 48) % 8]
      [] a \in 96 .. 111  -> out[(a - 96) \div 4][(a - 96) % 4]
      [] a = REG_CONFIG   -> InblocksWord(n)
      [] a = REG_STATUS   -> flags

LEMMA WordIs ==
    ASSUME NEW seed, NEW addr, NEW in, NEW out, NEW n, NEW flags
    PROVE  /\ \A a \in 0 .. 3 : FileWord(seed, addr, in, out, n, flags, a) = seed[a]
           /\ \A a \in 16 .. 47 : FileWord(seed, addr, in, out, n, flags, a)
                                    = addr[(a - 16) \div 8][(a - 16) % 8]
           /\ \A a \in 48 .. 79 : FileWord(seed, addr, in, out, n, flags, a)
                                    = in[(a - 48) \div 8][(a - 48) % 8]
           /\ \A a \in 96 .. 111 : FileWord(seed, addr, in, out, n, flags, a)
                                     = out[(a - 96) \div 4][(a - 96) % 4]
           /\ FileWord(seed, addr, in, out, n, flags, 80) = [inblocks |-> n]
           /\ FileWord(seed, addr, in, out, n, flags, 81) = flags
<1>1. ASSUME NEW a \in 0 .. 3 PROVE FileWord(seed, addr, in, out, n, flags, a) = seed[a]
    <2>1. a \notin 16 .. 47 /\ a \notin 48 .. 79 /\ a \notin 96 .. 111 /\ a # 80 /\ a # 81
        OBVIOUS
    <2>2. QED
        BY <2>1 DEF FileWord, REG_CONFIG, REG_STATUS
<1>2. ASSUME NEW a \in 16 .. 47
      PROVE  FileWord(seed, addr, in, out, n, flags, a) = addr[(a - 16) \div 8][(a - 16) % 8]
    <2>1. a \notin 0 .. 3 /\ a \notin 48 .. 79 /\ a \notin 96 .. 111 /\ a # 80 /\ a # 81
        OBVIOUS
    <2>2. QED
        BY <2>1 DEF FileWord, REG_CONFIG, REG_STATUS
<1>3. ASSUME NEW a \in 48 .. 79
      PROVE  FileWord(seed, addr, in, out, n, flags, a) = in[(a - 48) \div 8][(a - 48) % 8]
    <2>1. a \notin 0 .. 3 /\ a \notin 16 .. 47 /\ a \notin 96 .. 111 /\ a # 80 /\ a # 81
        OBVIOUS
    <2>2. QED
        BY <2>1 DEF FileWord, REG_CONFIG, REG_STATUS
<1>4. ASSUME NEW a \in 96 .. 111
      PROVE  FileWord(seed, addr, in, out, n, flags, a) = out[(a - 96) \div 4][(a - 96) % 4]
    <2>1. a \notin 0 .. 3 /\ a \notin 16 .. 47 /\ a \notin 48 .. 79 /\ a # 80 /\ a # 81
        OBVIOUS
    <2>2. QED
        BY <2>1 DEF FileWord, REG_CONFIG, REG_STATUS
<1>5. FileWord(seed, addr, in, out, n, flags, 80) = [inblocks |-> n]
    <2>1. 80 \notin 0 .. 3 /\ 80 \notin 16 .. 47 /\ 80 \notin 48 .. 79 /\ 80 \notin 96 .. 111
        OBVIOUS
    <2>2. QED
        BY <2>1 DEF FileWord, REG_CONFIG, REG_STATUS, InblocksWord
<1>6. FileWord(seed, addr, in, out, n, flags, 81) = flags
    <2>1. /\ 81 \notin 0 .. 3 /\ 81 \notin 16 .. 47 /\ 81 \notin 48 .. 79 /\ 81 \notin 96 .. 111
          /\ 81 # 80
        OBVIOUS
    <2>2. QED
        BY <2>1 DEF FileWord, REG_CONFIG, REG_STATUS
<1>7. QED
    BY <1>1, <1>2, <1>3, <1>4, <1>5, <1>6

LEMMA RegisterIs ==
    \A a : RegisterAt(a)
             = FileWord(pub_seed_q, addr_q, input_q, output_q, inblocks_q, flags_q, a)
    BY DEF RegisterAt, FileWord

\* The five regions of the address space.
LEMMA Regions ==
    /\ RegisterFile!Addr = RegisterAddr
    /\ RegisterFile!DataAddr = (0 .. 3) \cup (16 .. 79) /\ RegisterFile!OutAddr = 96 .. 111
    /\ RegisterFile!ConfigAddr = 80 /\ RegisterFile!StatusAddr = 81
    /\ 80 \in RegisterAddr /\ 81 \in RegisterAddr
    /\ \A a \in RegisterAddr : \/ a \in 0 .. 3 \/ a \in 16 .. 47 \/ a \in 48 .. 79
                               \/ a \in 96 .. 111 \/ a = 80 \/ a = 81
    BY DEF RegisterFile!Addr, RegisterFile!DataAddr, RegisterFile!OutAddr, RegisterFile!ConfigAddr,
       RegisterFile!StatusAddr, RegisterAddr

\* The decoder selects the register that stands at the address.
LEMMA DecodeIs ==
    /\ \A a \in 0 .. 3 : Decode(a) = Selected("pub_seed", 0, a)
    /\ \A a \in 16 .. 47 : Decode(a) = Selected("addr", (a - 16) \div 8, (a - 16) % 8)
    /\ \A a \in 48 .. 79 : Decode(a) = Selected("input", (a - 48) \div 8, (a - 48) % 8)
    /\ \A a \in 96 .. 111 : Decode(a) = Selected("output", (a - 96) \div 4, (a - 96) % 4)
    /\ Decode(80) = Selected("config", 0, 0)
    /\ Decode(81) = Selected("status", 0, 0)
    /\ \A a : a \notin RegisterAddr => Decode(a) = Selected("none", 0, 0)
<1>1. ASSUME NEW a \in 0 .. 3 PROVE Decode(a) = Selected("pub_seed", 0, a)
    <2>1. a \notin 16 .. 47 /\ a \notin 48 .. 79 /\ a \notin 96 .. 111 /\ a # 80 /\ a # 81 /\ a % 4 = a
        OBVIOUS
    <2>2. QED
        BY <2>1 DEF Decode, REG_CONFIG, REG_STATUS
<1>2. ASSUME NEW a \in 16 .. 47
      PROVE  Decode(a) = Selected("addr", (a - 16) \div 8, (a - 16) % 8)
    <2>1. a \notin 0 .. 3 /\ a \notin 48 .. 79 /\ a \notin 96 .. 111 /\ a # 80 /\ a # 81
        OBVIOUS
    <2>2. ((a % 32) - 16) % 32 = a - 16
        OBVIOUS
    <2>3. QED
        BY <2>1, <2>2 DEF Decode, REG_CONFIG, REG_STATUS
<1>3. ASSUME NEW a \in 48 .. 79
      PROVE  Decode(a) = Selected("input", (a - 48) \div 8, (a - 48) % 8)
    <2>1. a \notin 0 .. 3 /\ a \notin 16 .. 47 /\ a \notin 96 .. 111 /\ a # 80 /\ a # 81
        OBVIOUS
    <2>2. ((a % 32) - 16) % 32 = a - 48
        OBVIOUS
    <2>3. QED
        BY <2>1, <2>2 DEF Decode, REG_CONFIG, REG_STATUS
<1>4. ASSUME NEW a \in 96 .. 111
      PROVE  Decode(a) = Selected("output", (a - 96) \div 4, (a - 96) % 4)
    <2>1. a \notin 0 .. 3 /\ a \notin 16 .. 47 /\ a \notin 48 .. 79 /\ a # 80 /\ a # 81
        OBVIOUS
    <2>2. a % 32 = a - 96 /\ ((a - 96) \div 4) % 4 = (a - 96) \div 4
        OBVIOUS
    <2>3. QED
        BY <2>1, <2>2 DEF Decode, REG_CONFIG, REG_STATUS
<1>5. Decode(80) = Selected("config", 0, 0)
    <2>1. 80 \notin 0 .. 3 /\ 80 \notin 16 .. 47 /\ 80 \notin 48 .. 79 /\ 80 \notin 96 .. 111
        OBVIOUS
    <2>2. QED
        BY <2>1 DEF Decode, REG_CONFIG, REG_STATUS
<1>6. Decode(81) = Selected("status", 0, 0)
    <2>1. /\ 81 \notin 0 .. 3 /\ 81 \notin 16 .. 47 /\ 81 \notin 48 .. 79 /\ 81 \notin 96 .. 111
          /\ 81 # 80
        OBVIOUS
    <2>2. QED
        BY <2>1 DEF Decode, REG_CONFIG, REG_STATUS
<1>7. ASSUME NEW a, a \notin RegisterAddr PROVE Decode(a) = Selected("none", 0, 0)
    <2>1. /\ a \notin 0 .. 3 /\ a \notin 16 .. 47 /\ a \notin 48 .. 79 /\ a \notin 96 .. 111
          /\ a # 80 /\ a # 81
        BY <1>7 DEF RegisterAddr
    <2>2. QED
        BY <2>1 DEF Decode, REG_CONFIG, REG_STATUS
<1>8. QED
    BY <1>1, <1>2, <1>3, <1>4, <1>5, <1>6, <1>7

FileNow == [a \in RegisterAddr |-> RegisterAt(a)]

\* The registers are arrays of their sizes.
IsWideArray(r) == r = [l \in Lane |-> [i \in Wide |-> r[l][i]]]
Shapes ==
    /\ pub_seed_q = [i \in Digest |-> pub_seed_q[i]]
    /\ IsWideArray(addr_q) /\ IsWideArray(input_q)

\* What the file is before the instruction of this cycle: a job that ends
\* leaves its digests first.
NextOut == IF Capture THEN answer ELSE output_q
Base    == IF Capture THEN RegisterFile!WithDigests(FileNow) ELSE FileNow

LEMMA SameData ==
    /\ RegisterFile!Lane = Lane /\ RegisterFile!Digest = Digest /\ RegisterFile!Wide = Wide
    /\ RegisterFile!ZeroWord = ZeroWord
    /\ \A req : RegisterFile!ThashX4(req) = ThashX4(req)
<1>1. /\ RegisterFile!Lane = Lane /\ RegisterFile!Digest = Digest /\ RegisterFile!Wide = Wide
      /\ RegisterFile!ZeroWord = ZeroWord
    BY DEF RegisterFile!Lane, Lane, RegisterFile!Digest, Digest, RegisterFile!Wide, Wide,
       RegisterFile!ZeroWord, ZeroWord
<1>2. \A req : RegisterFile!ThashX4(req) = ThashX4(req)
    BY Zenon DEF RegisterFile!ThashX4, ThashX4, RegisterFile!AbsorbX4, AbsorbX4,
       RegisterFile!BuildAbsorbState, BuildAbsorbState, RegisterFile!Lane, Lane,
       RegisterFile!Digest, Digest, RegisterFile!Wide, Wide
<1>3. QED
    BY <1>1, <1>2

LEMMA FileNowIs ==
    /\ \A a \in 0 .. 3 : FileNow[a] = pub_seed_q[a]
    /\ \A a \in 16 .. 47 : FileNow[a] = addr_q[(a - 16) \div 8][(a - 16) % 8]
    /\ \A a \in 48 .. 79 : FileNow[a] = input_q[(a - 48) \div 8][(a - 48) % 8]
    /\ \A a \in 96 .. 111 : FileNow[a] = output_q[(a - 96) \div 4][(a - 96) % 4]
    /\ FileNow[80] = [inblocks |-> inblocks_q]
    /\ FileNow[81] = flags_q
<1>1. \A a \in RegisterAddr :
         FileNow[a] = FileWord(pub_seed_q, addr_q, input_q, output_q, inblocks_q, flags_q, a)
    BY RegisterIs DEF FileNow
<1>2. /\ 0 .. 3 \subseteq RegisterAddr /\ 16 .. 47 \subseteq RegisterAddr
      /\ 48 .. 79 \subseteq RegisterAddr /\ 96 .. 111 \subseteq RegisterAddr
      /\ 80 \in RegisterAddr /\ 81 \in RegisterAddr
    BY DEF RegisterAddr
<1>3. QED
    BY <1>1, <1>2, WordIs

\* The job of the file is the request on the engine's wires.
LEMMA JobsIs ==
    ASSUME Shapes
    PROVE  RegisterFile!Jobs(FileNow) = Request
<1>1. PICK f : f = FileNow
    OBVIOUS
<1>2. \A i \in Digest : f[i] = pub_seed_q[i]
    BY <1>1, FileNowIs DEF Digest
<1>3. ASSUME NEW l \in Lane, NEW i \in Wide
      PROVE  /\ f[16 + 8 * l + i] = addr_q[l][i]
             /\ f[48 + 8 * l + i] = input_q[l][i]
    <2>1. /\ 16 + 8 * l + i \in 16 .. 47
          /\ ((16 + 8 * l + i) - 16) \div 8 = l /\ ((16 + 8 * l + i) - 16) % 8 = i
        BY DEF Lane, Wide
    <2>2. /\ 48 + 8 * l + i \in 48 .. 79
          /\ ((48 + 8 * l + i) - 48) \div 8 = l /\ ((48 + 8 * l + i) - 48) % 8 = i
        BY DEF Lane, Wide
    <2>3. QED
        BY <1>1, <2>1, <2>2, FileNowIs
<1>4. [i \in Digest |-> f[i]] = pub_seed_q
    BY <1>2 DEF Shapes
<1>5. [l \in Lane |-> [i \in Wide |-> f[16 + 8 * l + i]]] = addr_q
    BY <1>3 DEF Shapes, IsWideArray
<1>6. [l \in Lane |-> [i \in Wide |-> f[48 + 8 * l + i]]] = input_q
    BY <1>3 DEF Shapes, IsWideArray
<1>7. f[80].inblocks = inblocks_q
    BY <1>1, FileNowIs
<1>8. RegisterFile!Jobs(f)
        = [seed |-> [i \in Digest |-> f[i]],
           addr |-> [l \in Lane |-> [i \in Wide |-> f[16 + 8 * l + i]]],
           in |-> [l \in Lane |-> [i \in Wide |-> f[48 + 8 * l + i]]],
           inblocks |-> f[80].inblocks]
    BY SameData, Regions DEF RegisterFile!Jobs
<1>9. QED
    BY <1>1, <1>4, <1>5, <1>6, <1>7, <1>8 DEF Request

LEMMA DigestsIn ==
    ASSUME NEW f
    PROVE  /\ \A a \in 96 .. 111 : RegisterFile!WithDigests(f)[a] =
                RegisterFile!ThashX4(RegisterFile!Jobs(f))[(a - 96) \div 4][(a - 96) % 4]
           /\ RegisterFile!WithDigests(f)[81] = [f[81] EXCEPT !.busy = FALSE, !.done = TRUE]
           /\ \A a \in RegisterAddr : a \notin 96 .. 111 /\ a # 81 =>
                 RegisterFile!WithDigests(f)[a] = f[a]
<1> DEFINE out == RegisterFile!ThashX4(RegisterFile!Jobs(f))
<1>1. RegisterFile!WithDigests(f)
        = [a \in RegisterFile!Addr |->
             CASE a \in RegisterFile!OutAddr -> out[(a - 96) \div 4][(a - 96) % 4]
               [] a = RegisterFile!StatusAddr -> [f[a] EXCEPT !.busy = FALSE, !.done = TRUE]
               [] OTHER -> f[a]]
    BY DEF RegisterFile!WithDigests
<1> HIDE DEF out
<1>2. /\ 96 .. 111 \subseteq RegisterAddr /\ 81 \in RegisterAddr /\ 81 \notin 96 .. 111
    BY DEF RegisterAddr
<1>3. ASSUME NEW a \in 96 .. 111
      PROVE  RegisterFile!WithDigests(f)[a] = out[(a - 96) \div 4][(a - 96) % 4]
    <2>1. a \in RegisterFile!Addr /\ a \in RegisterFile!OutAddr /\ a # RegisterFile!StatusAddr
        BY <1>2, Regions
    <2>2. QED
        BY <1>1, <2>1
<1>4. RegisterFile!WithDigests(f)[81] = [f[81] EXCEPT !.busy = FALSE, !.done = TRUE]
    <2>1. /\ 81 \in RegisterFile!Addr /\ 81 \notin RegisterFile!OutAddr
          /\ 81 = RegisterFile!StatusAddr
        BY <1>2, Regions
    <2>2. QED
        BY <1>1, <2>1
<1>5. ASSUME NEW a \in RegisterAddr, a \notin 96 .. 111, a # 81
      PROVE  RegisterFile!WithDigests(f)[a] = f[a]
    <2>1. /\ a \in RegisterFile!Addr /\ a \notin RegisterFile!OutAddr
          /\ a # RegisterFile!StatusAddr
        BY <1>5, Regions
    <2>2. QED
        BY <1>1, <2>1
<1>6. QED
    BY <1>3, <1>4, <1>5, Zenon DEF out

LEMMA BaseIs ==
    ASSUME Inv, Shapes
    PROVE  /\ \A a \in 0 .. 3 : Base[a] = pub_seed_q[a]
           /\ \A a \in 16 .. 47 : Base[a] = addr_q[(a - 16) \div 8][(a - 16) % 8]
           /\ \A a \in 48 .. 79 : Base[a] = input_q[(a - 48) \div 8][(a - 48) % 8]
           /\ \A a \in 96 .. 111 : Base[a] = NextOut[(a - 96) \div 4][(a - 96) % 4]
           /\ Base[80] = [inblocks |-> inblocks_q]
           /\ Base[81] = Captured(flags_q)
<1>1. CASE ~Capture
    BY <1>1, FileNowIs DEF Base, NextOut, Captured
<1>2. CASE Capture
    <2>1. answer = ThashX4(Request)
        BY <1>2 DEF Capture, Inv, JobIsOfRegisters
    <2>2. PICK f, out : f = FileNow /\ out = answer
        OBVIOUS
    <2>3. RegisterFile!ThashX4(RegisterFile!Jobs(f)) = out
        BY <2>1, <2>2, JobsIs, SameData
    <2>4. /\ \A a \in 96 .. 111 : RegisterFile!WithDigests(f)[a]
                                    = out[(a - 96) \div 4][(a - 96) % 4]
          /\ RegisterFile!WithDigests(f)[81] = [f[81] EXCEPT !.busy = FALSE, !.done = TRUE]
          /\ \A a \in RegisterAddr : a \notin 96 .. 111 /\ a # 81 =>
                RegisterFile!WithDigests(f)[a] = f[a]
        <3>1. \A a \in 96 .. 111 : RegisterFile!WithDigests(f)[a]
                 = RegisterFile!ThashX4(RegisterFile!Jobs(f))[(a - 96) \div 4][(a - 96) % 4]
            BY DigestsIn
        <3>2. RegisterFile!WithDigests(f)[81] = [f[81] EXCEPT !.busy = FALSE, !.done = TRUE]
            BY DigestsIn
        <3>3. \A a \in RegisterAddr : a \notin 96 .. 111 /\ a # 81 =>
                RegisterFile!WithDigests(f)[a] = f[a]
            BY DigestsIn
        <3>4. QED
            BY <2>3, <3>1, <3>2, <3>3
    <2>6. Base = RegisterFile!WithDigests(f) /\ NextOut = out
        BY <1>2, <2>2 DEF Base, NextOut
    <2>7. Captured(flags_q) = [flags_q EXCEPT !.busy = FALSE, !.done = TRUE]
        BY <1>2 DEF Captured
    <2>9. \A a \in 96 .. 111 : Base[a] = NextOut[(a - 96) \div 4][(a - 96) % 4]
        BY <2>4, <2>6, Zenon
    <2>10. \A a \in RegisterAddr : a \notin 96 .. 111 /\ a # 81 => Base[a] = FileNow[a]
        BY <2>2, <2>4, <2>6, Zenon
    <2>11. Base[81] = Captured(flags_q)
        <3>1. Base[81] = [f[81] EXCEPT !.busy = FALSE, !.done = TRUE]
            BY <2>4, <2>6, Zenon
        <3>2. f[81] = flags_q
            BY <2>2, FileNowIs, Zenon
        <3>3. QED
            BY <2>7, <3>1, <3>2, Zenon
    <2>12. /\ \A a \in 0 .. 3 : a \in RegisterAddr /\ a \notin 96 .. 111 /\ a # 81
           /\ \A a \in 16 .. 47 : a \in RegisterAddr /\ a \notin 96 .. 111 /\ a # 81
           /\ \A a \in 48 .. 79 : a \in RegisterAddr /\ a \notin 96 .. 111 /\ a # 81
           /\ 80 \in RegisterAddr /\ 80 \notin 96 .. 111 /\ 80 # 81
        BY DEF RegisterAddr
    <2>13. /\ \A a \in 0 .. 3 : Base[a] = pub_seed_q[a]
           /\ Base[80] = [inblocks |-> inblocks_q]
        BY <2>10, <2>12, FileNowIs
    <2>14. \A a \in 16 .. 47 : Base[a] = addr_q[(a - 16) \div 8][(a - 16) % 8]
        <3>1. ASSUME NEW a \in 16 .. 47
              PROVE  Base[a] = addr_q[(a - 16) \div 8][(a - 16) % 8]
            <4>1. Base[a] = FileNow[a]
                BY <2>10, <2>12
            <4>2. FileNow[a] = addr_q[(a - 16) \div 8][(a - 16) % 8]
                BY FileNowIs
            <4>3. QED
                BY <4>1, <4>2
        <3>2. QED
            BY <3>1
    <2>15. \A a \in 48 .. 79 : Base[a] = input_q[(a - 48) \div 8][(a - 48) % 8]
        <3>1. ASSUME NEW a \in 48 .. 79
              PROVE  Base[a] = input_q[(a - 48) \div 8][(a - 48) % 8]
            <4>1. Base[a] = FileNow[a]
                BY <2>10, <2>12
            <4>2. FileNow[a] = input_q[(a - 48) \div 8][(a - 48) % 8]
                BY FileNowIs
            <4>3. QED
                BY <4>1, <4>2
        <3>2. QED
            BY <3>1
    <2>16. QED
        BY <2>9, <2>11, <2>13, <2>14, <2>15, Zenon
<1>3. QED
    BY <1>1, <1>2

\* The file after the cycle, word by word.
LEMMA NextFileIs ==
    /\ \A a \in 0 .. 3 : FileNow'[a] = pub_seed_q'[a]
    /\ \A a \in 16 .. 47 : FileNow'[a] = addr_q'[(a - 16) \div 8][(a - 16) % 8]
    /\ \A a \in 48 .. 79 : FileNow'[a] = input_q'[(a - 48) \div 8][(a - 48) % 8]
    /\ \A a \in 96 .. 111 : FileNow'[a] = output_q'[(a - 96) \div 4][(a - 96) % 4]
    /\ FileNow'[80] = [inblocks |-> inblocks_q']
    /\ FileNow'[81] = flags_q'
<1>1. PICK seed, addr, in, out, n, flags :
          /\ seed = pub_seed_q' /\ addr = addr_q' /\ in = input_q'
          /\ out = output_q' /\ n = inblocks_q' /\ flags = flags_q'
    OBVIOUS
<1>2. \A a \in RegisterAddr : FileNow'[a] = FileWord(seed, addr, in, out, n, flags, a)
    BY <1>1 DEF FileNow, RegisterAt, FileWord
<1>3. /\ 0 .. 3 \subseteq RegisterAddr /\ 16 .. 47 \subseteq RegisterAddr
      /\ 48 .. 79 \subseteq RegisterAddr /\ 96 .. 111 \subseteq RegisterAddr
      /\ 80 \in RegisterAddr /\ 81 \in RegisterAddr
    BY DEF RegisterAddr
<1>4. QED
    BY <1>1, <1>2, <1>3, WordIs

\* A cycle that changes no register but the flags.
LEMMA FlagsCycle ==
    ASSUME Inv, Shapes, NEW f, f = Base, UNCHANGED fileVars, output_q' = NextOut
    PROVE  /\ \A b \in RegisterAddr : b # 81 => FileNow'[b] = f[b]
           /\ f[81] = Captured(flags_q) /\ FileNow'[81] = flags_q'
<1>1. /\ pub_seed_q' = pub_seed_q /\ addr_q' = addr_q /\ input_q' = input_q
      /\ inblocks_q' = inblocks_q
    BY DEF fileVars
<1>2. QED
    BY <1>1, BaseIs, NextFileIs, Regions

\* The actions of the register file, over the words of FileNow.
LEMMA BecomesIs ==
    ASSUME NEW f
    PROVE  /\ (\A b \in RegisterAddr : FileNow'[b] = f[b]) => RegisterFile!Becomes(f)
           /\ \A a, w : /\ FileNow'[a] = w
                        /\ \A b \in RegisterAddr : b # a => FileNow'[b] = f[b]
                        => RegisterFile!BecomesBut(f, a, w)
           /\ \A a \in RegisterAddr : a # 81 => RegisterFile!Shown(a) = FileNow[a]
           /\ RegisterFile!Shown(81) = [flags |-> FileNow[81], inblocks |-> FileNow[80].inblocks]
           /\ \A a : a \notin RegisterAddr => RegisterFile!Shown(a) = ZeroWord
           /\ RegisterFile!Busy = FileNow[81].busy
<1>1. RegisterFile!Addr = RegisterAddr /\ RegisterFile!StatusAddr = 81
      /\ RegisterFile!ConfigAddr = 80 /\ RegisterFile!ZeroWord = ZeroWord
    BY Regions, SameData
<1>2. (\A b \in RegisterAddr : FileNow'[b] = f[b]) => RegisterFile!Becomes(f)
    BY <1>1 DEF RegisterFile!Becomes, FileNow
<1>3. ASSUME NEW a, NEW w, FileNow'[a] = w,
             \A b \in RegisterAddr : b # a => FileNow'[b] = f[b]
      PROVE  RegisterFile!BecomesBut(f, a, w)
    BY <1>1, <1>3 DEF RegisterFile!BecomesBut, FileNow
<1>4. ASSUME NEW a \in RegisterAddr, a # 81 PROVE RegisterFile!Shown(a) = FileNow[a]
    BY <1>1, <1>4 DEF RegisterFile!Shown, FileNow
<1>5. RegisterFile!Shown(81) = [flags |-> FileNow[81], inblocks |-> FileNow[80].inblocks]
    BY <1>1 DEF RegisterFile!Shown, FileNow
<1>6. ASSUME NEW a, a \notin RegisterAddr PROVE RegisterFile!Shown(a) = ZeroWord
    <2>1. a # 81
        BY <1>6, Regions
    <2>2. QED
        BY <1>1, <1>6, <2>1 DEF RegisterFile!Shown
<1>7. RegisterFile!Busy = FileNow[81].busy
    BY <1>1 DEF RegisterFile!Busy, FileNow
<1>8. QED
    BY <1>2, <1>3, <1>4, <1>5, <1>6, <1>7

LEMMA BusyIs == RegisterFile!Busy = flags_q.busy
    BY BecomesIs, FileNowIs

\* A read shows what stands at the address.
LEMMA ReadShows == \A a : ReadRdata(Decode(a)) = RegisterFile!Shown(a)
<1>1. /\ \A i : ReadRdata(Selected("pub_seed", 0, i)) = pub_seed_q[i]
      /\ \A l, i : ReadRdata(Selected("addr", l, i)) = addr_q[l][i]
      /\ \A l, i : ReadRdata(Selected("input", l, i)) = input_q[l][i]
      /\ \A l, i : ReadRdata(Selected("output", l, i)) = output_q[l][i]
      /\ ReadRdata(Selected("config", 0, 0)) = [inblocks |-> inblocks_q]
      /\ ReadRdata(Selected("status", 0, 0)) = [flags |-> flags_q, inblocks |-> inblocks_q]
      /\ ReadRdata(Selected("none", 0, 0)) = ZeroWord
    BY DEF ReadRdata, Selected, InblocksWord, FlagsWord
<1>2. ASSUME NEW a \in RegisterAddr PROVE ReadRdata(Decode(a)) = RegisterFile!Shown(a)
    <2>1. CASE a \in 0 .. 3
        <3>1. Decode(a) = Selected("pub_seed", 0, a) /\ a # 81
            BY <2>1, DecodeIs
        <3>2. FileNow[a] = pub_seed_q[a]
            BY <2>1, FileNowIs
        <3>3. QED
            BY <1>1, <3>1, <3>2, BecomesIs
    <2>2. CASE a \in 16 .. 47
        <3>1. Decode(a) = Selected("addr", (a - 16) \div 8, (a - 16) % 8) /\ a # 81
            BY <2>2, DecodeIs
        <3>2. FileNow[a] = addr_q[(a - 16) \div 8][(a - 16) % 8]
            BY <2>2, FileNowIs
        <3>3. QED
            BY <1>1, <3>1, <3>2, BecomesIs
    <2>3. CASE a \in 48 .. 79
        <3>1. Decode(a) = Selected("input", (a - 48) \div 8, (a - 48) % 8) /\ a # 81
            BY <2>3, DecodeIs
        <3>2. FileNow[a] = input_q[(a - 48) \div 8][(a - 48) % 8]
            BY <2>3, FileNowIs
        <3>3. QED
            BY <1>1, <3>1, <3>2, BecomesIs
    <2>4. CASE a \in 96 .. 111
        <3>1. Decode(a) = Selected("output", (a - 96) \div 4, (a - 96) % 4) /\ a # 81
            BY <2>4, DecodeIs
        <3>2. FileNow[a] = output_q[(a - 96) \div 4][(a - 96) % 4]
            BY <2>4, FileNowIs
        <3>3. QED
            BY <1>1, <3>1, <3>2, BecomesIs
    <2>5. CASE a = 80
        <3>1. Decode(a) = Selected("config", 0, 0) /\ a # 81 /\ FileNow[a] = [inblocks |-> inblocks_q]
            BY <2>5, DecodeIs, FileNowIs
        <3>2. RegisterFile!Shown(a) = FileNow[a]
            BY <3>1, BecomesIs
        <3>3. QED
            BY <1>1, <3>1, <3>2
    <2>6. CASE a = 81
        <3>1. FileNow[80].inblocks = inblocks_q /\ FileNow[81] = flags_q
            BY FileNowIs
        <3>2. RegisterFile!Shown(81) = [flags |-> flags_q, inblocks |-> inblocks_q]
            BY <3>1, BecomesIs
        <3>3. QED
            BY <1>1, <2>6, <3>2, DecodeIs
    <2>7. QED
        BY <2>1, <2>2, <2>3, <2>4, <2>5, <2>6, Regions
<1>3. ASSUME NEW a, a \notin RegisterAddr PROVE ReadRdata(Decode(a)) = RegisterFile!Shown(a)
    BY <1>1, <1>3, DecodeIs, BecomesIs
<1>4. QED
    BY <1>2, <1>3

\* Which addresses are mapped, and where a write goes.
LEMMA MappedIs ==
    /\ \A a \in RegisterAddr : Decode(a).sel # "none"
    /\ \A a \in RegisterAddr : Decode(a).sel = "output" <=> a \in 96 .. 111
    /\ \A a \in RegisterAddr : Decode(a).sel = "status" <=> a = 81
    /\ \A a : a \notin RegisterAddr => Decode(a).sel = "none"
<1>1. \A s, l, i : Selected(s, l, i).sel = s
    BY DEF Selected
<1>2. /\ \A a \in 0 .. 3 : Decode(a).sel = "pub_seed" /\ a \notin 96 .. 111 /\ a # 81
      /\ \A a \in 16 .. 47 : Decode(a).sel = "addr" /\ a \notin 96 .. 111 /\ a # 81
      /\ \A a \in 48 .. 79 : Decode(a).sel = "input" /\ a \notin 96 .. 111 /\ a # 81
      /\ \A a \in 96 .. 111 : Decode(a).sel = "output" /\ a # 81
      /\ Decode(80).sel = "config" /\ 80 \notin 96 .. 111
      /\ Decode(81).sel = "status" /\ 81 \notin 96 .. 111
      /\ \A a : a \notin RegisterAddr => Decode(a).sel = "none"
    BY <1>1, DecodeIs
<1>3. ASSUME NEW a \in RegisterAddr
      PROVE  /\ Decode(a).sel # "none" /\ (Decode(a).sel = "output" <=> a \in 96 .. 111)
             /\ (Decode(a).sel = "status" <=> a = 81)
    <2>1. CASE a \in 0 .. 3
        BY <1>2, <2>1
    <2>2. CASE a \in 16 .. 47
        BY <1>2, <2>2
    <2>3. CASE a \in 48 .. 79
        BY <1>2, <2>3
    <2>4. CASE a \in 96 .. 111
        BY <1>2, <2>4
    <2>5. CASE a = 80
        BY <1>2, <2>5
    <2>6. CASE a = 81
        BY <1>2, <2>6
    <2>7. QED
        BY <2>1, <2>2, <2>3, <2>4, <2>5, <2>6, Regions
<1>4. QED
    BY <1>2, <1>3

\* A cycle that takes nothing: the file stays, or gets its digests.
LEMMA IdleTick ==
    ASSUME Inv, Shapes, NEW cmd, WrapperTick(cmd), ~(cmd # NoCommand /\ CmdReady(cmd.op)),
           NEW f, f = Base
    PROVE  RegisterFile!Becomes(f) /\ UNCHANGED fileVars
<1>1. /\ output_q' = NextOut /\ flags_q' = Captured(flags_q) /\ UNCHANGED fileVars
    BY DEF WrapperTick, NextOut
<1>2. /\ \A b \in RegisterAddr : b # 81 => FileNow'[b] = f[b]
      /\ FileNow'[81] = f[81]
    BY <1>1, FlagsCycle
<1>3. \A b \in RegisterAddr : FileNow'[b] = f[b]
    BY <1>2
<1>4. QED
    BY <1>1, <1>3, BecomesIs

\* What a command that writes no register makes of the flags.
LEMMA FlagsTick ==
    ASSUME Inv, Shapes, NEW cmd, WrapperTick(cmd), cmd # NoCommand, CmdReady(cmd.op),
           cmd.op # CMD_WRITE, NEW f, f = Base
    PROVE  /\ UNCHANGED fileVars
           /\ \A b \in RegisterAddr : b # 81 => FileNow'[b] = f[b]
           /\ f[81] = Captured(flags_q)
           /\ FileNow'[81] = FlagsAfter(cmd, Decode(cmd.addr))
           /\ f[80] = [inblocks |-> inblocks_q]
<1>1. /\ output_q' = NextOut /\ flags_q' = FlagsAfter(cmd, Decode(cmd.addr))
      /\ WrapperRead(cmd, Decode(cmd.addr))
    BY DEF WrapperTick, NextOut
<1>2. UNCHANGED fileVars
    BY <1>1 DEF WrapperRead
<1>3. QED
    BY <1>1, <1>2, FlagsCycle, BaseIs

LEMMA ReadTick ==
    ASSUME Inv, Shapes, NEW cmd, WrapperTick(cmd), cmd # NoCommand, cmd.op = CMD_READ,
           NEW f, f = Base
    PROVE  /\ RegisterFile!Read(f, cmd.addr) /\ rsp_rdata' = RegisterFile!Shown(cmd.addr)
           /\ UNCHANGED fileVars /\ rsp_valid' = TRUE
<1>1. CmdReady(cmd.op) /\ cmd.op # CMD_WRITE
    BY DEF CmdReady, CMD_READ, CMD_WRITE
<1>2. /\ UNCHANGED fileVars
      /\ \A b \in RegisterAddr : b # 81 => FileNow'[b] = f[b]
      /\ f[81] = Captured(flags_q)
      /\ FileNow'[81] = FlagsAfter(cmd, Decode(cmd.addr))
    BY <1>1, FlagsTick
<1>3. rsp_rdata' = ReadRdata(Decode(cmd.addr)) /\ rsp_valid' = TRUE
    BY <1>1 DEF WrapperTick, WrapperRead
<1>4. rsp_rdata' = RegisterFile!Shown(cmd.addr)
    BY <1>3, ReadShows
<1>5. CASE cmd.addr \in RegisterAddr
    <2>1. Decode(cmd.addr).sel # "none"
        BY <1>5, MappedIs
    <2>2. FlagsAfter(cmd, Decode(cmd.addr)) = Captured(flags_q)
        BY <2>1 DEF FlagsAfter, CMD_READ, CMD_WRITE, CMD_START
    <2>3. \A b \in RegisterAddr : FileNow'[b] = f[b]
        BY <1>2, <2>2
    <2>4. RegisterFile!Becomes(f)
        BY <2>3, BecomesIs
    <2>5. RegisterFile!Read(f, cmd.addr)
        BY <1>5, <2>4, Regions DEF RegisterFile!Read
    <2>6. QED
        BY <1>2, <1>3, <1>4, <2>5
<1>6. CASE cmd.addr \notin RegisterAddr
    <2>1. Decode(cmd.addr).sel = "none"
        BY <1>6, MappedIs
    <2>2. FlagsAfter(cmd, Decode(cmd.addr)) = Failed(Captured(flags_q), 2)
        BY <2>1 DEF FlagsAfter, CMD_READ, CMD_WRITE, CMD_START, ERR_BAD_ADDR
    <2>3. RegisterFile!BecomesBut(f, 81, Failed(f[81], 2))
        BY <1>2, <2>2, BecomesIs
    <2>4. RegisterFile!Error(f, 2)
        BY <2>3, Regions DEF RegisterFile!Error, Failed
    <2>5. RegisterFile!Read(f, cmd.addr)
        BY <1>6, <2>4, Regions DEF RegisterFile!Read
    <2>6. QED
        BY <1>2, <1>3, <1>4, <2>5
<1>7. QED
    BY <1>5, <1>6

LEMMA CapturedFlags == ASSUME Inv PROVE Captured(flags_q) \in Flags
    BY DEF Inv, Flags, Captured

LEMMA StartTick ==
    ASSUME Inv, Shapes, NEW cmd, WrapperTick(cmd), cmd # NoCommand, cmd.op = CMD_START,
           CmdReady(cmd.op), NEW f, f = Base
    PROVE  /\ RegisterFile!Start(f)
           /\ UNCHANGED fileVars /\ rsp_valid' = TRUE /\ rsp_rdata' = ZeroWord
<1>1. cmd.op # CMD_WRITE /\ cmd.op # CMD_READ
    BY DEF CMD_READ, CMD_WRITE, CMD_START
<1>2. /\ UNCHANGED fileVars
      /\ \A b \in RegisterAddr : b # 81 => FileNow'[b] = f[b]
      /\ FileNow'[81] = FlagsAfter(cmd, Decode(cmd.addr))
      /\ f[80] = [inblocks |-> inblocks_q]
    BY <1>1, FlagsTick
<1>3. rsp_rdata' = ZeroWord /\ rsp_valid' = TRUE
    BY <1>1 DEF WrapperTick, WrapperRead
<1>4. PICK g : g = Captured(flags_q)
    OBVIOUS
<1>5. g \in Flags
    BY <1>4, CapturedFlags
<1>6. FlagsAfter(cmd, Decode(cmd.addr))
        = IF inblocks_q \in {1, 2}
          THEN [busy |-> TRUE, done |-> FALSE, error |-> FALSE, code |-> 0]
          ELSE [busy |-> FALSE, done |-> FALSE, error |-> TRUE, code |-> 3]
    <2>1. CASE ServedInblocks
        <3>1. FlagsAfter(cmd, Decode(cmd.addr)) = [NoError(g) EXCEPT !.busy = TRUE, !.done = FALSE]
            BY <1>1, <1>4, <2>1 DEF FlagsAfter
        <3>2. QED
            BY <1>5, <2>1, <3>1 DEF NoError, Flags, ServedInblocks
    <2>2. CASE ~ServedInblocks
        <3>1. FlagsAfter(cmd, Decode(cmd.addr))
                = [Failed(g, ERR_BAD_INBLOCKS) EXCEPT !.busy = FALSE, !.done = FALSE]
            BY <1>1, <1>4, <2>2 DEF FlagsAfter
        <3>2. QED
            BY <1>5, <2>2, <3>1 DEF Failed, Flags, ServedInblocks, ERR_BAD_INBLOCKS
    <2>3. QED
        BY <2>1, <2>2
<1>7. RegisterFile!BecomesBut(f, 81,
          IF f[80].inblocks \in {1, 2}
          THEN [busy |-> TRUE, done |-> FALSE, error |-> FALSE, code |-> 0]
          ELSE [busy |-> FALSE, done |-> FALSE, error |-> TRUE, code |-> 3])
    <2>1. f[80].inblocks = inblocks_q
        BY <1>2
    <2>2. QED
        BY <1>2, <1>6, <2>1, BecomesIs
<1>8. RegisterFile!Start(f)
    BY <1>7, Regions DEF RegisterFile!Start, RegisterFile!Status
<1>9. QED
    BY <1>2, <1>3, <1>8

LEMMA OtherTick ==
    ASSUME Inv, Shapes, NEW cmd, WrapperTick(cmd), cmd # NoCommand,
           cmd.op \notin {CMD_READ, CMD_WRITE, CMD_START}, CmdReady(cmd.op), NEW f, f = Base
    PROVE  /\ RegisterFile!Error(f, 1)
           /\ UNCHANGED fileVars /\ rsp_valid' = TRUE /\ rsp_rdata' = ZeroWord
<1>1. /\ UNCHANGED fileVars
      /\ \A b \in RegisterAddr : b # 81 => FileNow'[b] = f[b]
      /\ f[81] = Captured(flags_q)
      /\ FileNow'[81] = FlagsAfter(cmd, Decode(cmd.addr))
    BY FlagsTick
<1>2. rsp_rdata' = ZeroWord /\ rsp_valid' = TRUE
    BY DEF WrapperTick, WrapperRead
<1>3. FlagsAfter(cmd, Decode(cmd.addr)) = Failed(Captured(flags_q), 1)
    BY DEF FlagsAfter, ERR_BAD_OP
<1>4. RegisterFile!BecomesBut(f, 81, Failed(f[81], 1))
    BY <1>1, <1>3, BecomesIs
<1>5. RegisterFile!Error(f, 1)
    BY <1>4, Regions DEF RegisterFile!Error, Failed
<1>6. QED
    BY <1>1, <1>2, <1>5

PutAt(r1, r, m, j, w) ==
    /\ r1[m][j] = w
    /\ \A l \in Lane, i \in Wide : ~(l = m /\ i = j) => r1[l][i] = r[l][i]
    /\ IsWideArray(r1)

LEMMA LaneArray ==
    ASSUME NEW r, NEW r1, NEW w, NEW m \in Lane, NEW j \in Wide,
           IsWideArray(r), r1 = [r EXCEPT ![m][j] = w]
    PROVE  PutAt(r1, r, m, j, w)
<1>1. r1 = [l \in Lane |-> IF l = m THEN [r[m] EXCEPT ![j] = w] ELSE r[l]]
    BY DEF IsWideArray
<1>2. ASSUME NEW l \in Lane PROVE r[l] = [i \in Wide |-> r[l][i]]
    BY DEF IsWideArray
<1>3. r1[m] = [i \in Wide |-> IF i = j THEN w ELSE r[m][i]]
    BY <1>1, <1>2
<1>4. ASSUME NEW l \in Lane, l # m PROVE r1[l] = r[l]
    BY <1>1, <1>4
<1>5. ASSUME NEW l \in Lane PROVE r1[l] = [i \in Wide |-> r1[l][i]]
    BY <1>2, <1>3, <1>4
<1>6. IsWideArray(r1)
    BY <1>1, <1>5 DEF IsWideArray
<1>7. QED
    BY <1>3, <1>4, <1>6 DEF PutAt

\* What a write leaves of the arrays' shape, and of the outputs.
LEMMA WriteTick ==
    ASSUME NEW cmd, NEW s, WrapperTick(cmd), cmd # NoCommand, cmd.op = CMD_WRITE,
           CmdReady(cmd.op), s = Decode(cmd.addr)
    PROVE  /\ output_q' = NextOut /\ flags_q' = FlagsAfter(cmd, s)
           /\ rsp_valid' = TRUE /\ rsp_rdata' = ZeroWord
           /\ s.sel = "pub_seed" => pub_seed_q' = [pub_seed_q EXCEPT ![s.word] = cmd.wdata]
           /\ s.sel # "pub_seed" => pub_seed_q' = pub_seed_q
           /\ s.sel = "addr" => addr_q' = [addr_q EXCEPT ![s.lane][s.word] = cmd.wdata]
           /\ s.sel # "addr" => addr_q' = addr_q
           /\ s.sel = "input" => input_q' = [input_q EXCEPT ![s.lane][s.word] = cmd.wdata]
           /\ s.sel # "input" => input_q' = input_q
           /\ s.sel = "config" => inblocks_q' = Number(cmd.wdata) % 4
           /\ s.sel # "config" => inblocks_q' = inblocks_q
<1>1. WrapperRead(cmd, s) /\ output_q' = NextOut /\ flags_q' = FlagsAfter(cmd, s) /\ rsp_valid' = TRUE
    BY DEF WrapperTick, NextOut
<1>2. rsp_rdata' = ZeroWord
    BY <1>1 DEF WrapperRead, CMD_READ, CMD_WRITE
<1>3. QED
    BY <1>1, <1>2 DEF WrapperRead

LEMMA WriteFlags ==
    ASSUME NEW cmd, NEW s, cmd.op = CMD_WRITE
    PROVE  /\ s.sel \notin {"status", "none", "output"} => FlagsAfter(cmd, s) = Captured(flags_q)
           /\ s.sel \in {"none", "output"} => FlagsAfter(cmd, s) = Failed(Captured(flags_q), 2)
           /\ s.sel = "status" =>
                 FlagsAfter(cmd, s) = StatusWritten(Captured(flags_q), Number(cmd.wdata))
    BY DEF FlagsAfter, CMD_READ, CMD_WRITE, CMD_START, ERR_BAD_ADDR

\* The four regions that a write leaves alone, and the one it goes to.
LEMMA SeedWrite ==
    ASSUME Inv, Shapes, NEW cmd, WrapperTick(cmd), cmd # NoCommand, cmd.op = CMD_WRITE,
           CmdReady(cmd.op), cmd.addr \in 0 .. 3, NEW f, f = Base
    PROVE  RegisterFile!BecomesBut(f, cmd.addr, cmd.wdata) /\ Shapes'
<1>1. PICK a : a = cmd.addr
    OBVIOUS
<1>2. Decode(a) = Selected("pub_seed", 0, a)
    BY <1>1, DecodeIs
<1>3. /\ output_q' = NextOut /\ flags_q' = Captured(flags_q)
      /\ pub_seed_q' = [pub_seed_q EXCEPT ![a] = cmd.wdata] /\ addr_q' = addr_q
      /\ input_q' = input_q /\ inblocks_q' = inblocks_q
    <2>1. PICK s : s = Decode(cmd.addr)
        OBVIOUS
    <2>2. s.sel = "pub_seed" /\ s.word = a
        BY <1>1, <1>2, <2>1 DEF Selected
    <2>3. /\ output_q' = NextOut /\ flags_q' = FlagsAfter(cmd, s)
          /\ pub_seed_q' = [pub_seed_q EXCEPT ![s.word] = cmd.wdata]
          /\ addr_q' = addr_q /\ input_q' = input_q /\ inblocks_q' = inblocks_q
        BY <2>1, <2>2, WriteTick
    <2>4. FlagsAfter(cmd, s) = Captured(flags_q)
        BY <2>2, WriteFlags
    <2>5. QED
        BY <2>2, <2>3, <2>4
<1>4. /\ pub_seed_q'[a] = cmd.wdata
      /\ \A b \in 0 .. 3 : b # a => pub_seed_q'[b] = pub_seed_q[b]
      /\ pub_seed_q' = [i \in Digest |-> pub_seed_q'[i]]
    BY <1>1, <1>3 DEF Shapes, Digest
<1>5. FileNow'[a] = cmd.wdata
    BY <1>1, <1>4, NextFileIs
<1>6. ASSUME NEW b \in RegisterAddr, b # a PROVE FileNow'[b] = f[b]
    <2>1. CASE b \in 0 .. 3
        BY <1>4, <1>6, <2>1, NextFileIs, BaseIs
    <2>2. CASE b \in 16 .. 47
        BY <1>3, <2>2, NextFileIs, BaseIs
    <2>3. CASE b \in 48 .. 79
        BY <1>3, <2>3, NextFileIs, BaseIs
    <2>4. CASE b \in 96 .. 111
        BY <1>3, <2>4, NextFileIs, BaseIs
    <2>5. CASE b = 80 \/ b = 81
        BY <1>3, <2>5, NextFileIs, BaseIs
    <2>6. QED
        BY <2>1, <2>2, <2>3, <2>4, <2>5, Regions
<1>7. RegisterFile!BecomesBut(f, cmd.addr, cmd.wdata)
    BY <1>1, <1>5, <1>6, BecomesIs
<1>8. Shapes'
    BY <1>3, <1>4 DEF Shapes
<1>9. QED
    BY <1>7, <1>8

LEMMA AddrWrite ==
    ASSUME Inv, Shapes, NEW cmd, WrapperTick(cmd), cmd # NoCommand, cmd.op = CMD_WRITE,
           CmdReady(cmd.op), cmd.addr \in 16 .. 47, NEW f, f = Base
    PROVE  RegisterFile!BecomesBut(f, cmd.addr, cmd.wdata) /\ Shapes'
<1>1. PICK a, l, i : a = cmd.addr /\ l = (a - 16) \div 8 /\ i = (a - 16) % 8
    OBVIOUS
<1>2. Decode(a) = Selected("addr", l, i)
    BY <1>1, DecodeIs
<1>3. /\ output_q' = NextOut /\ flags_q' = Captured(flags_q)
      /\ addr_q' = [addr_q EXCEPT ![l][i] = cmd.wdata] /\ pub_seed_q' = pub_seed_q
      /\ input_q' = input_q /\ inblocks_q' = inblocks_q
    <2>1. PICK s : s = Decode(cmd.addr)
        OBVIOUS
    <2>2. s.sel = "addr" /\ s.lane = l /\ s.word = i
        BY <1>1, <1>2, <2>1 DEF Selected
    <2>3. /\ output_q' = NextOut /\ flags_q' = FlagsAfter(cmd, s)
          /\ addr_q' = [addr_q EXCEPT ![s.lane][s.word] = cmd.wdata]
          /\ pub_seed_q' = pub_seed_q /\ input_q' = input_q /\ inblocks_q' = inblocks_q
        BY <2>1, <2>2, WriteTick
    <2>4. FlagsAfter(cmd, s) = Captured(flags_q)
        BY <2>2, WriteFlags
    <2>5. QED
        BY <2>2, <2>3, <2>4
<1>4. l \in Lane /\ i \in Wide
    BY <1>1 DEF Lane, Wide
<1>5. /\ addr_q'[l][i] = cmd.wdata
      /\ \A m \in Lane, j \in Wide : ~(m = l /\ j = i) => addr_q'[m][j] = addr_q[m][j]
      /\ IsWideArray(addr_q')
    <2>1. PICK r, r1, w : r = addr_q /\ r1 = addr_q' /\ w = cmd.wdata
        OBVIOUS
    <2>2. IsWideArray(r)
        BY <2>1 DEF Shapes
    <2>3. r1 = [r EXCEPT ![l][i] = w]
        BY <1>3, <2>1
    <2>4. PutAt(r1, r, l, i, w)
        BY <1>4, <2>2, <2>3, LaneArray, Zenon
    <2>5. QED
        BY <2>1, <2>4 DEF PutAt
<1>6. FileNow'[a] = cmd.wdata
    BY <1>1, <1>5, NextFileIs
<1>7. ASSUME NEW b \in RegisterAddr, b # a PROVE FileNow'[b] = f[b]
    <2>1. CASE b \in 0 .. 3
        BY <1>3, <2>1, NextFileIs, BaseIs
    <2>2. CASE b \in 16 .. 47
        <3>1. (b - 16) \div 8 \in Lane /\ (b - 16) % 8 \in Wide
            BY <2>2 DEF Lane, Wide
        <3>2. ~((b - 16) \div 8 = l /\ (b - 16) % 8 = i)
            BY <1>1, <1>7, <2>2
        <3>3. FileNow'[b] = addr_q'[(b - 16) \div 8][(b - 16) % 8]
            BY <2>2, NextFileIs
        <3>4. f[b] = addr_q[(b - 16) \div 8][(b - 16) % 8]
            BY <2>2, BaseIs
        <3>5. QED
            BY <1>5, <3>1, <3>2, <3>3, <3>4
    <2>3. CASE b \in 48 .. 79
        BY <1>3, <2>3, NextFileIs, BaseIs
    <2>4. CASE b \in 96 .. 111
        BY <1>3, <2>4, NextFileIs, BaseIs
    <2>5. CASE b = 80 \/ b = 81
        BY <1>3, <2>5, NextFileIs, BaseIs
    <2>6. QED
        BY <2>1, <2>2, <2>3, <2>4, <2>5, Regions
<1>8. RegisterFile!BecomesBut(f, cmd.addr, cmd.wdata)
    BY <1>1, <1>6, <1>7, BecomesIs
<1>9. Shapes'
    BY <1>3, <1>5 DEF Shapes
<1>10. QED
    BY <1>8, <1>9

LEMMA InputWrite ==
    ASSUME Inv, Shapes, NEW cmd, WrapperTick(cmd), cmd # NoCommand, cmd.op = CMD_WRITE,
           CmdReady(cmd.op), cmd.addr \in 48 .. 79, NEW f, f = Base
    PROVE  RegisterFile!BecomesBut(f, cmd.addr, cmd.wdata) /\ Shapes'
<1>1. PICK a, l, i : a = cmd.addr /\ l = (a - 48) \div 8 /\ i = (a - 48) % 8
    OBVIOUS
<1>2. Decode(a) = Selected("input", l, i)
    BY <1>1, DecodeIs
<1>3. /\ output_q' = NextOut /\ flags_q' = Captured(flags_q)
      /\ input_q' = [input_q EXCEPT ![l][i] = cmd.wdata] /\ pub_seed_q' = pub_seed_q
      /\ addr_q' = addr_q /\ inblocks_q' = inblocks_q
    <2>1. PICK s : s = Decode(cmd.addr)
        OBVIOUS
    <2>2. s.sel = "input" /\ s.lane = l /\ s.word = i
        BY <1>1, <1>2, <2>1 DEF Selected
    <2>3. /\ output_q' = NextOut /\ flags_q' = FlagsAfter(cmd, s)
          /\ input_q' = [input_q EXCEPT ![s.lane][s.word] = cmd.wdata]
          /\ pub_seed_q' = pub_seed_q /\ addr_q' = addr_q /\ inblocks_q' = inblocks_q
        <3>1. s.sel # "pub_seed" /\ s.sel # "addr" /\ s.sel # "config"
            BY <2>2
        <3>2. QED
            BY <2>1, <2>2, <3>1, WriteTick, Zenon
    <2>4. FlagsAfter(cmd, s) = Captured(flags_q)
        BY <2>2, WriteFlags
    <2>5. QED
        BY <2>2, <2>3, <2>4
<1>4. l \in Lane /\ i \in Wide
    BY <1>1 DEF Lane, Wide
<1>5. /\ input_q'[l][i] = cmd.wdata
      /\ \A m \in Lane, j \in Wide : ~(m = l /\ j = i) => input_q'[m][j] = input_q[m][j]
      /\ IsWideArray(input_q')
    <2>1. PICK r, r1, w : r = input_q /\ r1 = input_q' /\ w = cmd.wdata
        OBVIOUS
    <2>2. IsWideArray(r)
        BY <2>1 DEF Shapes
    <2>3. r1 = [r EXCEPT ![l][i] = w]
        BY <1>3, <2>1
    <2>4. PutAt(r1, r, l, i, w)
        BY <1>4, <2>2, <2>3, LaneArray, Zenon
    <2>5. QED
        BY <2>1, <2>4 DEF PutAt
<1>6. FileNow'[a] = cmd.wdata
    BY <1>1, <1>5, NextFileIs
<1>7. ASSUME NEW b \in RegisterAddr, b # a PROVE FileNow'[b] = f[b]
    <2>1. CASE b \in 0 .. 3
        BY <1>3, <2>1, NextFileIs, BaseIs
    <2>2. CASE b \in 48 .. 79
        <3>1. (b - 48) \div 8 \in Lane /\ (b - 48) % 8 \in Wide
            BY <2>2 DEF Lane, Wide
        <3>2. ~((b - 48) \div 8 = l /\ (b - 48) % 8 = i)
            BY <1>1, <1>7, <2>2
        <3>3. FileNow'[b] = input_q'[(b - 48) \div 8][(b - 48) % 8]
            BY <2>2, NextFileIs
        <3>4. f[b] = input_q[(b - 48) \div 8][(b - 48) % 8]
            BY <2>2, BaseIs
        <3>5. QED
            BY <1>5, <3>1, <3>2, <3>3, <3>4
    <2>3. CASE b \in 16 .. 47
        BY <1>3, <2>3, NextFileIs, BaseIs
    <2>4. CASE b \in 96 .. 111
        BY <1>3, <2>4, NextFileIs, BaseIs
    <2>5. CASE b = 80 \/ b = 81
        BY <1>3, <2>5, NextFileIs, BaseIs
    <2>6. QED
        BY <2>1, <2>2, <2>3, <2>4, <2>5, Regions
<1>8. RegisterFile!BecomesBut(f, cmd.addr, cmd.wdata)
    BY <1>1, <1>6, <1>7, BecomesIs
<1>9. Shapes'
    BY <1>3, <1>5 DEF Shapes
<1>10. QED
    BY <1>8, <1>9

LEMMA HostWordIs ==
    ASSUME NEW n
    PROVE  /\ Number(HostWord(n)) = n /\ RegisterFile!NumberIn(HostWord(n)) = n
           /\ HostWord(n) = [src |-> <<"host", n>>, msb |-> 0]
<1>1. <<"host", n>> # <<"zero">> /\ <<"host", n>>[2] = n
    OBVIOUS
<1>2. HostWord(n).src = <<"host", n>> /\ ZeroWord.src = <<"zero">>
    BY DEF HostWord, ZeroWord
<1>3. HostWord(n) # ZeroWord
    BY <1>1, <1>2
<1>4. Number(HostWord(n)) = n
    BY <1>1, <1>2, <1>3 DEF Number
<1>5. RegisterFile!NumberIn(HostWord(n)) = n
    BY <1>1, <1>2 DEF RegisterFile!NumberIn
<1>6. QED
    BY <1>4, <1>5 DEF HostWord

\* Bits 1 and 2 of a number.
LEMMA LowBits ==
    ASSUME NEW n \in Nat
    PROVE  /\ (n \div 2) % 2 = 1 <=> n % 4 \in {2, 3}
           /\ (n \div 4) % 2 = 1 <=> n % 8 \in 4 .. 7
<1>1. PICK q, r : q \in Nat /\ r \in 0 .. 7 /\ n = 8 * q + r
    <2>1. n \div 8 \in Nat /\ n % 8 \in 0 .. 7 /\ n = 8 * (n \div 8) + (n % 8)
        OBVIOUS
    <2>2. QED
        BY <2>1
<1>2. n \div 4 = 2 * q + (r \div 4) /\ n \div 2 = 4 * q + (r \div 2) /\ n % 8 = r /\ n % 4 = r % 4
    BY <1>1
<1>3. (2 * q + (r \div 4)) % 2 = r \div 4 /\ (4 * q + (r \div 2)) % 2 = (r \div 2) % 2
    BY <1>1
<1>4. r \in {0, 1, 2, 3, 4, 5, 6, 7}
    BY <1>1
<1>5. QED
    BY <1>2, <1>3, <1>4

\* What a write that goes to no data register leaves as it was.
LEMMA FlagWrite ==
    ASSUME Inv, Shapes, NEW cmd, NEW s, NEW f, WrapperTick(cmd), cmd # NoCommand,
           cmd.op = CMD_WRITE, CmdReady(cmd.op), s = Decode(cmd.addr),
           s.sel \notin {"pub_seed", "addr", "input"}, f = Base
    PROVE  /\ \A b \in RegisterAddr : b # 80 /\ b # 81 => FileNow'[b] = f[b]
           /\ FileNow'[81] = FlagsAfter(cmd, s) /\ f[81] = Captured(flags_q)
           /\ FileNow'[80] = [inblocks |-> inblocks_q']
           /\ s.sel # "config" => FileNow'[80] = f[80]
           /\ Shapes'
<1>1. /\ output_q' = NextOut /\ flags_q' = FlagsAfter(cmd, s)
      /\ pub_seed_q' = pub_seed_q /\ addr_q' = addr_q /\ input_q' = input_q
      /\ s.sel # "config" => inblocks_q' = inblocks_q
    <2>1. s.sel # "pub_seed" /\ s.sel # "addr" /\ s.sel # "input"
        OBVIOUS
    <2>2. QED
        BY <2>1, WriteTick
<1>2. Shapes'
    BY <1>1 DEF Shapes
<1>3. ASSUME NEW b \in RegisterAddr, b # 80, b # 81 PROVE FileNow'[b] = f[b]
    <2>1. CASE b \in 0 .. 3
        BY <1>1, <2>1, NextFileIs, BaseIs
    <2>2. CASE b \in 16 .. 47
        BY <1>1, <2>2, NextFileIs, BaseIs
    <2>3. CASE b \in 48 .. 79
        BY <1>1, <2>3, NextFileIs, BaseIs
    <2>4. CASE b \in 96 .. 111
        BY <1>1, <2>4, NextFileIs, BaseIs
    <2>5. QED
        BY <1>3, <2>1, <2>2, <2>3, <2>4, Regions
<1>4. /\ FileNow'[81] = flags_q' /\ FileNow'[80] = [inblocks |-> inblocks_q']
      /\ f[81] = Captured(flags_q) /\ f[80] = [inblocks |-> inblocks_q]
    BY NextFileIs, BaseIs
<1>5. QED
    BY <1>1, <1>2, <1>3, <1>4

LEMMA ConfigWrite ==
    ASSUME Inv, Shapes, NEW cmd, NEW f, WrapperTick(cmd), cmd # NoCommand,
           cmd.op = CMD_WRITE, CmdReady(cmd.op), cmd.addr = 80, f = Base
    PROVE  RegisterFile!BecomesBut(f, 80, [inblocks |-> Number(cmd.wdata) % 4]) /\ Shapes'
<1>1. PICK s : s = Decode(cmd.addr)
    OBVIOUS
<1>2. s.sel = "config"
    BY <1>1, DecodeIs DEF Selected
<1>3. s.sel \notin {"pub_seed", "addr", "input"} /\ s.sel \notin {"status", "none", "output"}
    BY <1>2
<1>4. /\ \A b \in RegisterAddr : b # 80 /\ b # 81 => FileNow'[b] = f[b]
      /\ FileNow'[81] = FlagsAfter(cmd, s) /\ f[81] = Captured(flags_q)
      /\ FileNow'[80] = [inblocks |-> inblocks_q'] /\ Shapes'
    BY <1>1, <1>3, FlagWrite
<1>5. inblocks_q' = Number(cmd.wdata) % 4
    BY <1>1, <1>2, WriteTick
<1>6. FlagsAfter(cmd, s) = Captured(flags_q)
    BY <1>3, WriteFlags
<1>7. \A b \in RegisterAddr : b # 80 => FileNow'[b] = f[b]
    BY <1>4, <1>6
<1>8. FileNow'[80] = [inblocks |-> Number(cmd.wdata) % 4]
    BY <1>4, <1>5
<1>9. QED
    BY <1>4, <1>7, <1>8, BecomesIs

LEMMA StatusWrite ==
    ASSUME Inv, Shapes, NEW cmd, NEW f, NEW n \in Nat, WrapperTick(cmd), cmd # NoCommand,
           cmd.op = CMD_WRITE, CmdReady(cmd.op), cmd.addr = 81, f = Base, Number(cmd.wdata) = n
    PROVE  RegisterFile!Clear(f, n) /\ Shapes'
<1>1. PICK s : s = Decode(cmd.addr)
    OBVIOUS
<1>2. s.sel = "status"
    BY <1>1, DecodeIs DEF Selected
<1>3. s.sel \notin {"pub_seed", "addr", "input"} /\ s.sel # "config"
    BY <1>2
<1>4. /\ \A b \in RegisterAddr : b # 81 => FileNow'[b] = f[b]
      /\ FileNow'[81] = FlagsAfter(cmd, s) /\ f[81] = Captured(flags_q) /\ Shapes'
    BY <1>1, <1>3, FlagWrite
<1>5. PICK g : g = Captured(flags_q)
    OBVIOUS
<1>6. g \in Flags
    BY <1>5, CapturedFlags
<1>7. FlagsAfter(cmd, s) = StatusWritten(g, n)
    BY <1>2, <1>5, WriteFlags
<1>8. StatusWritten(g, n)
        = [busy |-> g.busy, done |-> g.done /\ n % 4 \notin {2, 3},
           error |-> g.error /\ n % 8 \notin 4 .. 7,
           code |-> IF n % 8 \in 4 .. 7 THEN 0 ELSE g.code]
    <2>1. CASE n % 4 \in {2, 3} /\ n % 8 \in 4 .. 7
        BY <1>6, <2>1, LowBits DEF StatusWritten, NoError, Flags
    <2>2. CASE n % 4 \in {2, 3} /\ n % 8 \notin 4 .. 7
        BY <1>6, <2>2, LowBits DEF StatusWritten, NoError, Flags
    <2>3. CASE n % 4 \notin {2, 3} /\ n % 8 \in 4 .. 7
        BY <1>6, <2>3, LowBits DEF StatusWritten, NoError, Flags
    <2>4. CASE n % 4 \notin {2, 3} /\ n % 8 \notin 4 .. 7
        BY <1>6, <2>4, LowBits DEF StatusWritten, NoError, Flags
    <2>5. QED
        BY <2>1, <2>2, <2>3, <2>4
<1>9. FileNow'[81] = RegisterFile!Status(f[81].busy, f[81].done /\ n % 4 \notin {2, 3},
                        f[81].error /\ n % 8 \notin 4 .. 7,
                        IF n % 8 \in 4 .. 7 THEN 0 ELSE f[81].code)
    BY <1>4, <1>5, <1>7, <1>8 DEF RegisterFile!Status
<1>10. RegisterFile!BecomesBut(f, 81,
          RegisterFile!Status(f[81].busy, f[81].done /\ n % 4 \notin {2, 3},
                        f[81].error /\ n % 8 \notin 4 .. 7,
                        IF n % 8 \in 4 .. 7 THEN 0 ELSE f[81].code))
    BY <1>4, <1>9, BecomesIs
<1>11. RegisterFile!Clear(f, n)
    BY <1>10, Regions DEF RegisterFile!Clear
<1>12. QED
    BY <1>4, <1>11

LEMMA BadWrite ==
    ASSUME Inv, Shapes, NEW cmd, NEW f, WrapperTick(cmd), cmd # NoCommand,
           cmd.op = CMD_WRITE, CmdReady(cmd.op),
           cmd.addr \in 96 .. 111 \/ cmd.addr \notin RegisterAddr, f = Base
    PROVE  RegisterFile!Error(f, 2) /\ Shapes'
<1>1. PICK s : s = Decode(cmd.addr)
    OBVIOUS
<1>2. s.sel \in {"none", "output"}
    BY <1>1, DecodeIs DEF Selected
<1>3. s.sel \notin {"pub_seed", "addr", "input"} /\ s.sel # "config"
    BY <1>2
<1>4. /\ \A b \in RegisterAddr : b # 81 => FileNow'[b] = f[b]
      /\ FileNow'[81] = FlagsAfter(cmd, s) /\ f[81] = Captured(flags_q) /\ Shapes'
    BY <1>1, <1>3, FlagWrite
<1>5. FileNow'[81] = Failed(f[81], 2)
    BY <1>2, <1>4, WriteFlags
<1>6. RegisterFile!BecomesBut(f, 81, Failed(f[81], 2))
    BY <1>4, <1>5, BecomesIs
<1>7. RegisterFile!Error(f, 2)
    BY <1>6, Regions DEF RegisterFile!Error, Failed
<1>8. QED
    BY <1>4, <1>7

\* A write of the host's word number n.
LEMMA HostWrite ==
    ASSUME Inv, Shapes, NEW cmd, NEW f, NEW n \in Nat, WrapperTick(cmd), cmd # NoCommand,
           cmd.op = CMD_WRITE, CmdReady(cmd.op), cmd.wdata = HostWord(n), f = Base
    PROVE  RegisterFile!Write(f, cmd.addr, n) /\ Shapes'
<1>1. PICK a : a = cmd.addr
    OBVIOUS
<1>2. Number(cmd.wdata) = n /\ cmd.wdata = [src |-> <<"host", n>>, msb |-> 0]
    BY HostWordIs
<1>3. CASE a \in (0 .. 3) \cup (16 .. 79)
    <2>1. RegisterFile!BecomesBut(f, a, cmd.wdata) /\ Shapes'
        <3>1. CASE a \in 0 .. 3
            BY <1>1, <3>1, SeedWrite
        <3>2. CASE a \in 16 .. 47
            BY <1>1, <3>2, AddrWrite
        <3>3. CASE a \in 48 .. 79
            BY <1>1, <3>3, InputWrite
        <3>4. QED
            BY <1>3, <3>1, <3>2, <3>3
    <2>2. a \in RegisterFile!DataAddr
        BY <1>3, Regions
    <2>3. QED
        BY <1>1, <1>2, <2>1, <2>2 DEF RegisterFile!Write
<1>4. CASE a = 80
    <2>1. RegisterFile!BecomesBut(f, a, [inblocks |-> n % 4]) /\ Shapes'
        BY <1>1, <1>2, <1>4, ConfigWrite
    <2>2. QED
        BY <1>1, <1>4, <2>1, Regions DEF RegisterFile!Write
<1>5. CASE a = 81
    <2>1. RegisterFile!Clear(f, n) /\ Shapes'
        BY <1>1, <1>2, <1>5, StatusWrite
    <2>2. QED
        BY <1>1, <1>5, <2>1, Regions DEF RegisterFile!Write
<1>6. CASE a \in 96 .. 111 \/ a \notin RegisterAddr
    <2>1. RegisterFile!Error(f, 2) /\ Shapes'
        BY <1>1, <1>6, BadWrite
    <2>2. a \notin RegisterFile!Addr \ RegisterFile!OutAddr
        BY <1>6, Regions
    <2>3. QED
        BY <1>1, <2>1, <2>2 DEF RegisterFile!Write
<1>7. QED
    BY <1>3, <1>4, <1>5, <1>6, Regions

\* What the register file sees of the adapter.
OpenNow ==
    CASE state_q = "WAIT_RSP"    -> WrapperAnswer
      [] state_q = "START_ISSUE" -> [kind |-> "start", rd |-> pending_rd_q]
      [] OTHER                   -> [kind |-> "nothing"]
RespNow ==
    IF adapter = "bare" THEN IF rsp_valid THEN WrapperAnswer ELSE [kind |-> "nothing"]
    ELSE AnswerOf(resp)

\* The adapter waits only for what is there, and starts only what is idle.
Rest ==
    /\ adapter \in DOMAIN Instructions
    /\ state_q \in {"IDLE", "WAIT_RSP", "START_ISSUE"}
    /\ state_q = "WAIT_RSP" => rsp_valid = TRUE
    /\ state_q = "START_ISSUE" => flags_q.busy = FALSE
    /\ adapter = "bare" => state_q = "IDLE" /\ pending_rd_q = 0
    /\ Shapes
Adapted == Inv /\ Rest

LEMMA Responses ==
    ASSUME NEW rd, NEW data
    PROVE  /\ AnswerOf(Resp(data, rd, FALSE)) = RegisterFile!Answer(rd, data)
           /\ AnswerOf(Resp(data, rd, TRUE)) = RegisterFile!Illegal(rd)
           /\ AnswerOf(NoResp(rd)) = RegisterFile!Nothing
           /\ RegisterFile!Nothing # RegisterFile!Answer(rd, data)
           /\ RegisterFile!Nothing # RegisterFile!Illegal(rd)
           /\ RegisterFile!Nothing # RegisterFile!StartDue(rd)
<1>1. AnswerOf(Resp(data, rd, FALSE)) = RegisterFile!Answer(rd, data)
    BY DEF AnswerOf, Resp, RegisterFile!Answer
<1>2. AnswerOf(Resp(data, rd, TRUE)) = RegisterFile!Illegal(rd)
    BY DEF AnswerOf, Resp, RegisterFile!Illegal
<1>3. AnswerOf(NoResp(rd)) = RegisterFile!Nothing
    BY DEF AnswerOf, NoResp, RegisterFile!Nothing
<1>4. /\ RegisterFile!Nothing.kind = "nothing" /\ RegisterFile!Answer(rd, data).kind = "answer"
      /\ RegisterFile!Illegal(rd).kind = "illegal" /\ RegisterFile!StartDue(rd).kind = "start"
    BY DEF RegisterFile!Nothing, RegisterFile!Answer, RegisterFile!Illegal, RegisterFile!StartDue
<1>5. QED
    BY <1>1, <1>2, <1>3, <1>4

\* What is open and what is answered, here and after the cycle.
LEMMA OpenIs ==
    /\ state_q = "IDLE" => OpenNow = RegisterFile!Nothing
    /\ state_q = "WAIT_RSP" => OpenNow = RegisterFile!Answer(pending_rd_q, rsp_rdata)
    /\ state_q = "START_ISSUE" => OpenNow = RegisterFile!StartDue(pending_rd_q)
    /\ state_q' = "IDLE" => OpenNow' = RegisterFile!Nothing
    /\ state_q' = "WAIT_RSP" => OpenNow' = RegisterFile!Answer(pending_rd_q', rsp_rdata')
    /\ state_q' = "START_ISSUE" => OpenNow' = RegisterFile!StartDue(pending_rd_q')
    BY DEF OpenNow, WrapperAnswer, RegisterFile!Nothing, RegisterFile!Answer, RegisterFile!StartDue

LEMMA RespIs ==
    /\ adapter' # "bare" => RespNow' = AnswerOf(resp')
    /\ adapter' = "bare" /\ rsp_valid' = TRUE =>
          RespNow' = RegisterFile!Answer(pending_rd_q', rsp_rdata')
    /\ adapter' = "bare" /\ rsp_valid' = FALSE => RespNow' = RegisterFile!Nothing
<1>1. adapter' # "bare" => RespNow' = AnswerOf(resp')
    BY DEF RespNow, AnswerOf
<1>2. adapter' = "bare" /\ rsp_valid' = TRUE =>
          RespNow' = RegisterFile!Answer(pending_rd_q', rsp_rdata')
    BY DEF RespNow, WrapperAnswer, RegisterFile!Answer
<1>3. adapter' = "bare" /\ rsp_valid' = FALSE => RespNow' = RegisterFile!Nothing
    BY DEF RespNow, RegisterFile!Nothing
<1>4. QED
    BY <1>1, <1>2, <1>3

\* An instruction that is taken, and the answer it gets or will get.
LEMMA Taken ==
    ASSUME NEW f, NEW instr \in AllInstructions, NEW ans, state_q = "IDLE",
           \/ OpenNow' = ans /\ RespNow' = RegisterFile!Nothing
           \/ RespNow' = ans /\ ans # RegisterFile!Nothing /\ OpenNow' = RegisterFile!Nothing,
           \/ RegisterFile!Takes(f, instr, ans)
           \/ RegisterFile!Streams(f, instr, ans)
           \/ RegisterFile!Refused(f, instr, ans)
    PROVE  RegisterFile!Cycle(f)
<1>1. OpenNow = RegisterFile!Nothing
    BY OpenIs
<1>2. RegisterFile!Nothing \in {RespNow', OpenNow'}
    OBVIOUS
<1>3. (IF RespNow' = RegisterFile!Nothing THEN OpenNow' ELSE RespNow') = ans
    OBVIOUS
<1>4. RegisterFile!Instruction(f)
    BY <1>1, <1>2, <1>3 DEF RegisterFile!Instruction, OpenNow, RespNow
<1>5. QED
    BY <1>4 DEF RegisterFile!Cycle

LEMMA NoneTaken ==
    ASSUME NEW f, state_q = "IDLE", OpenNow' = RegisterFile!Nothing,
           RespNow' = RegisterFile!Nothing, RegisterFile!Becomes(f), ptr_q' = ptr_q
    PROVE  RegisterFile!Cycle(f)
<1>1. OpenNow = RegisterFile!Nothing
    BY OpenIs
<1>2. RegisterFile!NoneOffered(f)
    BY <1>1 DEF RegisterFile!NoneOffered, OpenNow, RespNow
<1>3. QED
    BY <1>2 DEF RegisterFile!Cycle

LEMMA ShapesStay == Shapes /\ UNCHANGED fileVars => Shapes'
    BY DEF Shapes, fileVars, IsWideArray

\* A cycle with nothing to take.
LEMMA IdleCycle ==
    ASSUME Adapted, NEW cmd, NEW f, f = Base, WrapperTick(cmd),
           ~(cmd # NoCommand /\ CmdReady(cmd.op)), state_q = "IDLE",
           resp' = NoResp(pending_rd_q), UNCHANGED <<adapter, state_q, ptr_q, pending_rd_q>>
    PROVE  RegisterFile!Cycle(f) /\ Rest'
<1>1. Inv /\ Shapes
    BY DEF Adapted, Rest
<1>2. RegisterFile!Becomes(f) /\ UNCHANGED fileVars
    BY <1>1, IdleTick
<1>3. rsp_valid' = FALSE
    BY DEF WrapperTick
<1>4. RespNow' = RegisterFile!Nothing /\ OpenNow' = RegisterFile!Nothing
    <2>1. OpenNow' = RegisterFile!Nothing
        BY OpenIs
    <2>2. CASE adapter = "bare"
        BY <1>3, <2>1, <2>2, RespIs
    <2>3. CASE adapter # "bare"
        BY <2>1, <2>3, RespIs, Responses
    <2>4. QED
        BY <2>2, <2>3
<1>5. RegisterFile!Cycle(f)
    BY <1>2, <1>4, NoneTaken
<1>6. Rest'
    BY <1>1, <1>2, ShapesStay DEF Adapted, Rest
<1>7. QED
    BY <1>5, <1>6

LEMMA Commands ==
    /\ \A op, addr, w : /\ Command(op, addr, w).op = op /\ Command(op, addr, w).addr = addr
                        /\ Command(op, addr, w).wdata = w
    /\ \A op, addr, w : op # 0 => Command(op, addr, w) # NoCommand
    /\ NoCommand.op = 0
    BY DEF Command, NoCommand

\* Only reads are taken while a job runs.
LEMMA ReadyIs ==
    ASSUME Inv, NEW op
    PROVE  /\ op = CMD_READ => CmdReady(op)
           /\ op # CMD_READ => (CmdReady(op) <=> ~RegisterFile!Busy)
           /\ CmdReady(op) <=> op = CMD_READ \/ flags_q.busy = FALSE
<1>1. flags_q.busy \in BOOLEAN
    BY DEF Inv, Flags
<1>2. QED
    BY <1>1, BusyIs DEF CmdReady

LEMMA OfferedIs ==
    ASSUME Adapted, NEW instr \in Offers
    PROVE  /\ instr \in AllInstructions /\ instr.op \in Ops(adapter)
           /\ instr.rs1 = HostWord(Number(instr.rs1)) /\ Number(instr.rs1) \in Nat
           /\ RegisterFile!NumberIn(instr.rs1) = Number(instr.rs1)
           /\ adapter = "bare" => instr.rd = 0
<1>1. adapter \in DOMAIN Instructions /\ instr \in Instructions[adapter]
    BY DEF Adapted, Rest, Offers
<1>2. instr \in AllInstructions
    BY <1>1 DEF AllInstructions
<1>3. /\ instr.op \in Ops(adapter)
      /\ instr.rs1 = HostWord(Number(instr.rs1)) /\ Number(instr.rs1) \in Nat
      /\ adapter = "bare" => instr.rd = 0
    BY <1>1, InstructionsAssumption
<1>4. PICK n : n = Number(instr.rs1)
    OBVIOUS
<1>5. RegisterFile!NumberIn(instr.rs1) = n
    BY <1>3, <1>4, HostWordIs
<1>6. QED
    BY <1>2, <1>3, <1>4, <1>5

\* The fine adapter's commands, one for each of its instructions.
LEMMA FineCommands ==
    ASSUME NEW instr, NEW cmd, cmd = FineDecode(instr)
    PROVE  /\ instr.op = "SPX_WR" => cmd = Command(CMD_WRITE, instr.addr, instr.rs1)
           /\ instr.op = "SPX_RD" => cmd = Command(CMD_READ, instr.addr, ZeroWord)
           /\ instr.op = "SPX_START" => cmd = Command(CMD_START, 0, ZeroWord)
           /\ instr.op = "SPX_STATUS" => cmd = Command(CMD_READ, REG_STATUS, ZeroWord)
           /\ instr.op = "SPX_CLR" => cmd = Command(CMD_WRITE, REG_STATUS, ClearBoth)
           /\ instr.op = "SPX_OTHER" => cmd = NoCommand
    BY DEF FineDecode

\* What the file does for a command that is taken, whatever the adapter.
LEMMA CommandWrite ==
    ASSUME Adapted, NEW cmd, NEW addr, NEW w, NEW f, NEW n \in Nat, WrapperTick(cmd),
           cmd = Command(CMD_WRITE, addr, w), CmdReady(cmd.op), w = HostWord(n), f = Base
    PROVE  /\ RegisterFile!Write(f, addr, n) /\ Shapes' /\ ~RegisterFile!Busy
           /\ rsp_valid' = TRUE /\ rsp_rdata' = RegisterFile!ZeroWord
<1>1. /\ cmd # NoCommand /\ cmd.op = CMD_WRITE /\ cmd.addr = addr /\ cmd.wdata = w
      /\ cmd.op # CMD_READ
    BY Commands DEF CMD_WRITE, CMD_READ
<1>2. Inv /\ Shapes
    BY DEF Adapted, Rest
<1>3. RegisterFile!Write(f, addr, n) /\ Shapes'
    BY <1>1, <1>2, HostWrite
<1>4. rsp_valid' = TRUE /\ rsp_rdata' = ZeroWord
    BY <1>1, WriteTick
<1>5. ~RegisterFile!Busy
    BY <1>1, <1>2, ReadyIs
<1>6. QED
    BY <1>3, <1>4, <1>5, SameData

LEMMA CommandRead ==
    ASSUME Adapted, NEW cmd, NEW addr, NEW f, WrapperTick(cmd),
           cmd = Command(CMD_READ, addr, ZeroWord), f = Base
    PROVE  /\ RegisterFile!Read(f, addr) /\ Shapes'
           /\ rsp_valid' = TRUE /\ rsp_rdata' = RegisterFile!Shown(addr)
<1>1. cmd # NoCommand /\ cmd.op = CMD_READ /\ cmd.addr = addr
    BY Commands DEF CMD_READ
<1>2. Inv /\ Shapes
    BY DEF Adapted, Rest
<1>3. /\ RegisterFile!Read(f, addr) /\ rsp_rdata' = RegisterFile!Shown(addr)
      /\ UNCHANGED fileVars /\ rsp_valid' = TRUE
    BY <1>1, <1>2, ReadTick
<1>4. QED
    BY <1>2, <1>3, ShapesStay

\* A read of a register that is there changes nothing but what was due.
LEMMA CommandLook ==
    ASSUME NEW f, NEW addr \in RegisterAddr, RegisterFile!Read(f, addr)
    PROVE  RegisterFile!Becomes(f)
    BY Regions DEF RegisterFile!Read

LEMMA CommandStart ==
    ASSUME Adapted, NEW cmd, NEW addr, NEW f, WrapperTick(cmd),
           cmd = Command(CMD_START, addr, ZeroWord), CmdReady(cmd.op), f = Base
    PROVE  /\ RegisterFile!Start(f) /\ Shapes' /\ ~RegisterFile!Busy
           /\ rsp_valid' = TRUE /\ rsp_rdata' = RegisterFile!ZeroWord
<1>1. cmd # NoCommand /\ cmd.op = CMD_START /\ cmd.op # CMD_READ
    BY Commands DEF CMD_START, CMD_READ
<1>2. Inv /\ Shapes
    BY DEF Adapted, Rest
<1>3. RegisterFile!Start(f) /\ UNCHANGED fileVars /\ rsp_valid' = TRUE /\ rsp_rdata' = ZeroWord
    BY <1>1, <1>2, StartTick
<1>4. ~RegisterFile!Busy
    BY <1>1, <1>2, ReadyIs
<1>5. QED
    BY <1>2, <1>3, <1>4, ShapesStay, SameData

\* A cycle of the fine adapter.
LEMMA FineCycle ==
    ASSUME Adapted, NEW f, NEW instr \in Offers, adapter = "fine", FineIdle(instr), f = Base,
           adapter' = adapter
    PROVE  RegisterFile!Cycle(f) /\ Rest'
<1>1. PICK cmd : cmd = FineDecode(instr)
    OBVIOUS
<1>2. /\ state_q = "IDLE" /\ WrapperTick(cmd) /\ ptr_q' = ptr_q
      /\ IF cmd # NoCommand /\ ~CmdReady(cmd.op)
         THEN resp' = NoResp(pending_rd_q) /\ state_q' = state_q /\ pending_rd_q' = pending_rd_q
         ELSE /\ pending_rd_q' = instr.rd
              /\ state_q' = IF cmd # NoCommand THEN "WAIT_RSP" ELSE "IDLE"
              /\ resp' = IF cmd # NoCommand THEN NoResp(instr.rd)
                         ELSE Resp(ZeroWord, instr.rd, TRUE)
    BY <1>1 DEF FineIdle
<1>3. /\ instr \in AllInstructions /\ instr.op \in Ops("fine")
      /\ instr.rs1 = HostWord(Number(instr.rs1)) /\ Number(instr.rs1) \in Nat
      /\ RegisterFile!NumberIn(instr.rs1) = Number(instr.rs1)
    BY OfferedIs
<1>4. Inv /\ Shapes /\ adapter \in DOMAIN Instructions
    BY DEF Adapted, Rest
<1>5. CASE cmd # NoCommand /\ ~CmdReady(cmd.op)
    BY <1>2, <1>5, IdleCycle
<1>6. CASE cmd # NoCommand /\ CmdReady(cmd.op)
    <2>1. pending_rd_q' = instr.rd /\ state_q' = "WAIT_RSP" /\ resp' = NoResp(instr.rd)
        BY <1>2, <1>6
    <2>2. /\ OpenNow' = RegisterFile!Answer(instr.rd, rsp_rdata')
          /\ RespNow' = RegisterFile!Nothing
        <3>1. OpenNow' = RegisterFile!Answer(instr.rd, rsp_rdata')
            BY <2>1, OpenIs
        <3>2. adapter' # "bare"
            OBVIOUS
        <3>3. RespNow' = AnswerOf(NoResp(instr.rd))
            BY <2>1, <3>2, RespIs
        <3>4. QED
            BY <3>1, <3>3, Responses
    <2>3. PICK ans : ans = RegisterFile!Answer(instr.rd, rsp_rdata')
        OBVIOUS
    <2>4. RegisterFile!Takes(f, instr, ans) /\ Shapes' /\ rsp_valid' = TRUE
        <3>1. CASE instr.op = "SPX_WR"
            <4>1. cmd = Command(CMD_WRITE, instr.addr, instr.rs1)
                BY <1>1, <3>1, FineCommands
            <4>2. /\ RegisterFile!Write(f, instr.addr, Number(instr.rs1)) /\ Shapes'
                  /\ ~RegisterFile!Busy
                  /\ rsp_valid' = TRUE /\ rsp_rdata' = RegisterFile!ZeroWord
                BY <1>2, <1>3, <1>6, <4>1, CommandWrite
            <4>3. QED
                BY <1>2, <1>3, <2>3, <3>1, <4>2 DEF RegisterFile!Takes
        <3>2. CASE instr.op = "SPX_RD"
            <4>1. cmd = Command(CMD_READ, instr.addr, ZeroWord)
                BY <1>1, <3>2, FineCommands
            <4>2. /\ RegisterFile!Read(f, instr.addr) /\ Shapes'
                  /\ rsp_valid' = TRUE /\ rsp_rdata' = RegisterFile!Shown(instr.addr)
                BY <1>2, <4>1, CommandRead
            <4>3. QED
                BY <1>2, <2>3, <3>2, <4>2 DEF RegisterFile!Takes
        <3>3. CASE instr.op = "SPX_START"
            <4>1. cmd = Command(CMD_START, 0, ZeroWord)
                BY <1>1, <3>3, FineCommands
            <4>2. /\ RegisterFile!Start(f) /\ Shapes' /\ ~RegisterFile!Busy
                  /\ rsp_valid' = TRUE /\ rsp_rdata' = RegisterFile!ZeroWord
                BY <1>2, <1>6, <4>1, CommandStart
            <4>3. QED
                BY <1>2, <2>3, <3>3, <4>2 DEF RegisterFile!Takes
        <3>4. CASE instr.op = "SPX_STATUS"
            <4>1. cmd = Command(CMD_READ, 81, ZeroWord)
                BY <1>1, <3>4, FineCommands DEF REG_STATUS
            <4>2. /\ RegisterFile!Read(f, 81) /\ Shapes'
                  /\ rsp_valid' = TRUE /\ rsp_rdata' = RegisterFile!Shown(81)
                BY <1>2, <4>1, CommandRead
            <4>3. RegisterFile!Becomes(f)
                BY <4>2, CommandLook, Regions
            <4>4. QED
                BY <1>2, <2>3, <3>4, <4>2, <4>3, Regions DEF RegisterFile!Takes
        <3>5. CASE instr.op = "SPX_CLR"
            <4>1. cmd = Command(CMD_WRITE, 81, HostWord(6))
                BY <1>1, <3>5, FineCommands DEF REG_STATUS, ClearBoth
            <4>2. /\ RegisterFile!Write(f, 81, 6) /\ Shapes'
                  /\ ~RegisterFile!Busy
                  /\ rsp_valid' = TRUE /\ rsp_rdata' = RegisterFile!ZeroWord
                BY <1>2, <1>6, <4>1, CommandWrite
            <4>3. QED
                BY <1>2, <2>3, <3>5, <4>2, Regions DEF RegisterFile!Takes
        <3>6. CASE instr.op = "SPX_OTHER"
            BY <1>1, <1>6, <3>6, FineCommands
        <3>7. QED
            BY <1>3, <3>1, <3>2, <3>3, <3>4, <3>5, <3>6 DEF Ops
    <2>5. RegisterFile!Cycle(f)
        BY <1>2, <1>3, <2>2, <2>3, <2>4, Taken
    <2>6. Rest'
        BY <1>4, <2>1, <2>4 DEF Rest
    <2>7. QED
        BY <2>5, <2>6
<1>7. CASE cmd = NoCommand
    <2>1. pending_rd_q' = instr.rd /\ state_q' = "IDLE" /\ resp' = Resp(ZeroWord, instr.rd, TRUE)
        BY <1>2, <1>7
    <2>2. instr.op = "SPX_OTHER"
        <3>1. /\ Command(CMD_WRITE, instr.addr, instr.rs1) # NoCommand
              /\ Command(CMD_READ, instr.addr, ZeroWord) # NoCommand
              /\ Command(CMD_START, 0, ZeroWord) # NoCommand
              /\ Command(CMD_READ, REG_STATUS, ZeroWord) # NoCommand
              /\ Command(CMD_WRITE, REG_STATUS, ClearBoth) # NoCommand
            BY Commands DEF CMD_WRITE, CMD_READ, CMD_START
        <3>2. instr.op \notin {"SPX_WR", "SPX_RD", "SPX_START", "SPX_STATUS", "SPX_CLR"}
            BY <1>1, <1>7, <3>1, FineCommands
        <3>3. QED
            BY <1>3, <3>2 DEF Ops
    <2>3. PICK ans : ans = RegisterFile!Illegal(instr.rd)
        OBVIOUS
    <2>4. RespNow' = ans /\ ans # RegisterFile!Nothing /\ OpenNow' = RegisterFile!Nothing
        <3>1. OpenNow' = RegisterFile!Nothing
            BY <2>1, OpenIs
        <3>2. adapter' # "bare"
            OBVIOUS
        <3>3. RespNow' = AnswerOf(Resp(ZeroWord, instr.rd, TRUE))
            BY <2>1, <3>2, RespIs
        <3>4. QED
            BY <2>3, <3>1, <3>3, Responses
    <2>5. RegisterFile!Becomes(f) /\ UNCHANGED fileVars
        BY <1>2, <1>4, <1>7, IdleTick
    <2>6. RegisterFile!Refused(f, instr, ans)
        BY <1>2, <2>2, <2>3, <2>5 DEF RegisterFile!Refused
    <2>7. RegisterFile!Cycle(f)
        BY <1>2, <1>3, <2>4, <2>6, Taken
    <2>8. Rest'
        BY <1>4, <2>1, <2>5, ShapesStay DEF Rest
    <2>9. QED
        BY <2>7, <2>8
<1>8. QED
    BY <1>5, <1>6, <1>7

\* The coarse adapter's commands.
LEMMA CoarseCommands ==
    ASSUME NEW instr, NEW cmd, cmd = CoarseDecode(instr)
    PROVE  /\ instr.op = "SPX_WR_NEXT" /\ MappedLegal =>
                 cmd = Command(CMD_WRITE, ptr_q, instr.rs1)
           /\ instr.op = "SPX_RD_NEXT" /\ MappedLegal =>
                 cmd = Command(CMD_READ, ptr_q, ZeroWord)
           /\ instr.op = "SPX_START_THASHX4" =>
                 cmd = Command(CMD_WRITE, 80, HostWord(Number(instr.rs1) % 4))
           /\ instr.op = "SPX_STATUS" => cmd = Command(CMD_READ, 81, ZeroWord)
           /\ instr.op \in {"SPX_WR_NEXT", "SPX_RD_NEXT"} /\ ~MappedLegal => cmd = NoCommand
           /\ instr.op \in {"SPX_SET_PTR", "SPX_OTHER"} => cmd = NoCommand
<1>1. ASSUME instr.op = "SPX_WR_NEXT", MappedLegal
      PROVE  cmd = Command(CMD_WRITE, ptr_q, instr.rs1)
    BY <1>1 DEF CoarseDecode
<1>2. ASSUME instr.op = "SPX_RD_NEXT", MappedLegal
      PROVE  cmd = Command(CMD_READ, ptr_q, ZeroWord)
    BY <1>2 DEF CoarseDecode
<1>3. ASSUME instr.op = "SPX_START_THASHX4"
      PROVE  cmd = Command(CMD_WRITE, 80, HostWord(Number(instr.rs1) % 4))
    BY <1>3 DEF CoarseDecode, REG_CONFIG
<1>4. ASSUME instr.op = "SPX_STATUS" PROVE cmd = Command(CMD_READ, 81, ZeroWord)
    BY <1>4 DEF CoarseDecode, REG_STATUS
<1>5. ASSUME instr.op \in {"SPX_WR_NEXT", "SPX_RD_NEXT"}, ~MappedLegal PROVE cmd = NoCommand
    BY <1>5 DEF CoarseDecode
<1>6. ASSUME instr.op \in {"SPX_SET_PTR", "SPX_OTHER"} PROVE cmd = NoCommand
    BY <1>6 DEF CoarseDecode
<1>7. QED
    BY <1>1, <1>2, <1>3, <1>4, <1>5, <1>6

\* The coarse adapter where it takes what it is offered.
LEMMA CoarseTakes ==
    ASSUME NEW instr, NEW cmd, cmd = CoarseDecode(instr), CoarseIdle(instr),
           cmd = NoCommand \/ CmdReady(cmd.op)
    PROVE  /\ pending_rd_q' = instr.rd
           /\ cmd.op = CMD_READ => state_q' = "WAIT_RSP" /\ resp' = NoResp(instr.rd)
           /\ instr.op = "SPX_START_THASHX4" /\ cmd.op # CMD_READ =>
                 state_q' = "START_ISSUE" /\ resp' = NoResp(instr.rd)
           /\ instr.op # "SPX_START_THASHX4" /\ cmd.op # CMD_READ =>
                 /\ state_q' = "IDLE"
                 /\ CoarseLegal(instr) => resp' = Resp(ZeroWord, instr.rd, FALSE)
                 /\ ~CoarseLegal(instr) => resp' = Resp(ZeroWord, instr.rd, TRUE)
           /\ instr.op = "SPX_SET_PTR" => ptr_q' = instr.addr
           /\ instr.op \in {"SPX_WR_NEXT", "SPX_RD_NEXT"} /\ MappedLegal =>
                 ptr_q' = (ptr_q + 1) % 256
           /\ instr.op \in {"SPX_WR_NEXT", "SPX_RD_NEXT"} /\ ~MappedLegal => ptr_q' = ptr_q
           /\ instr.op \notin {"SPX_SET_PTR", "SPX_WR_NEXT", "SPX_RD_NEXT"} => ptr_q' = ptr_q
<1>1. /\ pending_rd_q' = instr.rd
      /\ state_q' = CASE cmd.op = CMD_READ -> "WAIT_RSP"
                      [] instr.op = "SPX_START_THASHX4" -> "START_ISSUE"
                      [] OTHER -> "IDLE"
      /\ ptr_q' = CASE instr.op = "SPX_SET_PTR" -> instr.addr
                    [] UsesPtr(instr) /\ MappedLegal -> (ptr_q + 1) % 256
                    [] OTHER -> ptr_q
      /\ resp' = IF state_q' = "IDLE" THEN Resp(ZeroWord, instr.rd, ~CoarseLegal(instr))
                 ELSE NoResp(instr.rd)
    BY DEF CoarseIdle
<1>2. cmd.op = CMD_READ => state_q' = "WAIT_RSP" /\ resp' = NoResp(instr.rd)
    <2>1. SUFFICES ASSUME cmd.op = CMD_READ
                   PROVE  state_q' = "WAIT_RSP" /\ resp' = NoResp(instr.rd)
        OBVIOUS
    <2>2. instr.op = "SPX_START_THASHX4" => FALSE
        BY <2>1, CoarseCommands, Commands DEF CMD_READ, CMD_WRITE
    <2>3. state_q' = "WAIT_RSP"
        BY <1>1, <2>1, <2>2
    <2>4. QED
        BY <1>1, <2>3
<1>3. instr.op = "SPX_START_THASHX4" /\ cmd.op # CMD_READ =>
         state_q' = "START_ISSUE" /\ resp' = NoResp(instr.rd)
    BY <1>1
<1>4. ASSUME instr.op # "SPX_START_THASHX4", cmd.op # CMD_READ
      PROVE  /\ state_q' = "IDLE"
             /\ CoarseLegal(instr) => resp' = Resp(ZeroWord, instr.rd, FALSE)
             /\ ~CoarseLegal(instr) => resp' = Resp(ZeroWord, instr.rd, TRUE)
    <2>1. state_q' = "IDLE" /\ resp' = Resp(ZeroWord, instr.rd, ~CoarseLegal(instr))
        BY <1>1, <1>4
    <2>2. /\ CoarseLegal(instr) => (~CoarseLegal(instr)) = FALSE
          /\ ~CoarseLegal(instr) => (~CoarseLegal(instr)) = TRUE
        OBVIOUS
    <2>3. QED
        BY <2>1, <2>2
<1>5. /\ instr.op = "SPX_SET_PTR" => ptr_q' = instr.addr
      /\ instr.op \in {"SPX_WR_NEXT", "SPX_RD_NEXT"} /\ MappedLegal => ptr_q' = (ptr_q + 1) % 256
      /\ instr.op \in {"SPX_WR_NEXT", "SPX_RD_NEXT"} /\ ~MappedLegal => ptr_q' = ptr_q
      /\ instr.op \notin {"SPX_SET_PTR", "SPX_WR_NEXT", "SPX_RD_NEXT"} => ptr_q' = ptr_q
    BY <1>1 DEF UsesPtr
<1>6. QED
    BY <1>1, <1>2, <1>3, <1>4, <1>5

\* Where the pointer may stand.
LEMMA PointerIs ==
    /\ MappedLegal <=> ptr_q \in RegisterFile!DataAddr \cup RegisterFile!OutAddr
    /\ MappedLegal => ptr_q \in RegisterAddr /\ (ptr_q + 1) % 256 = ptr_q + 1
<1>1. MappedLegal <=> ptr_q \in RegisterFile!DataAddr \cup RegisterFile!OutAddr
    BY Regions DEF MappedLegal
<1>2. ASSUME MappedLegal PROVE ptr_q \in RegisterAddr /\ (ptr_q + 1) % 256 = ptr_q + 1
    <2>1. ptr_q \in RegisterAddr
        BY <1>2 DEF MappedLegal, RegisterAddr
    <2>2. PICK p : p = ptr_q
        OBVIOUS
    <2>3. p \in 0 .. 111
        BY <1>2, <2>2 DEF MappedLegal
    <2>4. (p + 1) % 256 = p + 1
        BY <2>3
    <2>5. QED
        BY <2>1, <2>2, <2>4
<1>3. QED
    BY <1>1, <1>2

\* An answer given in the next cycle, and one that is waited for.
LEMMA AnsweredNow ==
    ASSUME NEW rd, NEW data, adapter' # "bare", state_q' = "IDLE",
           resp' = Resp(data, rd, FALSE)
    PROVE  /\ RespNow' = RegisterFile!Answer(rd, data)
           /\ RegisterFile!Answer(rd, data) # RegisterFile!Nothing
           /\ OpenNow' = RegisterFile!Nothing
    BY OpenIs, RespIs, Responses

LEMMA RefusedNow ==
    ASSUME NEW rd, NEW data, adapter' # "bare", state_q' = "IDLE",
           resp' = Resp(data, rd, TRUE)
    PROVE  /\ RespNow' = RegisterFile!Illegal(rd)
           /\ RegisterFile!Illegal(rd) # RegisterFile!Nothing
           /\ OpenNow' = RegisterFile!Nothing
    BY OpenIs, RespIs, Responses

LEMMA AnswerOpen ==
    ASSUME NEW rd, adapter' # "bare", state_q' = "WAIT_RSP", resp' = NoResp(rd), pending_rd_q' = rd
    PROVE  OpenNow' = RegisterFile!Answer(rd, rsp_rdata') /\ RespNow' = RegisterFile!Nothing
    BY OpenIs, RespIs, Responses

LEMMA StartOpen ==
    ASSUME NEW rd, adapter' # "bare", state_q' = "START_ISSUE", resp' = NoResp(rd),
           pending_rd_q' = rd
    PROVE  OpenNow' = RegisterFile!StartDue(rd) /\ RespNow' = RegisterFile!Nothing
    BY OpenIs, RespIs, Responses

\* After a cycle in which the adapter is idle or waits for its answer.
LEMMA RestIs ==
    ASSUME Adapted, adapter' = adapter, adapter # "bare", Shapes',
           \/ state_q' = "IDLE"
           \/ state_q' = "WAIT_RSP" /\ rsp_valid' = TRUE
           \/ state_q' = "START_ISSUE" /\ flags_q'.busy = FALSE
    PROVE  Rest'
<1>1. adapter \in DOMAIN Instructions
    BY DEF Adapted, Rest
<1>2. QED
    BY <1>1 DEF Rest

\* The configuration half of SPX_START_THASHX4.
LEMMA StartHalf ==
    ASSUME Adapted, NEW cmd, NEW f, NEW n \in Nat, WrapperTick(cmd),
           cmd = Command(CMD_WRITE, 80, HostWord(n % 4)), CmdReady(cmd.op), f = Base
    PROVE  /\ RegisterFile!Write(f, 80, n) /\ Shapes' /\ ~RegisterFile!Busy
           /\ flags_q'.busy = FALSE
<1>1. /\ cmd # NoCommand /\ cmd.op = CMD_WRITE /\ cmd.addr = 80 /\ cmd.wdata = HostWord(n % 4)
      /\ cmd.op # CMD_READ /\ cmd.op # CMD_START
    BY Commands DEF CMD_WRITE, CMD_READ, CMD_START
<1>2. Inv /\ Shapes /\ flags_q \in Flags
    BY DEF Adapted, Rest, Inv
<1>3. (n % 4) % 4 = n % 4
    OBVIOUS
<1>4. Number(cmd.wdata) % 4 = n % 4
    BY <1>1, <1>3, HostWordIs
<1>5. RegisterFile!BecomesBut(f, 80, [inblocks |-> n % 4]) /\ Shapes'
    BY <1>1, <1>2, <1>4, ConfigWrite
<1>6. RegisterFile!Write(f, 80, n)
    BY <1>5, Regions DEF RegisterFile!Write
<1>7. flags_q.busy = FALSE
    BY <1>1, <1>2, ReadyIs
<1>8. flags_q'.busy = FALSE
    <2>1. PICK s : s = Decode(cmd.addr)
        OBVIOUS
    <2>2. flags_q' = FlagsAfter(cmd, s)
        BY <1>1, <2>1 DEF WrapperTick
    <2>3. FlagsAfter(cmd, s) \in Flags /\ (FlagsAfter(cmd, s).busy <=> CoreStart(cmd))
        BY <1>2, <1>7, FlagsOfCycle
    <2>4. ~CoreStart(cmd)
        BY <1>1 DEF CoreStart
    <2>5. FlagsAfter(cmd, s).busy \in BOOLEAN
        BY <2>3 DEF Flags
    <2>6. QED
        BY <2>2, <2>3, <2>4, <2>5
<1>9. ~RegisterFile!Busy
    BY <1>1, <1>2, ReadyIs
<1>10. QED
    BY <1>5, <1>6, <1>8, <1>9

\* A cycle of the coarse adapter.
LEMMA CoarseCycle ==
    ASSUME Adapted, NEW f, NEW instr \in Offers, adapter = "coarse", CoarseIdle(instr), f = Base,
           adapter' = adapter
    PROVE  RegisterFile!Cycle(f) /\ Rest'
<1>1. PICK cmd : cmd = CoarseDecode(instr)
    OBVIOUS
<1>2. state_q = "IDLE" /\ WrapperTick(cmd) /\ adapter' # "bare" /\ adapter # "bare"
    BY <1>1 DEF CoarseIdle
<1>3. /\ instr \in AllInstructions /\ instr.op \in Ops("coarse")
      /\ instr.rs1 = HostWord(Number(instr.rs1)) /\ Number(instr.rs1) \in Nat
      /\ RegisterFile!NumberIn(instr.rs1) = Number(instr.rs1)
    BY OfferedIs
<1>4. Inv /\ Shapes
    BY DEF Adapted, Rest
<1>5. CASE cmd # NoCommand /\ ~CmdReady(cmd.op)
    <2>1. resp' = NoResp(pending_rd_q) /\ UNCHANGED <<adapter, state_q, ptr_q, pending_rd_q>>
        BY <1>1, <1>5 DEF CoarseIdle
    <2>2. QED
        BY <1>2, <1>5, <2>1, IdleCycle
<1>6. CASE cmd = NoCommand \/ CmdReady(cmd.op)
    <2>1. CASE instr.op = "SPX_SET_PTR"
        <3>1. cmd = NoCommand /\ cmd.op # CMD_READ
            BY <1>1, <2>1, CoarseCommands, Commands DEF CMD_READ
        <3>2. CoarseLegal(instr)
            BY <2>1 DEF CoarseLegal
        <3>3. state_q' = "IDLE" /\ resp' = Resp(ZeroWord, instr.rd, FALSE) /\ ptr_q' = instr.addr
            BY <1>1, <1>6, <2>1, <3>1, <3>2, CoarseTakes
        <3>4. RegisterFile!Becomes(f) /\ UNCHANGED fileVars
            BY <1>2, <1>4, <3>1, IdleTick
        <3>5. PICK ans : ans = RegisterFile!Answer(instr.rd, ZeroWord)
            OBVIOUS
        <3>6. RegisterFile!Streams(f, instr, ans)
            BY <2>1, <3>3, <3>4, <3>5, SameData DEF RegisterFile!Streams
        <3>7. RespNow' = ans /\ ans # RegisterFile!Nothing /\ OpenNow' = RegisterFile!Nothing
            <4>1. /\ RespNow' = RegisterFile!Answer(instr.rd, ZeroWord)
                  /\ RegisterFile!Answer(instr.rd, ZeroWord) # RegisterFile!Nothing
                  /\ OpenNow' = RegisterFile!Nothing
                BY <1>2, <3>3, AnsweredNow
            <4>2. QED
                BY <3>5, <4>1
        <3>8. RegisterFile!Cycle(f)
            BY <1>2, <1>3, <3>6, <3>7, Taken
        <3>9. Rest'
            BY <1>2, <1>4, <3>3, <3>4, ShapesStay, RestIs
        <3>10. QED
            BY <3>8, <3>9
    <2>2. CASE instr.op = "SPX_WR_NEXT" /\ MappedLegal
        <3>1. cmd = Command(CMD_WRITE, ptr_q, instr.rs1)
            BY <1>1, <2>2, CoarseCommands
        <3>2. cmd # NoCommand /\ cmd.op # CMD_READ
            BY <3>1, Commands DEF CMD_READ, CMD_WRITE
        <3>3. CoarseLegal(instr)
            BY <2>2 DEF CoarseLegal, UsesPtr
        <3>4. /\ state_q' = "IDLE" /\ resp' = Resp(ZeroWord, instr.rd, FALSE)
              /\ ptr_q' = (ptr_q + 1) % 256
            BY <1>1, <1>6, <2>2, <3>2, <3>3, CoarseTakes
        <3>5. RegisterFile!Write(f, ptr_q, Number(instr.rs1)) /\ Shapes' /\ ~RegisterFile!Busy
            BY <1>2, <1>3, <1>6, <3>1, <3>2, CommandWrite
        <3>6. PICK ans : ans = RegisterFile!Answer(instr.rd, ZeroWord)
            OBVIOUS
        <3>7. ptr_q' = ptr_q + 1 /\ ptr_q \in RegisterFile!DataAddr \cup RegisterFile!OutAddr
            BY <2>2, <3>4, PointerIs
        <3>8. RegisterFile!Streams(f, instr, ans)
            BY <1>3, <2>2, <3>5, <3>6, <3>7, SameData DEF RegisterFile!Streams
        <3>9. RespNow' = ans /\ ans # RegisterFile!Nothing /\ OpenNow' = RegisterFile!Nothing
            <4>1. /\ RespNow' = RegisterFile!Answer(instr.rd, ZeroWord)
                  /\ RegisterFile!Answer(instr.rd, ZeroWord) # RegisterFile!Nothing
                  /\ OpenNow' = RegisterFile!Nothing
                BY <1>2, <3>4, AnsweredNow
            <4>2. QED
                BY <3>6, <4>1
        <3>10. RegisterFile!Cycle(f)
            BY <1>2, <1>3, <3>8, <3>9, Taken
        <3>11. Rest'
            BY <1>2, <3>4, <3>5, RestIs
        <3>12. QED
            BY <3>10, <3>11
    <2>3. CASE instr.op = "SPX_RD_NEXT" /\ MappedLegal
        <3>1. cmd = Command(CMD_READ, ptr_q, ZeroWord)
            BY <1>1, <2>3, CoarseCommands
        <3>2. cmd # NoCommand /\ cmd.op = CMD_READ
            BY <3>1, Commands DEF CMD_READ
        <3>3. /\ state_q' = "WAIT_RSP" /\ resp' = NoResp(instr.rd) /\ pending_rd_q' = instr.rd
              /\ ptr_q' = (ptr_q + 1) % 256
            BY <1>1, <1>6, <2>3, <3>2, CoarseTakes
        <3>4. /\ RegisterFile!Read(f, ptr_q) /\ Shapes'
              /\ rsp_valid' = TRUE /\ rsp_rdata' = RegisterFile!Shown(ptr_q)
            BY <1>2, <3>1, CommandRead
        <3>5. PICK ans : ans = RegisterFile!Answer(instr.rd, rsp_rdata')
            OBVIOUS
        <3>6. ptr_q' = ptr_q + 1 /\ ptr_q \in RegisterFile!DataAddr \cup RegisterFile!OutAddr
            BY <2>3, <3>3, PointerIs
        <3>7. RegisterFile!Becomes(f)
            BY <2>3, <3>4, PointerIs, CommandLook
        <3>8. RegisterFile!Streams(f, instr, ans)
            BY <2>3, <3>4, <3>5, <3>6, <3>7 DEF RegisterFile!Streams
        <3>9. OpenNow' = ans /\ RespNow' = RegisterFile!Nothing
            BY <1>2, <3>3, <3>5, AnswerOpen
        <3>10. RegisterFile!Cycle(f)
            BY <1>2, <1>3, <3>8, <3>9, Taken
        <3>11. Rest'
            BY <1>2, <3>3, <3>4, RestIs
        <3>12. QED
            BY <3>10, <3>11
    <2>4. CASE instr.op = "SPX_START_THASHX4"
        <3>1. cmd = Command(CMD_WRITE, 80, HostWord(Number(instr.rs1) % 4))
            BY <1>1, <2>4, CoarseCommands
        <3>2. cmd # NoCommand /\ cmd.op # CMD_READ
            BY <3>1, Commands DEF CMD_READ, CMD_WRITE
        <3>3. /\ state_q' = "START_ISSUE" /\ resp' = NoResp(instr.rd) /\ pending_rd_q' = instr.rd
              /\ ptr_q' = ptr_q
            <4>1. instr.op \notin {"SPX_SET_PTR", "SPX_WR_NEXT", "SPX_RD_NEXT"}
                BY <2>4
            <4>2. state_q' = "START_ISSUE" /\ resp' = NoResp(instr.rd)
                BY <1>1, <1>6, <2>4, <3>2, CoarseTakes
            <4>3. ptr_q' = ptr_q
                BY <1>1, <1>6, <4>1, CoarseTakes
            <4>4. pending_rd_q' = instr.rd
                BY <1>1, <1>6, CoarseTakes
            <4>5. QED
                BY <4>2, <4>3, <4>4
        <3>4. /\ RegisterFile!Write(f, 80, Number(instr.rs1)) /\ Shapes' /\ ~RegisterFile!Busy
              /\ flags_q'.busy = FALSE
            BY <1>2, <1>3, <1>6, <3>1, <3>2, StartHalf
        <3>5. PICK ans : ans = RegisterFile!StartDue(instr.rd)
            OBVIOUS
        <3>6. RegisterFile!Streams(f, instr, ans)
            BY <1>3, <2>4, <3>3, <3>4, <3>5, Regions DEF RegisterFile!Streams
        <3>7. OpenNow' = ans /\ RespNow' = RegisterFile!Nothing
            BY <1>2, <3>3, <3>5, StartOpen
        <3>8. RegisterFile!Cycle(f)
            BY <1>2, <1>3, <3>6, <3>7, Taken
        <3>9. Rest'
            BY <1>2, <3>3, <3>4, RestIs
        <3>10. QED
            BY <3>8, <3>9
    <2>5. CASE instr.op = "SPX_STATUS"
        <3>1. cmd = Command(CMD_READ, 81, ZeroWord)
            BY <1>1, <2>5, CoarseCommands
        <3>2. cmd # NoCommand /\ cmd.op = CMD_READ
            BY <3>1, Commands DEF CMD_READ
        <3>3. /\ state_q' = "WAIT_RSP" /\ resp' = NoResp(instr.rd) /\ pending_rd_q' = instr.rd
              /\ ptr_q' = ptr_q
            BY <1>1, <1>6, <2>5, <3>2, CoarseTakes
        <3>4. /\ RegisterFile!Read(f, 81) /\ Shapes'
              /\ rsp_valid' = TRUE /\ rsp_rdata' = RegisterFile!Shown(81)
            BY <1>2, <3>1, CommandRead
        <3>5. PICK ans : ans = RegisterFile!Answer(instr.rd, rsp_rdata')
            OBVIOUS
        <3>6. RegisterFile!Becomes(f)
            BY <3>4, CommandLook, Regions
        <3>7. RegisterFile!Takes(f, instr, ans)
            BY <2>5, <3>3, <3>4, <3>5, <3>6, Regions DEF RegisterFile!Takes
        <3>8. OpenNow' = ans /\ RespNow' = RegisterFile!Nothing
            BY <1>2, <3>3, <3>5, AnswerOpen
        <3>9. RegisterFile!Cycle(f)
            BY <1>2, <1>3, <3>7, <3>8, Taken
        <3>10. Rest'
            BY <1>2, <3>3, <3>4, RestIs
        <3>11. QED
            BY <3>9, <3>10
    <2>6. CASE \/ instr.op = "SPX_OTHER"
               \/ instr.op \in {"SPX_WR_NEXT", "SPX_RD_NEXT"} /\ ~MappedLegal
        <3>1. cmd = NoCommand /\ cmd.op # CMD_READ
            BY <1>1, <2>6, CoarseCommands, Commands DEF CMD_READ
        <3>2. ~CoarseLegal(instr)
            BY <2>6 DEF CoarseLegal, UsesPtr
        <3>3. state_q' = "IDLE" /\ resp' = Resp(ZeroWord, instr.rd, TRUE) /\ ptr_q' = ptr_q
            BY <1>1, <1>6, <2>6, <3>1, <3>2, CoarseTakes
        <3>4. RegisterFile!Becomes(f) /\ UNCHANGED fileVars
            BY <1>2, <1>4, <3>1, IdleTick
        <3>5. PICK ans : ans = RegisterFile!Illegal(instr.rd)
            OBVIOUS
        <3>6. RegisterFile!Refused(f, instr, ans)
            BY <2>6, <3>3, <3>4, <3>5, PointerIs DEF RegisterFile!Refused
        <3>7. RespNow' = ans /\ ans # RegisterFile!Nothing /\ OpenNow' = RegisterFile!Nothing
            BY <1>2, <3>3, <3>5, RefusedNow
        <3>8. RegisterFile!Cycle(f)
            BY <1>2, <1>3, <3>6, <3>7, Taken
        <3>9. Rest'
            BY <1>2, <1>4, <3>3, <3>4, ShapesStay, RestIs
        <3>10. QED
            BY <3>8, <3>9
    <2>7. QED
        <3>1. instr.op \in {"SPX_SET_PTR", "SPX_WR_NEXT", "SPX_RD_NEXT", "SPX_START_THASHX4",
                            "SPX_STATUS", "SPX_OTHER"}
            BY <1>3 DEF Ops
        <3>2. CASE instr.op \in {"SPX_WR_NEXT", "SPX_RD_NEXT"}
            <4>1. CASE ~MappedLegal
                BY <2>6, <3>2, <4>1
            <4>2. CASE MappedLegal /\ instr.op = "SPX_WR_NEXT"
                BY <2>2, <4>2
            <4>3. CASE MappedLegal /\ instr.op = "SPX_RD_NEXT"
                BY <2>3, <4>3
            <4>4. QED
                BY <3>2, <4>1, <4>2, <4>3
        <3>3. CASE instr.op \notin {"SPX_WR_NEXT", "SPX_RD_NEXT"}
            <4>1. CASE instr.op = "SPX_OTHER"
                BY <2>6, <4>1
            <4>2. QED
                BY <2>1, <2>4, <2>5, <3>1, <3>3, <4>1
        <3>4. QED
            BY <3>2, <3>3
<1>7. QED
    BY <1>5, <1>6

\* A raw command, answered by the wrapper itself in the next cycle.
LEMMA RawCommands ==
    ASSUME NEW instr, NEW cmd, cmd = RawDecode(instr)
    PROVE  /\ instr.op = "CMD_WRITE" => cmd = Command(CMD_WRITE, instr.addr, instr.rs1)
           /\ instr.op = "CMD_READ" => cmd = Command(CMD_READ, instr.addr, ZeroWord)
           /\ instr.op = "CMD_START" => cmd = Command(CMD_START, instr.addr, ZeroWord)
           /\ instr.op = "CMD_OTHER" => cmd = Command(CMD_OTHER, instr.addr, ZeroWord)
    BY DEF RawDecode

LEMMA CommandOther ==
    ASSUME Adapted, NEW cmd, NEW addr, NEW f, WrapperTick(cmd),
           cmd = Command(CMD_OTHER, addr, ZeroWord), CmdReady(cmd.op), f = Base
    PROVE  /\ RegisterFile!Error(f, 1) /\ Shapes' /\ ~RegisterFile!Busy
           /\ rsp_valid' = TRUE /\ rsp_rdata' = RegisterFile!ZeroWord
<1>1. cmd # NoCommand /\ cmd.op \notin {CMD_READ, CMD_WRITE, CMD_START}
    BY Commands DEF CMD_START, CMD_READ, CMD_WRITE, CMD_OTHER
<1>2. Inv /\ Shapes
    BY DEF Adapted, Rest
<1>3. RegisterFile!Error(f, 1) /\ UNCHANGED fileVars /\ rsp_valid' = TRUE /\ rsp_rdata' = ZeroWord
    BY <1>1, <1>2, OtherTick
<1>4. ~RegisterFile!Busy
    BY <1>1, <1>2, ReadyIs
<1>5. QED
    BY <1>2, <1>3, <1>4, ShapesStay, SameData

LEMMA RawCycle ==
    ASSUME Adapted, NEW f, NEW instr \in Offers, adapter = "bare", Raw(instr), f = Base,
           adapter' = adapter
    PROVE  RegisterFile!Cycle(f) /\ Rest'
<1>1. PICK cmd : cmd = RawDecode(instr)
    OBVIOUS
<1>2. /\ WrapperTick(cmd) /\ state_q = "IDLE" /\ state_q' = "IDLE" /\ ptr_q' = ptr_q
      /\ pending_rd_q = 0 /\ pending_rd_q' = 0 /\ resp' = NoResp(pending_rd_q)
      /\ UNCHANGED <<adapter, state_q, ptr_q, pending_rd_q>>
    BY <1>1 DEF Raw, Adapted, Rest
<1>3. /\ instr \in AllInstructions /\ instr.op \in Ops("bare") /\ instr.rd = 0
      /\ instr.rs1 = HostWord(Number(instr.rs1)) /\ Number(instr.rs1) \in Nat
      /\ RegisterFile!NumberIn(instr.rs1) = Number(instr.rs1)
    BY OfferedIs
<1>4. Inv /\ Shapes /\ adapter \in DOMAIN Instructions
    BY DEF Adapted, Rest
<1>5. CASE ~CmdReady(cmd.op)
    BY <1>2, <1>5, IdleCycle
<1>6. CASE CmdReady(cmd.op)
    <2>1. PICK ans : ans = RegisterFile!Answer(0, rsp_rdata')
        OBVIOUS
    <2>2. RegisterFile!Takes(f, instr, ans) /\ Shapes' /\ rsp_valid' = TRUE
        <3>1. CASE instr.op = "CMD_WRITE"
            <4>1. cmd = Command(CMD_WRITE, instr.addr, instr.rs1)
                BY <1>1, <3>1, RawCommands
            <4>2. /\ RegisterFile!Write(f, instr.addr, Number(instr.rs1)) /\ Shapes'
                  /\ ~RegisterFile!Busy
                  /\ rsp_valid' = TRUE /\ rsp_rdata' = RegisterFile!ZeroWord
                BY <1>2, <1>3, <1>6, <4>1, CommandWrite
            <4>3. QED
                BY <1>2, <1>3, <2>1, <3>1, <4>2 DEF RegisterFile!Takes
        <3>2. CASE instr.op = "CMD_READ"
            <4>1. cmd = Command(CMD_READ, instr.addr, ZeroWord)
                BY <1>1, <3>2, RawCommands
            <4>2. /\ RegisterFile!Read(f, instr.addr) /\ Shapes'
                  /\ rsp_valid' = TRUE /\ rsp_rdata' = RegisterFile!Shown(instr.addr)
                BY <1>2, <4>1, CommandRead
            <4>3. QED
                BY <1>2, <1>3, <2>1, <3>2, <4>2 DEF RegisterFile!Takes
        <3>3. CASE instr.op = "CMD_START"
            <4>1. cmd = Command(CMD_START, instr.addr, ZeroWord)
                BY <1>1, <3>3, RawCommands
            <4>2. /\ RegisterFile!Start(f) /\ Shapes' /\ ~RegisterFile!Busy
                  /\ rsp_valid' = TRUE /\ rsp_rdata' = RegisterFile!ZeroWord
                BY <1>2, <1>6, <4>1, CommandStart
            <4>3. QED
                BY <1>2, <1>3, <2>1, <3>3, <4>2 DEF RegisterFile!Takes
        <3>4. CASE instr.op = "CMD_OTHER"
            <4>1. cmd = Command(CMD_OTHER, instr.addr, ZeroWord)
                BY <1>1, <3>4, RawCommands
            <4>2. /\ RegisterFile!Error(f, 1) /\ Shapes' /\ ~RegisterFile!Busy
                  /\ rsp_valid' = TRUE /\ rsp_rdata' = RegisterFile!ZeroWord
                BY <1>2, <1>6, <4>1, CommandOther
            <4>3. QED
                BY <1>2, <1>3, <2>1, <3>4, <4>2 DEF RegisterFile!Takes
        <3>5. instr.op \in {"CMD_WRITE", "CMD_READ", "CMD_START", "CMD_OTHER"}
            BY <1>3 DEF Ops
        <3>6. QED
            BY <3>1, <3>2, <3>3, <3>4, <3>5
    <2>3. RespNow' = ans /\ ans # RegisterFile!Nothing /\ OpenNow' = RegisterFile!Nothing
        <3>1. OpenNow' = RegisterFile!Nothing
            BY <1>2, OpenIs
        <3>2. RespNow' = RegisterFile!Answer(0, rsp_rdata')
            BY <1>2, <2>2, RespIs
        <3>3. RegisterFile!Answer(0, rsp_rdata') # RegisterFile!Nothing
            BY Responses
        <3>4. QED
            BY <2>1, <3>1, <3>2, <3>3
    <2>4. RegisterFile!Cycle(f)
        BY <1>2, <1>3, <2>2, <2>3, Taken
    <2>5. Rest'
        BY <1>2, <1>4, <2>2 DEF Rest
    <2>6. QED
        BY <2>4, <2>5
<1>7. QED
    BY <1>5, <1>6

LEMMA WaitCycle ==
    ASSUME Adapted, NEW f, WaitRsp, f = Base
    PROVE  RegisterFile!Cycle(f) /\ Rest'
<1>1. /\ state_q = "WAIT_RSP" /\ rsp_valid = TRUE /\ adapter' = adapter /\ adapter # "bare"
      /\ adapter' # "bare" /\ Inv /\ Shapes
    BY DEF WaitRsp, Adapted, Rest
<1>2. /\ WrapperTick(NoCommand) /\ resp' = Resp(rsp_rdata, pending_rd_q, FALSE)
      /\ state_q' = "IDLE" /\ ptr_q' = ptr_q
    BY <1>1 DEF WaitRsp
<1>3. RegisterFile!Becomes(f) /\ UNCHANGED fileVars
    BY <1>1, <1>2, IdleTick
<1>4. PICK ans : ans = RegisterFile!Answer(pending_rd_q, rsp_rdata)
    OBVIOUS
<1>5. OpenNow = ans
    BY <1>1, <1>4, OpenIs
<1>6. RespNow' = ans /\ OpenNow' = RegisterFile!Nothing
    <2>1. /\ RespNow' = RegisterFile!Answer(pending_rd_q, rsp_rdata)
          /\ OpenNow' = RegisterFile!Nothing
        BY <1>1, <1>2, AnsweredNow
    <2>2. QED
        BY <1>4, <2>1
<1>7. OpenNow.kind = "answer" /\ RespNow' = OpenNow
    BY <1>4, <1>5, <1>6 DEF RegisterFile!Answer
<1>8. RegisterFile!AnswerDue(f)
    BY <1>2, <1>3, <1>6, <1>7 DEF RegisterFile!AnswerDue, OpenNow, RespNow
<1>9. RegisterFile!Cycle(f)
    BY <1>8 DEF RegisterFile!Cycle
<1>10. Rest'
    BY <1>1, <1>2, <1>3, ShapesStay, RestIs
<1>11. QED
    BY <1>9, <1>10

LEMMA IssueCycle ==
    ASSUME Adapted, NEW f, StartIssue, f = Base
    PROVE  RegisterFile!Cycle(f) /\ Rest'
<1>1. /\ state_q = "START_ISSUE" /\ flags_q.busy = FALSE /\ adapter' = adapter
      /\ adapter # "bare" /\ adapter' # "bare" /\ Inv /\ Shapes
    BY DEF StartIssue, Adapted, Rest
<1>2. PICK cmd : cmd = Command(CMD_START, 0, ZeroWord)
    OBVIOUS
<1>3. CmdReady(cmd.op) /\ CmdReady(CMD_START)
    BY <1>1, ReadyIs
<1>4. /\ WrapperTick(cmd) /\ resp' = Resp(ZeroWord, pending_rd_q, FALSE)
      /\ state_q' = "IDLE" /\ ptr_q' = ptr_q
    BY <1>2, <1>3 DEF StartIssue
<1>5. RegisterFile!Start(f) /\ Shapes'
    BY <1>2, <1>3, <1>4, CommandStart
<1>6. OpenNow = RegisterFile!StartDue(pending_rd_q)
    BY <1>1, OpenIs
<1>7. OpenNow.kind = "start" /\ OpenNow.rd = pending_rd_q
    BY <1>6 DEF RegisterFile!StartDue
<1>8. /\ RespNow' = RegisterFile!Answer(pending_rd_q, RegisterFile!ZeroWord)
      /\ OpenNow' = RegisterFile!Nothing
    BY <1>1, <1>4, AnsweredNow, SameData
<1>9. RegisterFile!StartNow(f)
    BY <1>4, <1>5, <1>7, <1>8 DEF RegisterFile!StartNow, OpenNow, RespNow
<1>10. RegisterFile!Cycle(f)
    BY <1>9 DEF RegisterFile!Cycle
<1>11. Rest'
    BY <1>1, <1>4, <1>5, RestIs
<1>12. QED
    BY <1>10, <1>11

\* A clock edge is a cycle of the register file.
LEMMA ClockServes ==
    ASSUME Adapted, Clock, NEW f, f = Base
    PROVE  RegisterFile!Cycle(f) /\ Rest'
<1>1. adapter' = adapter
    BY DEF Clock
<1>2. ASSUME NEW instr \in Offers, Offered(instr) PROVE RegisterFile!Cycle(f) /\ Rest'
    BY <1>1, <1>2, FineCycle, CoarseCycle, RawCycle DEF Offered
<1>3. CASE NoInstruction
    <2>1. PICK cmd : cmd = NoCommand
        OBVIOUS
    <2>2. /\ state_q = "IDLE" /\ WrapperTick(cmd) /\ resp' = NoResp(pending_rd_q)
          /\ UNCHANGED <<adapter, state_q, ptr_q, pending_rd_q>>
        BY <1>1, <1>3, <2>1 DEF NoInstruction
    <2>3. QED
        BY <2>1, <2>2, IdleCycle
<1>4. CASE WaitRsp
    BY <1>4, WaitCycle
<1>5. CASE StartIssue
    BY <1>5, IssueCycle
<1>6. QED
    BY <1>2, <1>3, <1>4, <1>5 DEF Clock

\* An edge at which a job ends leaves its digests first.
LEMMA EdgeServes ==
    ASSUME Adapted, Clock
    PROVE  RegisterFile!FileNext /\ Rest'
<1>1. PICK f : f = Base
    OBVIOUS
<1>2. RegisterFile!Cycle(f) /\ Rest'
    BY <1>1, ClockServes
<1>3. CASE ~Capture
    <2>1. RegisterFile!Cycle(FileNow)
        BY <1>1, <1>2, <1>3 DEF Base
    <2>2. QED
        BY <1>2, <2>1 DEF RegisterFile!FileNext, FileNow
<1>4. CASE Capture
    <2>1. RegisterFile!Cycle(RegisterFile!WithDigests(FileNow))
        BY <1>1, <1>2, <1>4 DEF Base
    <2>2. RegisterFile!Busy
        BY <1>4, BusyIs DEF Capture
    <2>3. RegisterFile!Ending
        BY <2>1, <2>2 DEF RegisterFile!Ending, FileNow
    <2>4. QED
        BY <1>2, <2>3 DEF RegisterFile!FileNext
<1>5. QED
    BY <1>3, <1>4

\* The registers at their reset values are the file at its own.
CleanWord(a) ==
    CASE a = RegisterFile!ConfigAddr -> [inblocks |-> 1]
      [] a = RegisterFile!StatusAddr -> RegisterFile!Status(FALSE, FALSE, FALSE, 0)
      [] OTHER -> RegisterFile!ZeroWord

LEMMA CleanWordIs ==
    /\ CleanWord(80) = [inblocks |-> 1] /\ CleanWord(81) = NoFlags
    /\ \A a : a # 80 /\ a # 81 => CleanWord(a) = ZeroWord
<1>1. /\ RegisterFile!ConfigAddr = 80 /\ RegisterFile!StatusAddr = 81
      /\ RegisterFile!ZeroWord = ZeroWord
    BY Regions, SameData
<1>2. RegisterFile!Status(FALSE, FALSE, FALSE, 0) = NoFlags
    BY DEF RegisterFile!Status, NoFlags
<1>3. CleanWord(80) = [inblocks |-> 1]
    BY <1>1 DEF CleanWord
<1>4. CleanWord(81) = NoFlags
    <2>1. CleanWord(81) = RegisterFile!Status(FALSE, FALSE, FALSE, 0)
        BY <1>1 DEF CleanWord
    <2>2. QED
        BY <1>2, <2>1
<1>5. ASSUME NEW a, a # 80, a # 81 PROVE CleanWord(a) = ZeroWord
    BY <1>1, <1>5 DEF CleanWord
<1>6. QED
    BY <1>3, <1>4, <1>5

LEMMA CleanFile ==
    ASSUME NEW seed, NEW addr, NEW in, NEW out, NEW a \in RegisterAddr,
           seed = ZeroDigest, addr = [l \in Lane |-> ZeroWide], in = [l \in Lane |-> ZeroWide],
           out = [l \in Lane |-> ZeroDigest]
    PROVE  FileWord(seed, addr, in, out, 1, NoFlags, a) = CleanWord(a)
<1>1. /\ \A i \in 0 .. 3 : seed[i] = ZeroWord
      /\ \A l \in 0 .. 3, i \in 0 .. 7 : addr[l][i] = ZeroWord /\ in[l][i] = ZeroWord
      /\ \A l \in 0 .. 3, i \in 0 .. 3 : out[l][i] = ZeroWord
    BY DEF ZeroDigest, ZeroWide, Lane, Digest, Wide
<1>2. CASE a \in 0 .. 3
    <2>1. FileWord(seed, addr, in, out, 1, NoFlags, a) = ZeroWord /\ a # 80 /\ a # 81
        BY <1>1, <1>2, WordIs
    <2>2. QED
        BY <2>1, CleanWordIs
<1>3. CASE a \in 16 .. 47
    <2>1. (a - 16) \div 8 \in 0 .. 3 /\ (a - 16) % 8 \in 0 .. 7 /\ a # 80 /\ a # 81
        BY <1>3
    <2>2. FileWord(seed, addr, in, out, 1, NoFlags, a) = ZeroWord
        BY <1>1, <1>3, <2>1, WordIs
    <2>3. QED
        BY <2>1, <2>2, CleanWordIs
<1>4. CASE a \in 48 .. 79
    <2>1. (a - 48) \div 8 \in 0 .. 3 /\ (a - 48) % 8 \in 0 .. 7 /\ a # 80 /\ a # 81
        BY <1>4
    <2>2. FileWord(seed, addr, in, out, 1, NoFlags, a) = ZeroWord
        BY <1>1, <1>4, <2>1, WordIs
    <2>3. QED
        BY <2>1, <2>2, CleanWordIs
<1>5. CASE a \in 96 .. 111
    <2>1. (a - 96) \div 4 \in 0 .. 3 /\ (a - 96) % 4 \in 0 .. 3 /\ a # 80 /\ a # 81
        BY <1>5
    <2>2. FileWord(seed, addr, in, out, 1, NoFlags, a) = ZeroWord
        BY <1>1, <1>5, <2>1, WordIs
    <2>3. QED
        BY <2>1, <2>2, CleanWordIs
<1>6. CASE a = 80
    <2>1. FileWord(seed, addr, in, out, 1, NoFlags, 80) = [inblocks |-> 1]
        BY WordIs
    <2>2. QED
        BY <1>6, <2>1, CleanWordIs
<1>7. CASE a = 81
    <2>1. FileWord(seed, addr, in, out, 1, NoFlags, 81) = NoFlags
        BY WordIs
    <2>2. QED
        BY <1>7, <2>1, CleanWordIs
<1>8. QED
    BY <1>2, <1>3, <1>4, <1>5, <1>6, <1>7, Regions

LEMMA ArraysClean ==
    ASSUME NEW r, r = [l \in Lane |-> ZeroWide]
    PROVE  IsWideArray(r)
    BY DEF IsWideArray, ZeroWide

LEMMA StartsServed == Init => RegisterFile!FileInit /\ Rest
<1> SUFFICES ASSUME Init PROVE RegisterFile!FileInit /\ Rest
    OBVIOUS
<1>1. /\ pub_seed_q = ZeroDigest /\ addr_q = [l \in Lane |-> ZeroWide]
      /\ input_q = [l \in Lane |-> ZeroWide] /\ output_q = [l \in Lane |-> ZeroDigest]
      /\ inblocks_q = 1 /\ flags_q = NoFlags /\ rsp_valid = FALSE
    BY DEF Init, WrapperInit
<1>2. /\ state_q = "IDLE" /\ ptr_q = 0 /\ pending_rd_q = 0 /\ resp = NoResp(0)
      /\ adapter \in DOMAIN Instructions
    BY DEF Init
<1>3. ASSUME NEW a \in RegisterAddr PROVE RegisterAt(a) = CleanWord(a)
    <2>1. RegisterAt(a) = FileWord(pub_seed_q, addr_q, input_q, output_q, 1, NoFlags, a)
        BY <1>1, RegisterIs
    <2>2. QED
        BY <1>1, <2>1, CleanFile
<1>4. [a \in RegisterAddr |-> RegisterAt(a)] = [a \in RegisterFile!Addr |-> CleanWord(a)]
    BY <1>3, Regions
<1>5. OpenNow = RegisterFile!Nothing
    BY <1>2, OpenIs
<1>6. RespNow = RegisterFile!Nothing
    <2>1. AnswerOf(resp) = RegisterFile!Nothing
        BY <1>2, Responses
    <2>2. QED
        BY <1>1, <2>1 DEF RespNow, RegisterFile!Nothing
<1>7. RegisterFile!FileInit
    BY <1>2, <1>4, <1>5, <1>6, Zenon DEF RegisterFile!FileInit, OpenNow, RespNow, CleanWord
<1>8. Shapes
    <2>1. pub_seed_q = [i \in Digest |-> pub_seed_q[i]]
        BY <1>1 DEF ZeroDigest
    <2>2. QED
        BY <1>1, <2>1, ArraysClean DEF Shapes
<1>9. QED
    BY <1>1, <1>2, <1>7, <1>8 DEF Rest

\* A reset clears the file, whatever was open.
LEMMA ResetServes == Rest /\ Reset => RegisterFile!ResetFile /\ Rest'
<1> SUFFICES ASSUME Rest, Reset PROVE RegisterFile!ResetFile /\ Rest'
    OBVIOUS
<1>1. /\ pub_seed_q' = ZeroDigest /\ addr_q' = [l \in Lane |-> ZeroWide]
      /\ input_q' = [l \in Lane |-> ZeroWide] /\ output_q' = [l \in Lane |-> ZeroDigest]
      /\ inblocks_q' = 1 /\ flags_q' = NoFlags /\ rsp_valid' = FALSE
    BY DEF Reset, WrapperReset
<1>2. /\ state_q' = "IDLE" /\ ptr_q' = 0 /\ pending_rd_q' = 0 /\ resp' = NoResp(0)
      /\ adapter' = adapter /\ adapter \in DOMAIN Instructions
    BY DEF Reset, Rest
<1>3. PICK seed, addr, in, out :
         seed = pub_seed_q' /\ addr = addr_q' /\ in = input_q' /\ out = output_q'
    OBVIOUS
<1>4. ASSUME NEW a \in RegisterAddr PROVE RegisterAt(a)' = CleanWord(a)
    <2>1. RegisterAt(a)' = FileWord(seed, addr, in, out, 1, NoFlags, a)
        BY <1>1, <1>3 DEF RegisterAt, FileWord
    <2>2. QED
        BY <1>1, <1>3, <2>1, CleanFile
<1>5. [a \in RegisterAddr |-> RegisterAt(a)]' = [a \in RegisterFile!Addr |-> CleanWord(a)]
    BY <1>4, Regions
<1>6. OpenNow' = RegisterFile!Nothing
    BY <1>2, OpenIs
<1>7. RespNow' = RegisterFile!Nothing
    <2>1. AnswerOf(NoResp(0)) = RegisterFile!Nothing
        BY Responses
    <2>2. CASE adapter' = "bare"
        BY <1>1, <2>2, RespIs
    <2>3. CASE adapter' # "bare"
        BY <1>2, <2>1, <2>3, RespIs
    <2>4. QED
        BY <2>2, <2>3
<1>8. RegisterFile!ResetFile
    BY <1>2, <1>5, <1>6, <1>7, Zenon DEF RegisterFile!ResetFile, OpenNow, RespNow, CleanWord
<1>9. Shapes'
    <2>1. seed = [i \in Digest |-> seed[i]]
        BY <1>1, <1>3 DEF ZeroDigest
    <2>2. IsWideArray(addr) /\ IsWideArray(in)
        BY <1>1, <1>3, ArraysClean
    <2>3. QED
        BY <1>3, <2>1, <2>2 DEF Shapes, IsWideArray
<1>10. QED
    BY <1>1, <1>2, <1>8, <1>9 DEF Rest

LEMMA StepServes ==
    Adapted /\ [Next]_vars => [RegisterFile!FileNext]_(RegisterFile!fileVars) /\ Rest'
<1> SUFFICES ASSUME Adapted, [Next]_vars
             PROVE  [RegisterFile!FileNext]_(RegisterFile!fileVars) /\ Rest'
    OBVIOUS
<1>1. CASE Clock
    BY <1>1, EdgeServes
<1>2. CASE Reset
    BY <1>2, ResetServes DEF Adapted, RegisterFile!FileNext
<1>3. CASE UNCHANGED vars
    <2>1. /\ UNCHANGED <<adapter, state_q, ptr_q, pending_rd_q, resp>>
          /\ UNCHANGED <<pub_seed_q, addr_q, input_q, inblocks_q, output_q, flags_q, rsp_valid,
                          rsp_rdata>>
        BY <1>3 DEF vars, adapterVars, wrapperVars, fileVars
    <2>2. \A a : RegisterAt(a)' = RegisterAt(a)
        BY <2>1 DEF RegisterAt, InblocksWord
    <2>3. [a \in RegisterAddr |-> RegisterAt(a)]' = [a \in RegisterAddr |-> RegisterAt(a)]
        BY <2>2
    <2>4. OpenNow' = OpenNow /\ RespNow' = RespNow
        BY <2>1 DEF OpenNow, RespNow, WrapperAnswer, AnswerOf
    <2>5. UNCHANGED RegisterFile!fileVars
        BY <2>1, <2>3, <2>4 DEF RegisterFile!fileVars, OpenNow, RespNow
    <2>6. Rest'
        BY <2>1 DEF Adapted, Rest, Shapes, IsWideArray
    <2>7. QED
        BY <2>5, <2>6
<1>4. QED
    BY <1>1, <1>2, <1>3 DEF Next

(***************************************************************************)
(* Under either adapter or bare, whatever the host offers and whenever the *)
(* engine answers, spx_cop_wrapper behaves as a file of words served one   *)
(* instruction at a time: each is answered once, in the next cycle or the  *)
(* one after, with what the file held when it was taken, and the outputs   *)
(* become the digests of what the file holds when a job ends.              *)
(***************************************************************************)
THEOREM FileIsServed ==
    Spec => RegisterFile!FileInit /\ [][RegisterFile!FileNext]_(RegisterFile!fileVars)
<1>1. Init => Adapted /\ RegisterFile!FileInit
    BY AtReset, StartsServed DEF Init, Adapted
<1>2. Adapted /\ [Next]_vars => Adapted' /\ [RegisterFile!FileNext]_(RegisterFile!fileVars)
    BY CycleKeeps, StepServes DEF Adapted
<1>3. QED
    BY <1>1, <1>2, PTL DEF Spec
=============================================================================
