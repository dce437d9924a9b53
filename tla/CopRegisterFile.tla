-------------------------- MODULE CopRegisterFile --------------------------
(***************************************************************************)
(* What the prototype coprocessor promises its host: a file of words under *)
(* the documented addresses, one instruction at a time, each of them       *)
(* answered once with what the file held when it was taken.  There is no   *)
(* engine here: a job ends by the output words becoming the digests of     *)
(* what the file then holds, so the data registers of a job are those of   *)
(* its start and of its end at once.                                       *)
(***************************************************************************)
EXTENDS ThashX4, Integers

CONSTANT Instructions      \* records op, addr, rs1, rd

VARIABLES file,      \* address -> word
          ptr,       \* the streaming pointer
          open,      \* what the instruction under way will be answered
          resp       \* what is answered in this cycle

fileVars == <<file, ptr, open, resp>>

ConfigAddr == 80
StatusAddr == 81
DataAddr   == (0 .. 3) \cup (16 .. 79)
OutAddr    == 96 .. 111
Addr       == DataAddr \cup OutAddr \cup {ConfigAddr, StatusAddr}

Nothing == [kind |-> "nothing"]
Answer(rd, data) == [kind |-> "answer", rd |-> rd, data |-> data]
Illegal(rd) == [kind |-> "illegal", rd |-> rd]
StartDue(rd) == [kind |-> "start", rd |-> rd]

Status(busy, done, error, code) ==
    [busy |-> busy, done |-> done, error |-> error, code |-> code]

NumberIn(w) == w.src[2]

----------------------------------------------------------------------------
Busy == file[StatusAddr].busy

\* What a read of the status register shows besides the flags.
Shown(a) ==
    CASE a = StatusAddr -> [flags |-> file[a], inblocks |-> file[ConfigAddr].inblocks]
      [] a \in Addr \ {StatusAddr} -> file[a]
      [] OTHER -> ZeroWord

Jobs(f) ==
    [seed |-> [i \in Digest |-> f[i]],
     addr |-> [l \in Lane |-> [i \in Wide |-> f[16 + 8 * l + i]]],
     in   |-> [l \in Lane |-> [i \in Wide |-> f[48 + 8 * l + i]]],
     inblocks |-> f[ConfigAddr].inblocks]

WithDigests(f) ==
    LET out == ThashX4(Jobs(f))
    IN  [a \in Addr |-> CASE a \in OutAddr    -> out[(a - 96) \div 4][(a - 96) % 4]
                          [] a = StatusAddr -> [f[a] EXCEPT !.busy = FALSE, !.done = TRUE]
                          [] OTHER          -> f[a]]

\* The file becomes f, but for the word at a.
Becomes(f) == \A b \in Addr : file'[b] = f[b]
BecomesBut(f, a, word) ==
    /\ file'[a] = word
    /\ \A b \in Addr : b # a => file'[b] = f[b]

Error(f, code) ==
    BecomesBut(f, StatusAddr, [f[StatusAddr] EXCEPT !.error = TRUE, !.code = code])

Clear(f, n) ==
    LET s == f[StatusAddr]
    IN  BecomesBut(f, StatusAddr,
                   Status(s.busy, s.done /\ n % 4 \notin {2, 3}, s.error /\ n % 8 \notin 4 .. 7,
                          IF n % 8 \in 4 .. 7 THEN 0 ELSE s.code))

Write(f, a, n) ==
    \/ a \in DataAddr   /\ BecomesBut(f, a, [src |-> <<"host", n>>, msb |-> 0])
    \/ a = ConfigAddr /\ BecomesBut(f, a, [inblocks |-> n % 4])
    \/ a = StatusAddr /\ Clear(f, n)
    \/ a \notin Addr \ OutAddr /\ Error(f, 2)

Read(f, a) == IF a \in Addr THEN Becomes(f) ELSE Error(f, 2)

Start(f) ==
    BecomesBut(f, StatusAddr, IF f[ConfigAddr].inblocks \in {1, 2}
                              THEN Status(TRUE, FALSE, FALSE, 0)
                              ELSE Status(FALSE, FALSE, TRUE, 3))

----------------------------------------------------------------------------
FileInit ==
    /\ file = [a \in Addr |-> CASE a = ConfigAddr -> [inblocks |-> 1]
                                [] a = StatusAddr -> Status(FALSE, FALSE, FALSE, 0)
                                [] OTHER          -> ZeroWord]
    /\ ptr = 0
    /\ open = Nothing
    /\ resp = Nothing

\* One instruction in one cycle: what becomes of the file f, how the pointer
\* moves, and the answer.  Only reads are served while a job runs.
Takes(f, instr, answer) ==
    \/ /\ instr.op \in {"SPX_WR", "CMD_WRITE"}
       /\ ~Busy /\ answer = Answer(instr.rd, ZeroWord)
       /\ Write(f, instr.addr, NumberIn(instr.rs1))
       /\ UNCHANGED ptr
    \/ /\ instr.op \in {"SPX_RD", "CMD_READ"}
       /\ answer = Answer(instr.rd, Shown(instr.addr))
       /\ Read(f, instr.addr)
       /\ UNCHANGED ptr
    \/ /\ instr.op = "SPX_STATUS"
       /\ answer = Answer(instr.rd, Shown(StatusAddr))
       /\ Becomes(f)
       /\ UNCHANGED ptr
    \/ /\ instr.op \in {"SPX_START", "CMD_START"}
       /\ ~Busy /\ answer = Answer(instr.rd, ZeroWord)
       /\ Start(f)
       /\ UNCHANGED ptr
    \/ /\ instr.op = "SPX_CLR"
       /\ ~Busy /\ answer = Answer(instr.rd, ZeroWord)
       /\ Write(f, StatusAddr, 6)
       /\ UNCHANGED ptr
    \/ /\ instr.op = "CMD_OTHER"
       /\ ~Busy /\ answer = Answer(instr.rd, ZeroWord)
       /\ Error(f, 1)
       /\ UNCHANGED ptr

\* The streaming instructions: the pointer passes over data and outputs.
Streams(f, instr, answer) ==
    \/ /\ instr.op = "SPX_SET_PTR"
       /\ answer = Answer(instr.rd, ZeroWord)
       /\ ptr' = instr.addr
       /\ Becomes(f)
    \/ /\ instr.op \in {"SPX_WR_NEXT", "SPX_RD_NEXT"}
       /\ ptr \in DataAddr \cup OutAddr
       /\ ptr' = ptr + 1
       /\ IF instr.op = "SPX_RD_NEXT"
          THEN answer = Answer(instr.rd, Shown(ptr)) /\ Becomes(f)
          ELSE /\ ~Busy /\ answer = Answer(instr.rd, ZeroWord)
               /\ Write(f, ptr, NumberIn(instr.rs1))
    \/ /\ instr.op = "SPX_START_THASHX4"
       /\ ~Busy /\ answer = StartDue(instr.rd)
       /\ Write(f, ConfigAddr, NumberIn(instr.rs1))
       /\ UNCHANGED ptr

Refused(f, instr, answer) ==
    /\ \/ instr.op = "SPX_OTHER"
       \/ instr.op \in {"SPX_WR_NEXT", "SPX_RD_NEXT"} /\ ptr \notin DataAddr \cup OutAddr
    /\ answer = Illegal(instr.rd)
    /\ Becomes(f)
    /\ UNCHANGED ptr

\* A new instruction is answered in the next cycle or in the one after.
Instruction(f) ==
    /\ open = Nothing
    /\ Nothing \in {resp', open'}
    /\ \E instr \in Instructions :
          LET answer == IF resp' = Nothing THEN open' ELSE resp'
          IN  \/ Takes(f, instr, answer)
              \/ Streams(f, instr, answer)
              \/ Refused(f, instr, answer)

\* The second half of SPX_START_THASHX4 finds the configuration just written.
StartNow(f) ==
    /\ open.kind = "start"
    /\ Start(f)
    /\ resp' = Answer(open.rd, ZeroWord)
    /\ open' = Nothing
    /\ UNCHANGED ptr

AnswerDue(f) ==
    /\ open.kind = "answer"
    /\ Becomes(f)
    /\ resp' = open
    /\ open' = Nothing
    /\ UNCHANGED ptr

NoneOffered(f) ==
    /\ open = Nothing
    /\ open' = Nothing
    /\ resp' = Nothing
    /\ Becomes(f)
    /\ UNCHANGED ptr

Cycle(f) == Instruction(f) \/ StartNow(f) \/ AnswerDue(f) \/ NoneOffered(f)

\* A cycle in which a job ends, and one in which none does.
Ending == Busy /\ Cycle(WithDigests(file))

ResetFile ==
    /\ file' = [a \in Addr |-> CASE a = ConfigAddr -> [inblocks |-> 1]
                                 [] a = StatusAddr -> Status(FALSE, FALSE, FALSE, 0)
                                 [] OTHER          -> ZeroWord]
    /\ ptr' = 0
    /\ open' = Nothing
    /\ resp' = Nothing

FileNext == Cycle(file) \/ Ending \/ ResetFile

\* A job ends, and an instruction that was taken is answered.
EveryJobEnds == Busy ~> ~Busy
EveryInstructionAnswered == open # Nothing ~> open = Nothing

FileSpec ==
    /\ FileInit /\ [][FileNext]_fileVars
    /\ EveryJobEnds
    /\ EveryInstructionAnswered
============================================================================
