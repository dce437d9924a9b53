---------------------------- MODULE OffloadProof ----------------------------
(***************************************************************************)
(* The control path as a whole, for any sequence of descriptors, any error *)
(* codes, any number of killed instructions and any engine that behaves as *)
(* DescEngine: START always answers busy, and what the program read last   *)
(* is how the job of its own descriptor ended.                             *)
(***************************************************************************)
EXTENDS Offload, SequenceTheorems, TLAPS

\* What an instruction of the program is decoded to.
OpAt == [clear |-> "CLEAR", set |-> "SET_DESC", start |-> "START", poll |-> "STATUS",
         finish |-> "CLEAR"]

CoreStates == [stage : {"idle", "issued", "committed"}, id : {1, 2}, wrong : BOOLEAN]
JobRecords == [addr : Nat, verdict : SUBSET Verdicts]

TypeInv ==
    /\ pc \in DOMAIN ProgramInstr \cup {"halt"}
    /\ turn \in 1 .. Len(Descriptors)
    /\ core \in CoreStates
    /\ desc_busy \in BOOLEAN /\ desc_done \in BOOLEAN /\ desc_done_seen_q \in BOOLEAN
    /\ desc_verdict \in Verdicts
    /\ jobs \in Seq(JobRecords)

----------------------------------------------------------------------------
(***************************************************************************)
(* The engine and the completion of its job: at work, ended with done not  *)
(* yet seen by the adapter, or kept in the sticky flags.  The set is what  *)
(* the history has of the verdict.                                         *)
(***************************************************************************)
Working(verdict) == verdict = {} /\ desc_busy /\ ~desc_done /\ sticky_q = NoCompletion
Ended(verdict)   == /\ verdict = {desc_verdict} /\ ~desc_busy
                    /\ desc_done_edge /\ sticky_q = NoCompletion
Kept(verdict)    == /\ verdict = {desc_verdict} /\ ~desc_busy
                    /\ ~desc_done_edge /\ sticky_q = Completion(desc_verdict)

Started(verdict) == Working(verdict) \/ Ended(verdict) \/ Kept(verdict)

\* What a status shows of a job that is over.
Tells(status) == /\ ~desc_busy /\ jobs[turn].verdict = {desc_verdict}
                 /\ ~status.busy
                 /\ status.error = desc_verdict.error /\ status.code = desc_verdict.code

\* The job of this turn: not begun, begun by a START that was committed, or
\* read to its end.
Executed == core.stage = "committed"
Ahead == pc \in {"clear", "set"} \/ (pc = "start" /\ ~Executed)
Under == pc = "poll" \/ (pc = "start" /\ Executed)
Over  == pc \in {"finish", "halt"}

JobInv ==
    /\ Ahead => ~desc_busy /\ Job = turn - 1
    /\ Under => Job = turn /\ Started(jobs[turn].verdict)
    /\ Over  => Job = turn /\ Tells(report)

AddrInv ==
    /\ (pc = "set" /\ Executed) \/ (pc = "start" /\ ~Executed) => desc_addr_q = Descriptors[turn]
    /\ \A k \in 1 .. Job : jobs[k].addr = Descriptors[k]

----------------------------------------------------------------------------
(***************************************************************************)
(* The program's instruction on its way through the CV-X-IF adapter.       *)
(***************************************************************************)
AnswerOk(status) ==
    /\ pc = "start" => status.busy
    /\ pc = "poll" /\ status.done => Tells(status)

NoneUnderWay == xif_state_q = "IDLE" /\ core.stage = "idle" /\ ~result_valid_q
Issued == /\ xif_state_q = "WAIT_COMMIT" /\ core.stage = "issued" /\ ~result_valid_q
          /\ pc # "halt" /\ pending_q.id = core.id
          /\ ~core.wrong => /\ pending_q.op = OpAt[pc]
                            /\ pc = "set" => pending_q.rs1 = Descriptors[turn]
Answering == /\ xif_state_q = "WAIT_DESC_RESP" /\ Executed /\ ~result_valid_q
             /\ pc # "halt" /\ instr_resp_q.valid /\ AnswerOk(instr_resp_q.data)
Answered == /\ xif_state_q = "RESULT" /\ Executed /\ result_valid_q
            /\ pc # "halt" /\ AnswerOk(result_q.data)

InstrInv == NoneUnderWay \/ Issued \/ Answering \/ Answered

Inv == TypeInv /\ JobInv /\ AddrInv /\ InstrInv

----------------------------------------------------------------------------
LEMMA InitInv == Init => Inv
<1> SUFFICES ASSUME Init PROVE Inv
    OBVIOUS
<1>1. 1 \in 1 .. Len(Descriptors)
    BY OffloadAssumption
<1>2. jobs = <<>> /\ jobs \in Seq(JobRecords) /\ Job = 0
    BY DEF Init, Job
<1>3. TypeInv
    BY <1>1, <1>2 DEF Init, DescInit, ControlInit, TypeInv, CoreStates, ProgramInstr, Verdicts
<1>4. JobInv /\ AddrInv /\ InstrInv
    BY <1>2 DEF Init, DescInit, XifInit, JobInv, AddrInv, InstrInv, NoneUnderWay, Ahead, Under,
                Over, Executed
<1>5. QED
    BY <1>3, <1>4 DEF Inv

----------------------------------------------------------------------------
(***************************************************************************)
(* One clock edge of the engine, by what is executed in it.                *)
(***************************************************************************)
Valid(commit) == InstrValid(commit)
StartsAt(commit) == StartIssue(Valid(commit), pending_q.op)
ClearsAt(commit) == ClearIssue(Valid(commit), pending_q.op)

LEMMA EngineTypes ==
    ASSUME TypeInv, NEW issue, NEW commit, NEW take, Hardware(issue, commit, take)
    PROVE  /\ desc_busy' \in BOOLEAN /\ desc_done' \in BOOLEAN /\ desc_done_seen_q' \in BOOLEAN
           /\ desc_verdict' \in Verdicts
<1>1. DescTick(StartsAt(commit)) /\ desc_done_seen_q' = desc_done
    BY DEF Hardware, StartsAt, Valid, ControlTick, SeenNext
<1>2. QED
    BY <1>1 DEF TypeInv, DescTick, DescBegin, DescWork, DescFinish, DescRest, descVars

\* The verdict of the last job is noted; the addresses stay.
Noted(verdict) == [jobs EXCEPT ![Job].verdict = verdict]

LEMMA NoteVerdict ==
    ASSUME jobs \in Seq(JobRecords), NEW verdict \in SUBSET Verdicts, Job > 0
    PROVE  /\ Noted(verdict) \in Seq(JobRecords) /\ Len(Noted(verdict)) = Job
           /\ \A k \in 1 .. Job : Noted(verdict)[k].addr = jobs[k].addr
           /\ Noted(verdict)[Job].verdict = verdict
<1>1. Job \in Nat /\ Job \in 1 .. Job /\ DOMAIN jobs = 1 .. Job /\ \A k \in 1 .. Job : jobs[k] \in JobRecords
    BY DEF Job
<1>2. [jobs[Job] EXCEPT !.verdict = verdict] \in JobRecords
    BY <1>1 DEF JobRecords
<1>3. Noted(verdict) = [jobs EXCEPT ![Job] = [jobs[Job] EXCEPT !.verdict = verdict]]
    BY DEF Noted
<1>4. Noted(verdict) \in Seq(JobRecords) /\ Len(Noted(verdict)) = Len(jobs)
    BY <1>1, <1>2, <1>3, ExceptSeq DEF Job
<1>5. QED
    BY <1>1, <1>2, <1>3, <1>4 DEF Job, JobRecords

\* The engine is idle and stays so.
LEMMA IdleEdge ==
    ASSUME TypeInv, NEW issue, NEW commit, NEW take, Hardware(issue, commit, take),
           ~desc_busy, ~StartsAt(commit)
    PROVE  UNCHANGED <<descVars, jobs>>
<1>1. DescTick(StartsAt(commit))
    BY DEF Hardware, StartsAt, Valid
<1>2. DescRest(StartsAt(commit))
    BY <1>1 DEF DescTick, DescBegin, DescWork, DescFinish
<1>3. QED
    BY <1>2 DEF DescRest, Hardware, StartsAt, Valid

\* A job is under way or over, and no START or CLEAR is executed.
LEMMA JobEdge ==
    ASSUME TypeInv, NEW issue, NEW commit, NEW take, Hardware(issue, commit, take),
           ~StartsAt(commit), ~ClearsAt(commit), NEW t \in Nat \ {0}, Job = t,
           Started(jobs[t].verdict)
    PROVE  /\ jobs' \in Seq(JobRecords) /\ Job' = t
           /\ \A k \in 1 .. t : jobs'[k].addr = jobs[k].addr
           /\ Started(jobs[t].verdict)'
<1>1. /\ DescTick(StartsAt(commit)) /\ desc_done_seen_q' = desc_done
      /\ sticky_q' = IF desc_done_edge THEN Completion(desc_verdict) ELSE sticky_q
      /\ jobs' = IF desc_busy /\ ~desc_busy'
                 THEN [jobs EXCEPT ![Job].verdict = {desc_verdict'}] ELSE jobs
    BY DEF Hardware, StartsAt, ClearsAt, Valid, ControlTick, SeenNext, StickyNext
<1>2. CASE DescWork
    <2>1. Working(jobs[t].verdict)
        BY <1>2 DEF DescWork, Started, Ended, Kept
    <2>2. UNCHANGED <<desc_busy, desc_done, jobs>> /\ sticky_q' = sticky_q
        BY <1>1, <1>2, <2>1 DEF DescWork, Working, desc_done_edge
    <2>3. QED
        BY <2>1, <2>2 DEF Started, Working, Job, TypeInv
<1>3. CASE DescFinish
    <2>1. Working(jobs[t].verdict)
        BY <1>3 DEF DescFinish, Started, Ended, Kept
    <2>2. jobs' = Noted({desc_verdict'}) /\ {desc_verdict'} \in SUBSET Verdicts
        BY <1>1, <1>3 DEF DescFinish, Noted
    <2>3. /\ jobs' \in Seq(JobRecords) /\ Len(jobs') = t
          /\ \A k \in 1 .. t : jobs'[k].addr = jobs[k].addr
          /\ jobs'[t].verdict = {desc_verdict'}
        <3>1. jobs \in Seq(JobRecords) /\ Job > 0
            BY DEF TypeInv
        <3>2. /\ jobs' \in Seq(JobRecords) /\ Len(jobs') = Job
              /\ \A k \in 1 .. Job : jobs'[k].addr = jobs[k].addr
              /\ jobs'[Job].verdict = {desc_verdict'}
            BY <2>2, <3>1, NoteVerdict, Zenon
        <3>3. QED
            BY <3>2
    <2>4. sticky_q' = NoCompletion /\ ~desc_busy' /\ desc_done' /\ ~desc_done_seen_q'
        BY <1>1, <1>3, <2>1 DEF DescFinish, Working, desc_done_edge
    <2>5. QED
        BY <2>3, <2>4 DEF Started, Ended, desc_done_edge, Job
<1>4. CASE DescRest(StartsAt(commit))
    <2>1. UNCHANGED <<desc_busy, desc_done, desc_verdict, jobs>> /\ ~desc_busy
        BY <1>1, <1>4 DEF DescRest, descVars
    <2>2. ~desc_done_edge'
        BY <1>1, <2>1 DEF desc_done_edge
    <2>3. Kept(jobs[t].verdict)'
        BY <1>1, <2>1, <2>2 DEF Started, Working, Ended, Kept
    <2>4. QED
        BY <2>1, <2>3 DEF Started, Job, TypeInv
<1>5. QED
    BY <1>1, <1>2, <1>3, <1>4 DEF DescTick, DescBegin

\* A START is executed: the job is the engine's, on the address held.
LEMMA StartEdge ==
    ASSUME TypeInv, NEW issue, NEW commit, NEW take, Hardware(issue, commit, take),
           StartsAt(commit), desc_addr_q \in Nat
    PROVE  /\ jobs' = Append(jobs, [addr |-> desc_addr_q, verdict |-> {}])
           /\ jobs' \in Seq(JobRecords) /\ Job' = Job + 1
           /\ Working(jobs[Job].verdict)'
<1>1. DescTick(StartsAt(commit)) /\ ~desc_busy
    BY DEF Hardware, StartsAt, Valid, StartIssue
<1>2. desc_busy' /\ ~desc_done' /\ sticky_q' = NoCompletion
    BY <1>1 DEF DescTick, DescBegin, DescWork, DescFinish, DescRest, Hardware, StartsAt, Valid,
                ControlTick, StickyNext
<1>3. jobs' = Append(jobs, [addr |-> desc_addr_q, verdict |-> {}])
    BY DEF Hardware, StartsAt, Valid
<1>4. [addr |-> desc_addr_q, verdict |-> {}] \in JobRecords
    BY DEF JobRecords
<1>5. jobs' \in Seq(JobRecords) /\ Job' = Job + 1 /\ jobs'[Job'] = [addr |-> desc_addr_q, verdict |-> {}]
    BY <1>3, <1>4 DEF Job, TypeInv
<1>6. jobs'[Job'].verdict = {}
    BY <1>5
<1>7. QED
    BY <1>2, <1>3, <1>5, <1>6 DEF Working

----------------------------------------------------------------------------
(***************************************************************************)
(* A clock edge in which the unit is given no instruction.                 *)
(***************************************************************************)
Quiet(issue, commit, take) == Hardware(issue, commit, take) /\ ~Valid(commit)

\* The job goes on by itself, and the engine rests before and after it.
LEMMA QuietJob ==
    ASSUME Inv, NEW issue, NEW commit, NEW take, Quiet(issue, commit, take), NEW t, t = turn
    PROVE  /\ jobs' \in Seq(JobRecords) /\ Job' = Job
           /\ \A k \in 1 .. Job : jobs'[k].addr = jobs[k].addr
           /\ ~desc_busy => UNCHANGED <<descVars, jobs>>
           /\ Under => Started(jobs[t].verdict)'
           /\ desc_addr_q' = desc_addr_q
<1>1. ~StartsAt(commit) /\ ~ClearsAt(commit) /\ Hardware(issue, commit, take)
    BY DEF Quiet, StartsAt, ClearsAt, StartIssue, ClearIssue
<1>2. desc_addr_q' = desc_addr_q
    BY DEF Quiet, Valid, Hardware, ControlTick
<1>3. TypeInv /\ t \in Nat \ {0} /\ jobs \in Seq(JobRecords)
    BY OffloadAssumption DEF Inv, TypeInv
<1>4. ~desc_busy => UNCHANGED <<descVars, jobs>>
    BY <1>1, <1>3, IdleEdge
<1>5. CASE Under
    <2>1. Job = t /\ Started(jobs[t].verdict)
        BY <1>5 DEF Inv, JobInv
    <2>2. /\ jobs' \in Seq(JobRecords) /\ Job' = t
          /\ \A k \in 1 .. t : jobs'[k].addr = jobs[k].addr
          /\ Started(jobs[t].verdict)'
        BY <1>1, <1>3, <2>1, JobEdge
    <2>3. QED
        BY <1>2, <1>4, <2>1, <2>2
<1>6. CASE ~Under
    <2>1. Ahead \/ Over
        BY <1>6 DEF Inv, TypeInv, ProgramInstr, Ahead, Over, Under
    <2>2. ~desc_busy
        BY <2>1 DEF Inv, JobInv, Tells
    <2>3. UNCHANGED jobs
        BY <1>4, <2>2
    <2>4. QED
        BY <1>2, <1>3, <1>4, <1>6, <2>3 DEF Job
<1>7. QED
    BY <1>5, <1>6

\* Nor does the program.
LEMMA QuietStep ==
    ASSUME Inv, NEW issue, NEW commit, NEW take, Quiet(issue, commit, take),
           UNCHANGED <<pc, turn, report>>, Executed' <=> Executed,
           core' \in CoreStates
    PROVE  TypeInv' /\ JobInv' /\ AddrInv'
<1>0. PICK t : t = turn
    OBVIOUS
<1>1. /\ jobs' \in Seq(JobRecords) /\ Job' = Job
      /\ \A k \in 1 .. Job : jobs'[k].addr = jobs[k].addr
      /\ ~desc_busy => UNCHANGED <<descVars, jobs>>
      /\ Under => Started(jobs[t].verdict)'
      /\ desc_addr_q' = desc_addr_q
    BY <1>0, QuietJob
<1>2. TypeInv'
    <2>1. /\ desc_busy' \in BOOLEAN /\ desc_done' \in BOOLEAN /\ desc_done_seen_q' \in BOOLEAN
          /\ desc_verdict' \in Verdicts
        BY EngineTypes DEF Quiet, Inv
    <2>2. QED
        BY <1>1, <2>1 DEF Inv, TypeInv
<1>3. (Ahead' <=> Ahead) /\ (Under' <=> Under) /\ (Over' <=> Over)
    BY DEF Ahead, Under, Over, Executed
<1>4. JobInv'
    <2>1. Ahead => (~desc_busy /\ Job = turn - 1)'
        BY <1>1 DEF Inv, JobInv, descVars
    <2>2. Under => Job' = turn' /\ Started(jobs[turn].verdict)'
        BY <1>0, <1>1 DEF Inv, JobInv, Started, Working, Ended, Kept
    <2>3. Over => (Job = turn /\ Tells(report))'
        <3>1. SUFFICES ASSUME Over PROVE (Job = turn /\ Tells(report))'
            OBVIOUS
        <3>2. ~desc_busy /\ Job = turn /\ Tells(report)
            BY <3>1 DEF Inv, JobInv, Tells
        <3>3. UNCHANGED <<desc_busy, desc_verdict, jobs, turn, report>>
            BY <1>1, <3>2 DEF descVars
        <3>4. QED
            BY <1>1, <3>2, <3>3 DEF Tells
    <2>4. QED
        BY <1>3, <2>1, <2>2, <2>3 DEF JobInv
<1>5. AddrInv'
    BY <1>1 DEF Inv, AddrInv, Executed
<1>6. QED
    BY <1>2, <1>4, <1>5

\* What an answer says stays true while it waits to be taken.
LEMMA QuietAnswer ==
    ASSUME Inv, NEW issue, NEW commit, NEW take, Quiet(issue, commit, take),
           UNCHANGED <<pc, turn>>, NEW status, AnswerOk(status)
    PROVE  AnswerOk(status)'
<1>1. ~desc_busy => UNCHANGED <<descVars, jobs>>
    BY QuietJob
<1>2. pc = "poll" /\ status.done => Tells(status)'
    BY <1>1 DEF AnswerOk, Tells, descVars
<1>3. QED
    BY <1>2 DEF AnswerOk

\* Without a commit, and when the instruction is killed, nothing is forwarded.
LEMMA NothingForwarded ==
    ASSUME Inv, NEW commit, commit = NoCommit \/ commit = CommitOf(TRUE)
    PROVE  ~Valid(commit)
<1>1. xif_state_q # "ISSUE_DESC"
    BY DEF Inv, InstrInv, NoneUnderWay, Issued, Answering, Answered
<1>2. QED
    BY <1>1 DEF Valid, InstrValid, CommitTake, CommitMatch, NoCommit, CommitOf

\* The answer that waits next is the one there is now.
LEMMA AnswerStays ==
    ASSUME Inv, NEW issue, NEW commit, NEW take, Quiet(issue, commit, take),
           UNCHANGED <<pc, turn>>, NEW status, AnswerOk(status), result_q'.data = status
    PROVE  AnswerOk(result_q.data)'
<1>1. AnswerOk(status)'
    BY QuietAnswer
<1>2. QED
    BY <1>1 DEF AnswerOk, Tells

----------------------------------------------------------------------------
(***************************************************************************)
(* The actions that forward nothing.                                       *)
(***************************************************************************)
LEMMA WaitStep == Inv /\ Wait => Inv'
<1> SUFFICES ASSUME Inv, Wait PROVE Inv'
    OBVIOUS
<1>1. Quiet(NoIssue, NoCommit, FALSE)
    BY NothingForwarded DEF Wait, Quiet
<1>2. UNCHANGED <<pc, turn, report, core>>
    BY DEF Wait
<1>3. TypeInv' /\ JobInv' /\ AddrInv'
    <2>1. (Executed' <=> Executed) /\ core' \in CoreStates
        BY <1>2 DEF Executed, Inv, TypeInv
    <2>2. QED
        BY <1>1, <1>2, <2>1, QuietStep
<1>4. XifTick(NoIssue, NoCommit, TRUE, instr_resp_q, FALSE)
    BY DEF Wait, Hardware
<1>5. InstrInv'
    <2>1. CASE NoneUnderWay
        BY <1>2, <1>4, <2>1 DEF NoneUnderWay, InstrInv, XifTick, Idle, WaitCommit, IssueDesc,
              WaitDescResp, HoldResult, IssueAccept, NoIssue
    <2>2. CASE Issued
        BY <1>2, <1>4, <2>2 DEF Issued, InstrInv, XifTick, Idle, WaitCommit, IssueDesc,
              WaitDescResp, HoldResult, CommitMatch, NoCommit
    <2>3. CASE Answering
        <3>1. /\ xif_state_q' = "RESULT" /\ result_valid_q' /\ result_q' = Result(instr_resp_q)
            BY <1>4, <2>3 DEF Answering, XifTick, Idle, WaitCommit, IssueDesc, WaitDescResp,
                  HoldResult
        <3>2. result_q'.data = instr_resp_q.data /\ AnswerOk(instr_resp_q.data)
            BY <2>3, <3>1 DEF Result, Answering
        <3>3. AnswerOk(result_q.data)'
            BY <1>1, <1>2, <3>2, AnswerStays
        <3>4. QED
            BY <1>2, <2>3, <3>1, <3>3 DEF Answering, Answered, InstrInv, Executed
    <2>4. CASE Answered
        <3>1. /\ xif_state_q' = "RESULT" /\ result_valid_q' /\ result_q' = result_q
            BY <1>4, <2>4 DEF Answered, XifTick, Idle, WaitCommit, IssueDesc, WaitDescResp,
                  HoldResult, ResultFire
        <3>2. result_q'.data = result_q.data /\ AnswerOk(result_q.data)
            BY <2>4, <3>1 DEF Answered
        <3>3. AnswerOk(result_q.data)'
            BY <1>1, <1>2, <3>2, AnswerStays
        <3>4. QED
            BY <1>2, <2>4, <3>1, <3>3 DEF Answered, InstrInv, Executed
    <2>5. QED
        BY <2>1, <2>2, <2>3, <2>4 DEF Inv, InstrInv
<1>6. QED
    BY <1>3, <1>5 DEF Inv

\* The decoder on what the program issues.
LEMMA ProgramDecodes ==
    ASSUME NEW p \in DOMAIN ProgramInstr
    PROVE  /\ DecodedOp(ProgramInstr[p]) = OpAt[p]
           /\ Supported(ProgramInstr[p])
BY DEF ProgramInstr, Instr, DecodedOp, Supported, Funct3Op, OpAt

LEMMA IssueStep ==
    ASSUME Inv, NEW p \in DOMAIN ProgramInstr, NEW wrong \in BOOLEAN,
           Issue(ProgramInstr[p], wrong), ~wrong => p = pc
    PROVE  Inv'
<1> DEFINE issue == IssueOf(ProgramInstr[p], IF wrong THEN 0 ELSE Descriptors[turn])
<1>1. Quiet(issue, NoCommit, FALSE) /\ Hardware(issue, NoCommit, FALSE)
    BY NothingForwarded DEF Issue, Quiet
<1>2. /\ UNCHANGED <<pc, turn, report>> /\ pc # "halt" /\ core.stage = "idle"
      /\ core' = IF IssueAccept(issue)
                 THEN [core EXCEPT !.stage = "issued", !.wrong = wrong] ELSE core
    BY DEF Issue, Running, ProgramInstr
<1>3. NoneUnderWay
    BY <1>2 DEF Inv, InstrInv, Issued, Answering, Answered, Executed
<1>4. IssueAccept(issue)
    BY <1>3, ProgramDecodes DEF NoneUnderWay, IssueAccept, OperandsOk, IssueOf
<1>5. core' = [core EXCEPT !.stage = "issued", !.wrong = wrong]
    BY <1>2, <1>4
<1>6. /\ core'.stage = "issued" /\ core'.wrong = wrong /\ core'.id = core.id
      /\ core' \in CoreStates
    BY <1>5 DEF Inv, TypeInv, CoreStates
<1>7. TypeInv' /\ JobInv' /\ AddrInv'
    <2>1. Executed' <=> Executed
        BY <1>2, <1>6 DEF Executed
    <2>2. QED
        BY <1>1, <1>2, <1>6, <2>1, QuietStep
<1>8. /\ xif_state_q' = "WAIT_COMMIT" /\ pending_q' = Pending(issue) /\ ~result_valid_q'
    BY <1>1, <1>3, <1>4 DEF Hardware, XifTick, Idle, WaitCommit, IssueDesc, WaitDescResp,
          HoldResult, NoneUnderWay
<1>9. /\ pending_q'.id = core.id /\ pending_q'.op = OpAt[p]
      /\ OpAt[p] = "SET_DESC" => pending_q'.rs1 = IF wrong THEN 0 ELSE Descriptors[turn]
    BY <1>8, ProgramDecodes DEF Pending, IssueOf
<1>10. Issued'
    BY <1>2, <1>6, <1>8, <1>9 DEF Issued, OpAt
<1>11. QED
    BY <1>7, <1>10 DEF Inv, InstrInv

LEMMA KillStep == Inv /\ Kill => Inv'
<1> SUFFICES ASSUME Inv, Kill PROVE Inv'
    OBVIOUS
<1>1. Quiet(NoIssue, CommitOf(TRUE), FALSE) /\ Hardware(NoIssue, CommitOf(TRUE), FALSE)
    BY NothingForwarded DEF Kill, Quiet
<1>2. /\ UNCHANGED <<pc, turn, report>> /\ core.stage = "issued" /\ core'.stage = "idle"
      /\ core' \in CoreStates
    BY DEF Kill, Inv, TypeInv, CoreStates
<1>3. TypeInv' /\ JobInv' /\ AddrInv'
    <2>1. Executed' <=> Executed
        BY <1>2 DEF Executed
    <2>2. QED
        BY <1>1, <1>2, <2>1, QuietStep
<1>4. Issued
    BY <1>2 DEF Inv, InstrInv, NoneUnderWay, Answering, Answered, Executed
<1>5. CommitMatch(CommitOf(TRUE)) /\ CommitOf(TRUE).kill
    BY <1>4 DEF Issued, CommitMatch, CommitOf
<1>6. xif_state_q' = "IDLE" /\ ~result_valid_q'
    BY <1>1, <1>4, <1>5 DEF Hardware, XifTick, Idle, WaitCommit, IssueDesc, WaitDescResp,
          HoldResult, Issued
<1>7. QED
    BY <1>2, <1>3, <1>6 DEF Inv, InstrInv, NoneUnderWay

----------------------------------------------------------------------------
(***************************************************************************)
(* TakeResult: the program goes on with what it is answered.               *)
(***************************************************************************)
LEMMA TakeFacts ==
    ASSUME Inv, TakeResult
    PROVE  /\ Quiet(NoIssue, NoCommit, TRUE)
           /\ Answered /\ pc \in DOMAIN ProgramInstr /\ Executed
           /\ core' \in CoreStates /\ ~Executed' /\ NoneUnderWay'
<1>1. Quiet(NoIssue, NoCommit, TRUE) /\ Hardware(NoIssue, NoCommit, TRUE)
    BY NothingForwarded DEF TakeResult, Quiet
<1>2. Answered /\ Executed
    BY DEF TakeResult, Inv, InstrInv, NoneUnderWay, Issued, Answering, Executed
<1>3. pc \in DOMAIN ProgramInstr
    BY <1>2 DEF Inv, TypeInv, Answered
<1>4. core' \in CoreStates /\ core'.stage = "idle"
    BY DEF TakeResult, Inv, TypeInv, CoreStates
<1>5. xif_state_q' = "IDLE" /\ ~result_valid_q'
    BY <1>1, <1>2 DEF Hardware, XifTick, Idle, WaitCommit, IssueDesc, WaitDescResp,
          HoldResult, ResultFire, Answered
<1>6. QED
    BY <1>1, <1>2, <1>3, <1>4, <1>5 DEF Executed, NoneUnderWay

LEMMA TakeStep == Inv /\ TakeResult => Inv'
<1> SUFFICES ASSUME Inv, TakeResult PROVE Inv'
    OBVIOUS
<1>0. PICK t : t = turn
    OBVIOUS
<1>1. /\ Quiet(NoIssue, NoCommit, TRUE)
      /\ Answered /\ pc \in DOMAIN ProgramInstr /\ Executed
      /\ core' \in CoreStates /\ ~Executed' /\ NoneUnderWay'
    BY TakeFacts
<1>2. /\ jobs' \in Seq(JobRecords) /\ Job' = Job
      /\ \A k \in 1 .. Job : jobs'[k].addr = jobs[k].addr
      /\ ~desc_busy => UNCHANGED <<descVars, jobs>>
      /\ Under => Started(jobs[t].verdict)'
      /\ desc_addr_q' = desc_addr_q
    BY <1>0, <1>1, QuietJob
<1>3. /\ pc' = PcNext(result_q.data)
      /\ turn' = IF pc' = "clear" THEN turn + 1 ELSE turn
      /\ report' = IF pc = "poll" THEN result_q.data ELSE report
    BY DEF TakeResult
<1>4. AnswerOk(result_q.data)
    BY <1>1 DEF Answered
<1>5. turn \in 1 .. Len(Descriptors) /\ Len(Descriptors) \in Nat
    BY OffloadAssumption DEF Inv, TypeInv
<1>6. ASSUME pc' \in DOMAIN ProgramInstr \cup {"halt"}, turn' \in 1 .. Len(Descriptors), JobInv',
             pc' = "start" => desc_addr_q = Descriptors[turn']
      PROVE  Inv'
    <2>1. TypeInv'
        <3>1. /\ desc_busy' \in BOOLEAN /\ desc_done' \in BOOLEAN
              /\ desc_done_seen_q' \in BOOLEAN /\ desc_verdict' \in Verdicts
            BY <1>1, EngineTypes DEF Quiet, Inv
        <3>2. QED
            BY <1>1, <1>2, <1>6, <3>1 DEF TypeInv
    <2>2. AddrInv'
        BY <1>1, <1>2, <1>6 DEF Inv, AddrInv, Executed
    <2>3. QED
        BY <1>1, <1>6, <2>1, <2>2 DEF Inv, InstrInv
<1>7. CASE pc = "clear"
    <2>1. pc' = "set" /\ turn' = turn /\ ~desc_busy /\ Job = turn - 1
        BY <1>3, <1>7 DEF PcNext, Inv, JobInv, Ahead
    <2>2. JobInv'
        BY <1>2, <2>1 DEF JobInv, Ahead, Under, Over, descVars
    <2>3. QED
        BY <1>5, <1>6, <2>1, <2>2 DEF ProgramInstr
<1>8. CASE pc = "set"
    <2>1. pc' = "start" /\ turn' = turn /\ ~desc_busy /\ Job = turn - 1
        BY <1>3, <1>8 DEF PcNext, Inv, JobInv, Ahead
    <2>2. JobInv'
        BY <1>1, <1>2, <2>1 DEF JobInv, Ahead, Under, Over, descVars
    <2>3. desc_addr_q = Descriptors[turn]
        BY <1>1, <1>8 DEF Inv, AddrInv
    <2>4. QED
        BY <1>5, <1>6, <2>1, <2>2, <2>3 DEF ProgramInstr
<1>9. CASE pc = "start"
    <2>1. pc' = "poll" /\ turn' = turn /\ Under /\ Job = turn
        BY <1>1, <1>3, <1>4, <1>9 DEF PcNext, AnswerOk, Inv, JobInv, Under
    <2>2. JobInv'
        <3>1. Started(jobs[turn].verdict)'
            BY <1>0, <1>2, <2>1 DEF Started, Working, Ended, Kept
        <3>2. QED
            BY <1>2, <2>1, <3>1 DEF JobInv, Ahead, Under, Over
    <2>3. QED
        BY <1>5, <1>6, <2>1, <2>2 DEF ProgramInstr
<1>10. CASE pc = "poll" /\ ~result_q.data.done
    <2>1. pc' = "poll" /\ turn' = turn /\ Under /\ Job = turn
        BY <1>1, <1>3, <1>10 DEF PcNext, Inv, JobInv, Under
    <2>2. JobInv'
        <3>1. Started(jobs[turn].verdict)'
            BY <1>0, <1>2, <2>1 DEF Started, Working, Ended, Kept
        <3>2. QED
            BY <1>2, <2>1, <3>1 DEF JobInv, Ahead, Under, Over
    <2>3. QED
        BY <1>5, <1>6, <2>1, <2>2 DEF ProgramInstr
<1>11. CASE pc = "poll" /\ result_q.data.done
    <2>1. pc' = "finish" /\ turn' = turn /\ Job = turn /\ report' = result_q.data
        BY <1>1, <1>3, <1>11 DEF PcNext, Inv, JobInv, Under
    <2>2. Tells(result_q.data)
        BY <1>4, <1>11 DEF AnswerOk
    <2>3. Tells(report)'
        <3>1. UNCHANGED <<desc_busy, desc_verdict, jobs>>
            BY <1>2, <2>2 DEF Tells, descVars
        <3>2. QED
            BY <2>1, <2>2, <3>1 DEF Tells
    <2>4. JobInv'
        BY <1>2, <2>1, <2>3 DEF JobInv, Ahead, Under, Over
    <2>5. QED
        BY <1>5, <1>6, <2>1, <2>4 DEF ProgramInstr
<1>12. CASE pc = "finish"
    <2>1. Job = turn /\ Tells(report) /\ ~desc_busy
        BY <1>12 DEF Inv, JobInv, Over, Tells
    <2>2. UNCHANGED <<desc_busy, desc_verdict, jobs>>
        BY <1>2, <2>1 DEF descVars
    <2>3. CASE turn < Len(Descriptors)
        <3>1. pc' = "clear" /\ turn' = turn + 1
            BY <1>3, <1>12, <2>3 DEF PcNext
        <3>2. JobInv'
            BY <1>2, <1>5, <2>1, <2>2, <3>1 DEF JobInv, Ahead, Under, Over
        <3>3. QED
            BY <1>5, <1>6, <2>3, <3>1, <3>2 DEF ProgramInstr
    <2>4. CASE ~(turn < Len(Descriptors))
        <3>1. pc' = "halt" /\ turn' = turn /\ report' = report
            BY <1>3, <1>12, <2>4 DEF PcNext
        <3>2. Tells(report)'
            BY <2>1, <2>2, <3>1 DEF Tells
        <3>3. JobInv'
            BY <1>2, <2>1, <3>1, <3>2 DEF JobInv, Ahead, Under, Over
        <3>4. QED
            BY <1>5, <1>6, <3>1, <3>3 DEF ProgramInstr
    <2>5. QED
        BY <2>3, <2>4
<1>13. QED
    BY <1>1, <1>7, <1>8, <1>9, <1>10, <1>11, <1>12 DEF ProgramInstr

----------------------------------------------------------------------------
(***************************************************************************)
(* Commit: the instruction is forwarded in the same cycle, and what is     *)
(* kept for it is the status after it.                                     *)
(***************************************************************************)
\* What the instruction is answered, and what it does to the address.
Forwarded(op) ==
    /\ instr_resp_q'.valid /\ instr_resp_q'.data = ResponseStatus(TRUE, op)
    /\ desc_addr_q' = IF op = "SET_DESC" THEN pending_q.rs1 ELSE desc_addr_q

LEMMA CommitFacts ==
    ASSUME Inv, Commit
    PROVE  /\ Hardware(NoIssue, CommitOf(FALSE), FALSE)
           /\ Issued /\ pc \in DOMAIN ProgramInstr /\ ~Executed
           /\ StartsAt(CommitOf(FALSE)) <=> pc = "start" /\ ~desc_busy
           /\ ClearsAt(CommitOf(FALSE)) <=> pc \in {"clear", "finish"}
           /\ Forwarded(OpAt[pc])
           /\ xif_state_q' = "WAIT_DESC_RESP" /\ ~result_valid_q'
           /\ UNCHANGED <<pc, turn, report>> /\ core' \in CoreStates /\ Executed'
<1>1. Hardware(NoIssue, CommitOf(FALSE), FALSE) /\ core.stage = "issued" /\ ~core.wrong
    BY DEF Commit
<1>2. Issued /\ ~Executed
    BY <1>1 DEF Inv, InstrInv, NoneUnderWay, Answering, Answered, Executed
<1>3. pc \in DOMAIN ProgramInstr /\ pending_q.op = OpAt[pc]
    BY <1>1, <1>2 DEF Inv, TypeInv, Issued
<1>4. CommitMatch(CommitOf(FALSE)) /\ ~CommitOf(FALSE).kill
    BY <1>2 DEF Issued, CommitMatch, CommitOf
<1>5. Valid(CommitOf(FALSE))
    BY <1>2, <1>4 DEF Valid, InstrValid, CommitTake, Issued
<1>6. xif_state_q' = "WAIT_DESC_RESP" /\ ~result_valid_q'
    <2>1. XifTick(NoIssue, CommitOf(FALSE), TRUE, instr_resp_q, FALSE)
        BY <1>1 DEF Hardware
    <2>2. AfterCommit(CommitOf(FALSE), TRUE) = "WAIT_DESC_RESP"
        BY <1>5 DEF Valid, AfterCommit, InstrFire
    <2>3. QED
        BY <1>2, <1>4, <2>1, <2>2 DEF XifTick, Idle, WaitCommit, IssueDesc, WaitDescResp,
              HoldResult, Issued
<1>7. OpAt[pc] \in LegalOps
    BY <1>3 DEF ProgramInstr, OpAt, LegalOps
<1>8. Forwarded(OpAt[pc])
    <2>1. ControlTick(TRUE, OpAt[pc], pending_q.rs1)
        <3>1. InstrValid(CommitOf(FALSE)) = TRUE
            BY <1>5 DEF Valid, InstrValid, CommitTake, CommitMatch
        <3>2. QED
            BY <1>1, <1>3, <3>1 DEF Hardware
    <2>2. QED
        BY <1>7, <2>1 DEF ControlTick, Forwarded, Legal
<1>9. /\ StartsAt(CommitOf(FALSE)) <=> pc = "start" /\ ~desc_busy
      /\ ClearsAt(CommitOf(FALSE)) <=> pc \in {"clear", "finish"}
    <2>1. /\ StartsAt(CommitOf(FALSE)) <=> OpAt[pc] = "START" /\ ~desc_busy
          /\ ClearsAt(CommitOf(FALSE)) <=> OpAt[pc] = "CLEAR"
        BY <1>3, <1>5 DEF StartsAt, ClearsAt, StartIssue, ClearIssue
    <2>2. /\ OpAt[pc] = "START" <=> pc = "start"
          /\ OpAt[pc] = "CLEAR" <=> pc \in {"clear", "finish"}
        BY <1>3 DEF ProgramInstr, OpAt
    <2>3. QED
        BY <2>1, <2>2
<1>10. UNCHANGED <<pc, turn, report>> /\ core' \in CoreStates /\ Executed'
    BY DEF Commit, Inv, TypeInv, CoreStates, Executed
<1>11. QED
    BY <1>1, <1>2, <1>3, <1>6, <1>8, <1>9, <1>10

\* Only an error has a code.
LEMMA VerdictForm ==
    ASSUME NEW v \in Verdicts
    PROVE  /\ v.error \in BOOLEAN
           /\ ~v.error => v.code = 0
<1>1. v = GoodVerdict \/ v.error = TRUE
    BY DEF Verdicts, GoodVerdict
<1>2. GoodVerdict.error = FALSE /\ GoodVerdict.code = 0
    BY DEF GoodVerdict
<1>3. CASE v = GoodVerdict
    BY <1>2, <1>3
<1>4. CASE v.error = TRUE
    BY <1>4
<1>5. QED
    BY <1>1, <1>3, <1>4

\* A poll that is answered done is answered how the job ended.
LEMMA PollTells ==
    ASSUME TypeInv, Started(jobs[turn].verdict), StatusOf(desc_busy, LiveCompletion).done
    PROVE  Tells(StatusOf(desc_busy, LiveCompletion))
<1> DEFINE status == StatusOf(desc_busy, LiveCompletion)
<1>1. /\ status.busy = desc_busy /\ status.done = LiveCompletion.done
      /\ status.error = LiveCompletion.error /\ status.code = LiveCompletion.code
    BY DEF StatusOf
<1>2. /\ desc_verdict.error \in BOOLEAN
      /\ ~desc_verdict.error => desc_verdict.code = 0
    BY VerdictForm DEF TypeInv
<1>3. ~Working(jobs[turn].verdict)
    <2>1. sticky_q.done \/ desc_done_edge
        BY <1>1 DEF LiveCompletion
    <2>2. NoCompletion.done = FALSE
        BY DEF NoCompletion
    <2>3. QED
        BY <2>1, <2>2 DEF Working, desc_done_edge
<1>4. /\ ~desc_busy /\ jobs[turn].verdict = {desc_verdict}
    BY <1>3 DEF Started, Ended, Kept
<1>5. LiveCompletion.error = desc_verdict.error /\ LiveCompletion.code = desc_verdict.code
    <2>1. CASE Ended(jobs[turn].verdict)
        BY <1>2, <2>1 DEF Ended, LiveCompletion, NoCompletion
    <2>2. CASE Kept(jobs[turn].verdict)
        BY <1>2, <2>2 DEF Kept, LiveCompletion, Completion
    <2>3. QED
        BY <1>3, <2>1, <2>2 DEF Started
<1>6. QED
    BY <1>1, <1>4, <1>5 DEF Tells

LEMMA CommitStep == Inv /\ Commit => Inv'
<1> SUFFICES ASSUME Inv, Commit PROVE Inv'
    OBVIOUS
<1> DEFINE commit == CommitOf(FALSE)
<1>0. PICK t : t = turn
    OBVIOUS
<1>1. /\ Hardware(NoIssue, commit, FALSE)
      /\ Issued /\ pc \in DOMAIN ProgramInstr /\ ~Executed
      /\ StartsAt(commit) <=> pc = "start" /\ ~desc_busy
      /\ ClearsAt(commit) <=> pc \in {"clear", "finish"}
      /\ Forwarded(OpAt[pc])
      /\ xif_state_q' = "WAIT_DESC_RESP" /\ ~result_valid_q'
      /\ UNCHANGED <<pc, turn, report>> /\ core' \in CoreStates /\ Executed'
    BY CommitFacts
<1>2. TypeInv /\ jobs \in Seq(JobRecords) /\ t \in Nat \ {0}
    BY <1>0, OffloadAssumption DEF Inv, TypeInv
<1>3. ASSUME jobs' \in Seq(JobRecords), JobInv', AnswerOk(instr_resp_q.data)',
             pc = "set" => desc_addr_q' = Descriptors[turn],
             \A k \in 1 .. Job' : jobs'[k].addr = Descriptors[k]
      PROVE  Inv'
    <2>1. TypeInv'
        <3>1. /\ desc_busy' \in BOOLEAN /\ desc_done' \in BOOLEAN
              /\ desc_done_seen_q' \in BOOLEAN /\ desc_verdict' \in Verdicts
            BY <1>1, <1>2, EngineTypes
        <3>2. QED
            BY <1>1, <1>2, <1>3, <3>1 DEF TypeInv
    <2>2. AddrInv'
        BY <1>1, <1>3 DEF AddrInv
    <2>3. Answering'
        BY <1>1, <1>3 DEF Answering, Issued, Forwarded
    <2>4. QED
        BY <1>3, <2>1, <2>2, <2>3 DEF Inv, InstrInv
<1>4. \A k \in 1 .. Job : jobs[k].addr = Descriptors[k]
    BY DEF Inv, AddrInv
<1>5. CASE pc \in {"clear", "set", "finish"}
    <2>1. ~desc_busy
        BY <1>5 DEF Inv, JobInv, Ahead, Over, Tells
    <2>2. UNCHANGED <<descVars, jobs>>
        BY <1>1, <1>2, <1>5, <2>1, IdleEdge
    <2>3. JobInv'
        BY <1>1, <1>5, <2>2 DEF Inv, JobInv, Ahead, Under, Over, Tells, Job, descVars
    <2>4. AnswerOk(instr_resp_q.data)'
        BY <1>1, <1>5 DEF AnswerOk
    <2>5. pc = "set" => desc_addr_q' = Descriptors[turn]
        BY <1>1 DEF Forwarded, OpAt, Issued, Commit
    <2>6. QED
        BY <1>2, <1>3, <1>4, <2>2, <2>3, <2>4, <2>5 DEF Job
<1>6. CASE pc = "start"
    <2>1. ~desc_busy /\ Job = turn - 1 /\ desc_addr_q = Descriptors[turn]
        BY <1>1, <1>6 DEF Inv, JobInv, AddrInv, Ahead
    <2>2. desc_addr_q \in Nat
        BY <1>2, <2>1, OffloadAssumption DEF TypeInv
    <2>3. StartsAt(commit)
        BY <1>1, <1>6, <2>1
    <2>4. /\ jobs' = Append(jobs, [addr |-> desc_addr_q, verdict |-> {}])
          /\ jobs' \in Seq(JobRecords) /\ Job' = Job + 1
          /\ Working(jobs[Job].verdict)'
        BY <1>1, <1>2, <2>2, <2>3, StartEdge
    <2>5. Job' = turn
        BY <1>0, <1>2, <2>1, <2>4
    <2>6. JobInv'
        BY <1>1, <1>6, <2>4, <2>5 DEF JobInv, Ahead, Under, Over, Started, Working
    <2>7. AnswerOk(instr_resp_q.data)'
        <3>1. StartIssue(TRUE, OpAt[pc])
            BY <1>6, <2>1 DEF StartIssue, OpAt
        <3>2. instr_resp_q'.data.busy
            BY <1>1, <3>1 DEF Forwarded, ResponseStatus, StatusOf
        <3>3. QED
            BY <1>1, <1>6, <3>2 DEF AnswerOk
    <2>8. \A k \in 1 .. Job' : jobs'[k].addr = Descriptors[k]
        <3>1. SUFFICES ASSUME NEW k \in 1 .. Job' PROVE jobs'[k].addr = Descriptors[k]
            OBVIOUS
        <3>2. Job \in Nat /\ Len(jobs) = Job
            BY <1>2 DEF Job
        <3>3. CASE k \in 1 .. Job
            <4>1. jobs'[k] = jobs[k]
                BY <1>2, <2>4, <3>2, <3>3
            <4>2. QED
                BY <1>4, <3>3, <4>1
        <3>4. CASE k = Job + 1
            <4>1. jobs'[k] = [addr |-> desc_addr_q, verdict |-> {}]
                BY <1>2, <2>4, <3>2, <3>4
            <4>2. QED
                BY <1>0, <1>2, <2>1, <3>4, <4>1
        <3>5. QED
            BY <2>4, <3>2, <3>3, <3>4
    <2>9. QED
        BY <1>3, <1>6, <2>4, <2>6, <2>7, <2>8
<1>7. CASE pc = "poll"
    <2>1. Job = turn /\ Started(jobs[turn].verdict)
        BY <1>7 DEF Inv, JobInv, Under
    <2>2. /\ jobs' \in Seq(JobRecords) /\ Job' = t
          /\ \A k \in 1 .. t : jobs'[k].addr = jobs[k].addr
          /\ Started(jobs[t].verdict)'
        <3>1. ~StartsAt(commit) /\ ~ClearsAt(commit)
            BY <1>1, <1>7
        <3>2. QED
            BY <1>0, <1>1, <1>2, <2>1, <3>1, JobEdge
    <2>3. JobInv'
        <3>1. Started(jobs[turn].verdict)'
            BY <1>0, <1>1, <2>2 DEF Started, Working, Ended, Kept
        <3>2. QED
            BY <1>0, <1>1, <1>7, <2>2, <3>1 DEF JobInv, Ahead, Under, Over
    <2>4. AnswerOk(instr_resp_q.data)'
        <3>1. instr_resp_q'.data = StatusOf(desc_busy, LiveCompletion)
            BY <1>1, <1>7 DEF Forwarded, ResponseStatus, StartIssue, ClearIssue, OpAt
        <3>2. SUFFICES ASSUME instr_resp_q'.data.done PROVE Tells(instr_resp_q.data)'
            BY <1>1, <1>7 DEF AnswerOk
        <3>3. Tells(StatusOf(desc_busy, LiveCompletion))
            BY <1>2, <2>1, <3>1, <3>2, PollTells
        <3>4. UNCHANGED <<desc_busy, desc_verdict, jobs>>
            <4>1. ~StartsAt(commit) /\ ~desc_busy
                BY <1>1, <1>7, <3>3 DEF Tells
            <4>2. QED
                BY <1>1, <1>2, <4>1, IdleEdge DEF descVars
        <3>5. QED
            BY <1>1, <3>1, <3>3, <3>4 DEF Tells
    <2>5. QED
        BY <1>0, <1>3, <1>4, <1>7, <2>1, <2>2, <2>3, <2>4
<1>8. QED
    BY <1>1, <1>5, <1>6, <1>7 DEF ProgramInstr

----------------------------------------------------------------------------
LEMMA NextInv == Inv /\ [Next]_vars => Inv'
<1> SUFFICES ASSUME Inv, [Next]_vars PROVE Inv'
    OBVIOUS
<1>1. CASE Wait
    BY <1>1, WaitStep
<1>2. CASE IssueNext
    BY <1>2, IssueStep DEF IssueNext, Issue, Running
<1>3. CASE IssueWrongPath
    BY <1>3, IssueStep DEF IssueWrongPath
<1>4. CASE Kill
    BY <1>4, KillStep
<1>5. CASE Commit
    BY <1>5, CommitStep
<1>6. CASE TakeResult
    BY <1>6, TakeStep
<1>7. CASE UNCHANGED vars
    BY <1>7 DEF vars, xifVars, descVars, controlVars, Inv, TypeInv, JobInv, AddrInv, InstrInv,
          Ahead, Under, Over, Executed, Started, Working, Ended, Kept, Tells, Job,
          NoneUnderWay, Issued, Answering, Answered, AnswerOk, desc_done_edge
<1>8. QED
    BY <1>1, <1>2, <1>3, <1>4, <1>5, <1>6, <1>7 DEF Next

LEMMA AlwaysInv == Spec => []Inv
<1>1. Spec => Init /\ [][Next]_vars
    BY PTL DEF Spec
<1>2. QED
    BY <1>1, InitInv, NextInv, PTL

(***************************************************************************)
(* A START the program commits is answered busy, in whatever state the job *)
(* before and the instructions that were killed left the adapters.         *)
(***************************************************************************)
THEOREM StartIsAnswered == Spec => []StartAnswersBusy
<1>1. Inv => StartAnswersBusy
    BY DEF Inv, TypeInv, ProgramInstr, StartAnswersBusy
<1>2. QED
    BY <1>1, AlwaysInv, PTL

(***************************************************************************)
(* The engine gets one job per committed START, on the descriptor of the   *)
(* SET_DESC before it, and the program's last status tells how that job    *)
(* ended, for any descriptors, error codes and number of killed            *)
(* instructions.                                                           *)
(***************************************************************************)
THEOREM ReportIsCorrect == Spec => []ReportIsOfThisJob
<1>1. Inv => ReportIsOfThisJob
    <2>1. SUFFICES ASSUME Inv PROVE ReportIsOfThisJob
        OBVIOUS
    <2>2. turn \in Nat /\ (Ahead \/ Under \/ Over)
        BY <2>1, OffloadAssumption DEF Inv, TypeInv, ProgramInstr, Ahead, Under, Over
    <2>3. Job <= turn
        BY <2>1, <2>2, OffloadAssumption DEF Inv, TypeInv, JobInv
    <2>4. \A k \in 1 .. Job : jobs[k].addr = Descriptors[k]
        BY <2>1 DEF Inv, AddrInv
    <2>5. Over => /\ Job = turn /\ ~report.busy
                  /\ \E v \in jobs[turn].verdict : report.error = v.error /\ report.code = v.code
        BY <2>1 DEF Inv, JobInv, Tells
    <2>6. QED
        BY <2>3, <2>4, <2>5 DEF ReportIsOfThisJob, Over
<1>2. QED
    BY <1>1, AlwaysInv, PTL
=============================================================================
