------------------------------ MODULE Offload -------------------------------
(***************************************************************************)
(* The control path as a whole: a program that polls as the smoke tests do *)
(* runs on a core that offloads its instructions to the CV-X-IF adapter,   *)
(* behind which stand the control adapter and any descriptor engine.       *)
(*                                                                         *)
(* The core (external) has one of the program's instructions outstanding   *)
(* at a time, as each result feeds the next branch or is waited for.  It   *)
(* may also issue an instruction from the wrong side of a branch, which it *)
(* then kills; MaxKills bounds how often.                                  *)
(*                                                                         *)
(* jobs is a history variable: for each job begun the address the engine   *)
(* was given and, in a set, the verdict once there is one.                 *)
(***************************************************************************)
EXTENDS CvxifRealAdapter, CvxifDescAdapter, Sequences

CONSTANTS Descriptors,         \* the addresses the program starts, in order
          MaxKills

ASSUMPTION OffloadAssumption == Descriptors \in Seq(Nat) \ {<<>>} /\ MaxKills \in Nat

VARIABLES pc,                  \* the program's next instruction
          turn,                \* which of the descriptors it is at
          report,              \* the last status it read
          core,                \* [stage, id, wrong]: the core's instruction
          kills, jobs

vars == <<xifVars, descVars, controlVars, pc, turn, report, core, kills, jobs>>

Job == Len(jobs)

Instr(funct3) == [spx |-> TRUE, funct3 |-> funct3, rs1 |-> IF funct3 = 0 THEN 1 ELSE 0, rd |-> 1]
ProgramInstr == [clear |-> Instr(3), set |-> Instr(0), start |-> Instr(1),
                 poll |-> Instr(2), finish |-> Instr(3)]
Running == pc \in DOMAIN ProgramInstr

Init ==
    /\ XifInit /\ DescInit /\ ControlInit
    /\ pc = "clear" /\ turn = 1
    /\ report = StatusOf(FALSE, NoCompletion)
    /\ core = [stage |-> "idle", id |-> 1, wrong |-> FALSE]
    /\ kills = 0
    /\ jobs = <<>>

NoIssue == [valid |-> FALSE]
NoCommit == [valid |-> FALSE]
IssueOf(instr, rs) == [valid |-> TRUE, id |-> core.id, instr |-> instr,
                       rs |-> rs, rs_valid |-> TRUE]
CommitOf(kill) == [valid |-> TRUE, id |-> core.id, kill |-> kill]

\* One clock edge of the two adapters and the engine.
Hardware(issue, commit, take) ==
    LET valid == InstrValid(commit)
        start == StartIssue(valid, pending_q.op)
    IN  /\ XifTick(issue, commit, TRUE, instr_resp_q, take)
        /\ ControlTick(valid, pending_q.op, pending_q.rs1)
        /\ DescTick(start)
        /\ jobs' = IF start THEN Append(jobs, [addr |-> desc_addr_q, verdict |-> {}])
                   ELSE IF desc_busy /\ ~desc_busy'
                   THEN [jobs EXCEPT ![Job].verdict = {desc_verdict'}] ELSE jobs

Wait ==
    /\ Hardware(NoIssue, NoCommit, FALSE)
    /\ UNCHANGED <<pc, turn, report, core, kills>>

Issue(instr, wrong) ==
    /\ core.stage = "idle" /\ Running
    /\ LET issue == IssueOf(instr, IF wrong THEN 0 ELSE Descriptors[turn])
       IN  /\ Hardware(issue, NoCommit, FALSE)
           /\ core' = IF IssueAccept(issue)
                      THEN [core EXCEPT !.stage = "issued", !.wrong = wrong] ELSE core
    /\ UNCHANGED <<pc, turn, report, kills>>

IssueNext == Issue(ProgramInstr[pc], FALSE)
IssueWrongPath == /\ kills < MaxKills
                  /\ \E p \in DOMAIN ProgramInstr : Issue(ProgramInstr[p], TRUE)

\* The other id is used next.
Kill ==
    /\ core.stage = "issued" /\ core.wrong
    /\ Hardware(NoIssue, CommitOf(TRUE), FALSE)
    /\ core' = [stage |-> "idle", id |-> 3 - core.id, wrong |-> FALSE]
    /\ kills' = kills + 1
    /\ UNCHANGED <<pc, turn, report>>

Commit ==
    /\ core.stage = "issued" /\ ~core.wrong
    /\ Hardware(NoIssue, CommitOf(FALSE), FALSE)
    /\ core' = [core EXCEPT !.stage = "committed"]
    /\ UNCHANGED <<pc, turn, report, kills>>

\* run_case: clear, set, start, then poll until done, then clear.  A START
\* that does not answer busy is a failure.
PcNext(status) ==
    CASE pc = "clear"  -> "set"
      [] pc = "set"    -> "start"
      [] pc = "start"  -> IF status.busy THEN "poll" ELSE "failed"
      [] pc = "poll"   -> IF status.done THEN "finish" ELSE "poll"
      [] pc = "finish" -> IF turn < Len(Descriptors) THEN "clear" ELSE "halt"

TakeResult ==
    /\ core.stage = "committed" /\ result_valid_q
    /\ Hardware(NoIssue, NoCommit, TRUE)
    /\ core' = [stage |-> "idle", id |-> 3 - core.id, wrong |-> FALSE]
    /\ pc' = PcNext(result_q.data)
    /\ turn' = IF pc' = "clear" THEN turn + 1 ELSE turn
    /\ report' = IF pc = "poll" THEN result_q.data ELSE report
    /\ UNCHANGED kills

Next == Wait \/ IssueNext \/ IssueWrongPath \/ Kill \/ Commit \/ TakeResult

\* The clock runs, the core goes on with its instruction and the engine ends
\* its jobs.
Spec == /\ Init /\ [][Next]_vars
        /\ WF_vars(Wait) /\ WF_vars(IssueNext)
        /\ WF_vars(Kill) /\ WF_vars(Commit) /\ WF_vars(TakeResult)
        /\ WF_vars(Next /\ DescFinish)

----------------------------------------------------------------------------
(***************************************************************************)
(* The smoke tests return -1 or -2 when START does not answer busy: it     *)
(* always does, whatever the job before left behind.                       *)
(***************************************************************************)
StartAnswersBusy == pc # "failed"

(***************************************************************************)
(* The engine works for this program only as told: one job per committed   *)
(* START, on the address of the SET_DESC before it, none for instructions  *)
(* that were killed.  When the program stops polling, what it read is how  *)
(* that very job ended.                                                    *)
(***************************************************************************)
ReportIsOfThisJob ==
    /\ Job <= turn
    /\ \A k \in 1 .. Job : jobs[k].addr = Descriptors[k]
    /\ pc \in {"finish", "halt"} =>
          /\ Job = turn
          /\ ~report.busy
          /\ \E v \in jobs[turn].verdict : report.error = v.error /\ report.code = v.code

(***************************************************************************)
(* The program gets through all of its descriptors: no poll loops on a     *)
(* completion that was lost.                                               *)
(***************************************************************************)
ProgramFinishes == <>(pc = "halt")
=============================================================================
