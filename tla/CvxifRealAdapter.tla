-------------------------- MODULE CvxifRealAdapter --------------------------
(***************************************************************************)
(* spx_cvxif_real_adapter: one offloaded instruction at a time from issue  *)
(* over commit or kill to its result.  One step of XifTick is one clock    *)
(* edge.  Its arguments are the wires of that cycle:                       *)
(*   issue   [valid, id, instr, rs, rs_valid]                              *)
(*   commit  [valid, id, kill]                                             *)
(*   ready   instr_ready of the unit behind                                *)
(*   resp    [valid, illegal, data] of that unit                           *)
(*   take    result_ready                                                  *)
(* An instruction is a record of the fields the decoder tests: spx says    *)
(* that opcode, funct7 and rs2 are the extension's.                        *)
(***************************************************************************)
EXTENDS Naturals

VARIABLES xif_state_q,
          pending_q,           \* pending_op_q, _rs1_q, _rd_q, _id_q, _we_q
          result_q,            \* result_data_q, _rd_q, _id_q, _we_q, _exc_q
          result_valid_q

xifVars == <<xif_state_q, pending_q, result_q, result_valid_q>>

Funct3Op == <<"START", "STATUS", "CLEAR">>    \* funct3 = 1, 2, 3

DecodedOp(instr) ==
    IF ~instr.spx THEN "none"
    ELSE IF instr.funct3 = 0 THEN "SET_DESC"
    ELSE IF instr.funct3 \in DOMAIN Funct3Op THEN Funct3Op[instr.funct3] ELSE "none"

Supported(instr) ==
    /\ DecodedOp(instr) # "none"
    /\ DecodedOp(instr) # "SET_DESC" => instr.rs1 = 0

OperandsOk(issue) == DecodedOp(issue.instr) = "SET_DESC" => issue.rs_valid

IssueAccept(issue) ==
    issue.valid /\ Supported(issue.instr) /\ OperandsOk(issue) /\ xif_state_q = "IDLE"
IssueReady(issue) == Supported(issue.instr) => xif_state_q = "IDLE"
IssueFire(issue) == issue.valid /\ IssueReady(issue)

\* A commit of another instruction is ignored; in the fault it is not.
AnyCommit(commit) == commit.valid /\ xif_state_q = "WAIT_COMMIT"
CommitMatch(commit) ==
    commit.valid /\ xif_state_q = "WAIT_COMMIT" /\ commit.id = pending_q.id

\* In the fault a killed instruction is forwarded as well.
TakeKilled(commit) == CommitMatch(commit)
CommitTake(commit) == CommitMatch(commit) /\ ~commit.kill

InstrValid(commit) == (xif_state_q = "ISSUE_DESC" \/ CommitTake(commit)) /\ ~result_valid_q
InstrFire(commit, ready) == InstrValid(commit) /\ ready

ResultFire(take) == result_valid_q /\ take

----------------------------------------------------------------------------
NoPending == [op |-> "none", rs1 |-> 0, rd |-> 0, id |-> 0, we |-> FALSE]
NoResult == [data |-> 0, rd |-> 0, id |-> 0, we |-> FALSE, exc |-> FALSE]

XifInit ==
    /\ xif_state_q = "IDLE"
    /\ pending_q = NoPending
    /\ result_q = NoResult
    /\ result_valid_q = FALSE

Pending(issue) ==
    [op  |-> DecodedOp(issue.instr),
     rs1 |-> IF DecodedOp(issue.instr) = "SET_DESC" THEN issue.rs ELSE 0,
     rd  |-> issue.instr.rd, id |-> issue.id, we |-> issue.instr.rd # 0]

\* An illegal instruction writes nothing back; in the fault it does.
WriteAnyway(resp) ==
    [data |-> resp.data, rd |-> pending_q.rd, id |-> pending_q.id,
     we |-> pending_q.we, exc |-> resp.illegal]
Result(resp) ==
    [data |-> resp.data, rd |-> pending_q.rd, id |-> pending_q.id,
     we |-> pending_q.we /\ ~resp.illegal, exc |-> resp.illegal]

\* Where a committed instruction goes; in the fault it is taken as forwarded
\* although the unit was not ready.
AssumeForwarded(commit, ready) == "WAIT_DESC_RESP"
AfterCommit(commit, ready) ==
    IF InstrFire(commit, ready) THEN "WAIT_DESC_RESP" ELSE "ISSUE_DESC"

Idle(issue) ==
    /\ xif_state_q = "IDLE"
    /\ IF IssueAccept(issue)
       THEN xif_state_q' = "WAIT_COMMIT" /\ pending_q' = Pending(issue)
       ELSE UNCHANGED <<xif_state_q, pending_q>>
    /\ UNCHANGED result_q

WaitCommit(commit, ready) ==
    /\ xif_state_q = "WAIT_COMMIT"
    /\ xif_state_q' = IF ~CommitMatch(commit) THEN "WAIT_COMMIT"
                      ELSE IF commit.kill THEN "IDLE"
                      ELSE AfterCommit(commit, ready)
    /\ UNCHANGED <<pending_q, result_q>>

IssueDesc(commit, ready) ==
    /\ xif_state_q = "ISSUE_DESC"
    /\ xif_state_q' = IF InstrFire(commit, ready) THEN "WAIT_DESC_RESP" ELSE "ISSUE_DESC"
    /\ UNCHANGED <<pending_q, result_q>>

WaitDescResp(resp) ==
    /\ xif_state_q = "WAIT_DESC_RESP"
    /\ IF resp.valid THEN xif_state_q' = "RESULT" /\ result_q' = Result(resp)
                     ELSE UNCHANGED <<xif_state_q, result_q>>
    /\ UNCHANGED pending_q

HoldResult(take) ==
    /\ xif_state_q = "RESULT"
    /\ xif_state_q' = IF ResultFire(take) THEN "IDLE" ELSE "RESULT"
    /\ UNCHANGED <<pending_q, result_q>>

XifTick(issue, commit, ready, resp, take) ==
    /\ \/ Idle(issue)
       \/ WaitCommit(commit, ready)
       \/ IssueDesc(commit, ready)
       \/ WaitDescResp(resp)
       \/ HoldResult(take)
    /\ result_valid_q' = \/ xif_state_q = "WAIT_DESC_RESP" /\ resp.valid
                         \/ result_valid_q /\ ~ResultFire(take)

\* rst_n low.
XifReset ==
    /\ xif_state_q' = "IDLE"
    /\ pending_q' = NoPending
    /\ result_q' = NoResult
    /\ result_valid_q' = FALSE
=============================================================================
