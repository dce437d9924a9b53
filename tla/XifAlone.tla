------------------------------ MODULE XifAlone ------------------------------
(***************************************************************************)
(* The CV-X-IF adapter between a core and a unit that executes simplified  *)
(* instructions.  The core (external, as the testbenches check it) may     *)
(* issue an instruction under any free id in any cycle, commits or kills   *)
(* it in a later cycle, in any order and also when it was not accepted,    *)
(* and takes a result when it likes.  The unit (external) is ready when it *)
(* likes and answers in a later cycle, with data that names what it ran.   *)
(*                                                                         *)
(* asked and ran are history variables: what each id was issued for, and   *)
(* how often the unit took an instruction while that id was outstanding.   *)
(***************************************************************************)
EXTENDS CvxifRealAdapter, FiniteSets

CONSTANTS Ids,
          Instructions         \* [instr, rs, rs_valid] the core may issue

ASSUMPTION IdsAssumption == Ids \subseteq Nat /\ IsFiniteSet(Ids)

VARIABLES cpu,                 \* [id -> "free", "accepted", "rejected", "committed"]
          asked, ran,
          unit                 \* [busy, op, rs1]

vars == <<xifVars, cpu, asked, ran, unit>>

NoIssue == [valid |-> FALSE]
NoCommit == [valid |-> FALSE]
NoResponse == [valid |-> FALSE]
IdleUnit == [busy |-> FALSE, op |-> "none", rs1 |-> 0]

Free == {id \in Ids : cpu[id] = "free"}
Outstanding == {id \in Ids : cpu[id] \in {"accepted", "committed"}}
Uncommitted == {id \in Ids : cpu[id] \in {"accepted", "rejected"}}

Issues == {[valid |-> TRUE, id |-> id, instr |-> i.instr, rs |-> i.rs, rs_valid |-> i.rs_valid] :
              id \in Free, i \in Instructions}
Commits == [valid : {TRUE}, id : Uncommitted, kill : BOOLEAN]
Responses == IF unit.busy
             THEN {[valid |-> TRUE, illegal |-> illegal, data |-> <<unit.op, unit.rs1>>] :
                      illegal \in BOOLEAN}
             ELSE {}

Init ==
    /\ XifInit
    /\ cpu = [id \in Ids |-> "free"]
    /\ asked = [id \in Ids |-> NoPending]
    /\ ran = [id \in Ids |-> 0]
    /\ unit = IdleUnit

\* The core's record of one id after this cycle.
CpuNext(id, issue, commit, take) ==
    IF IssueFire(issue) /\ issue.id = id
    THEN IF IssueAccept(issue) THEN "accepted" ELSE "rejected"
    ELSE IF commit.valid /\ commit.id = id
    THEN IF commit.kill \/ cpu[id] = "rejected" THEN "free" ELSE "committed"
    ELSE IF ResultFire(take) /\ result_q.id = id THEN "free"
    ELSE cpu[id]

Cycle(issue, commit, ready, resp, take) ==
    /\ XifTick(issue, commit, ready, resp, take)
    /\ cpu' = [id \in Ids |-> CpuNext(id, issue, commit, take)]
    /\ asked' = [id \in Ids |-> IF IssueAccept(issue) /\ issue.id = id THEN Pending(issue)
                               ELSE IF cpu'[id] = "free" THEN NoPending ELSE asked[id]]
    /\ ran' = [id \in Ids |-> IF cpu'[id] = "free" THEN 0
                             ELSE IF InstrFire(commit, ready) /\ id \in Outstanding
                             THEN ran[id] + 1 ELSE ran[id]]
    /\ unit' = IF InstrFire(commit, ready)
               THEN [busy |-> TRUE, op |-> pending_q.op, rs1 |-> pending_q.rs1]
               ELSE IF resp.valid THEN IdleUnit ELSE unit

Reset ==
    /\ XifReset
    /\ cpu' = [id \in Ids |-> "free"]
    /\ asked' = [id \in Ids |-> NoPending]
    /\ ran' = [id \in Ids |-> 0]
    /\ unit' = IdleUnit

AnyCycle(ready, resp, take) ==
    \E issue \in Issues \cup {NoIssue}, commit \in Commits \cup {NoCommit} :
        Cycle(issue, commit, ready, resp, take)

UnitReady    == \E resp \in Responses \cup {NoResponse}, take \in BOOLEAN : AnyCycle(TRUE, resp, take)
UnitAnswers  == \E resp \in Responses, ready, take \in BOOLEAN : AnyCycle(ready, resp, take)
ResultTaken  == \E resp \in Responses \cup {NoResponse}, ready \in BOOLEAN : AnyCycle(ready, resp, TRUE)

Next == \/ \E resp \in Responses \cup {NoResponse}, ready, take \in BOOLEAN :
               AnyCycle(ready, resp, take)
        \/ Reset

\* The unit is ready again and again, answers what it took, and the core
\* takes a result that is offered.  Nothing obliges the core to issue or to
\* commit.
Spec == /\ Init /\ [][Next]_vars
        /\ WF_vars(xif_state_q = "ISSUE_DESC" /\ UnitReady)
        /\ WF_vars(UnitAnswers)
        /\ WF_vars(result_valid_q /\ ResultTaken)

----------------------------------------------------------------------------
(***************************************************************************)
(* docs/phase3_6_cv32e40x_cvxif_bringup.md: side effects only after a      *)
(* commit without kill.  The unit runs nothing for an instruction that is  *)
(* not yet committed, whatever is committed or killed beside it, and a     *)
(* committed one at most once.                                             *)
(***************************************************************************)
RunsOnceAfterCommit ==
    \A id \in Outstanding : ran[id] <= IF cpu[id] = "committed" THEN 1 ELSE 0

(***************************************************************************)
(* A result belongs to its instruction: the id is a committed one, the     *)
(* unit ran exactly what that id was issued for, the data is the answer to *)
(* that, and the register is written unless the unit refused.              *)
(***************************************************************************)
ResultIsOwn ==
    result_valid_q =>
        LET id == result_q.id IN
        /\ cpu[id] = "committed" /\ ran[id] = 1
        /\ result_q.data = <<asked[id].op, asked[id].rs1>>
        /\ result_q.rd = asked[id].rd
        /\ result_q.we <=> asked[id].rd # 0 /\ ~result_q.exc

(***************************************************************************)
(* Every committed instruction gets its result and is retired: no ready,   *)
(* answer or result handshake of it is ever missed.                        *)
(***************************************************************************)
CommittedRetires == \A id \in Ids : cpu[id] = "committed" ~> cpu[id] = "free"
=============================================================================
