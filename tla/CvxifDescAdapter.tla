-------------------------- MODULE CvxifDescAdapter --------------------------
(***************************************************************************)
(* spx_cvxif_desc_adapter: the shell between simplified instructions and   *)
(* the descriptor engine.  It keeps the descriptor address and the sticky  *)
(* completion, which it takes from the rising edge of done.  One step of   *)
(* ControlTick is one clock edge; its arguments are the instruction wires, *)
(* which hold some op and rs1 also when valid is low.                      *)
(***************************************************************************)
EXTENDS DescEngine

VARIABLES desc_addr_q,
          sticky_q,            \* sticky_done_q, sticky_error_q, sticky_error_code_q
          desc_done_seen_q,
          instr_resp_q         \* instr_resp_valid, _data, instr_illegal

controlVars == <<desc_addr_q, sticky_q, desc_done_seen_q, instr_resp_q>>

LegalOps == {"SET_DESC", "START", "STATUS", "CLEAR", "WAIT"}
Legal(op) == op \in LegalOps

NoCompletion == [done |-> FALSE, error |-> FALSE, code |-> 0]
Completion(verdict) == [done |-> TRUE, error |-> verdict.error,
                        code |-> IF verdict.error THEN verdict.code ELSE 0]
StatusOf(busy, completion) == [busy |-> busy, done |-> completion.done,
                               error |-> completion.error, code |-> completion.code]

desc_done_edge == desc_done /\ ~desc_done_seen_q

\* live_done, live_error, live_error_code.
LiveCompletion ==
    [done  |-> sticky_q.done \/ desc_done_edge,
     error |-> sticky_q.error \/ (desc_done_edge /\ desc_verdict.error),
     code  |-> IF sticky_q.error THEN sticky_q.code
               ELSE IF desc_done_edge /\ desc_verdict.error THEN desc_verdict.code ELSE 0]

StartIssue(valid, op) == valid /\ op = "START" /\ ~desc_busy
ClearIssue(valid, op) == valid /\ op = "CLEAR"

\* The status after the instruction; in the fault that before it.
StatusBefore(valid, op) == StatusOf(desc_busy, LiveCompletion)
ResponseStatus(valid, op) ==
    IF StartIssue(valid, op) THEN StatusOf(TRUE, NoCompletion)
    ELSE IF ClearIssue(valid, op) THEN StatusOf(desc_busy, NoCompletion)
    ELSE StatusOf(desc_busy, LiveCompletion)

\* A fault of the order of assignments: the completion seen in this cycle
\* wins over CLEAR and START.
CaptureFirst(valid, op) ==
    IF desc_done_edge THEN Completion(desc_verdict)
    ELSE IF StartIssue(valid, op) \/ ClearIssue(valid, op) THEN NoCompletion
    ELSE sticky_q
StickyNext(valid, op) ==
    IF StartIssue(valid, op) \/ ClearIssue(valid, op) THEN NoCompletion
    ELSE IF desc_done_edge THEN Completion(desc_verdict)
    ELSE sticky_q

\* A fault: done once seen stays seen.
SeenForGood == desc_done_seen_q \/ desc_done
SeenNext == desc_done

NoResponse == [valid |-> FALSE, illegal |-> FALSE, data |-> StatusOf(FALSE, NoCompletion)]

ControlInit ==
    /\ desc_addr_q = 0
    /\ sticky_q = NoCompletion
    /\ desc_done_seen_q = FALSE
    /\ instr_resp_q = NoResponse

\* rst_n low.
ControlReset ==
    /\ desc_addr_q' = 0
    /\ sticky_q' = NoCompletion
    /\ desc_done_seen_q' = FALSE
    /\ instr_resp_q' = NoResponse

ControlTick(valid, op, rs1) ==
    /\ desc_done_seen_q' = SeenNext
    /\ sticky_q' = StickyNext(valid, op)
    /\ desc_addr_q' = IF valid /\ op = "SET_DESC" THEN rs1 ELSE desc_addr_q
    /\ instr_resp_q' = [valid   |-> valid,
                        illegal |-> valid /\ ~Legal(op),
                        data    |-> IF Legal(op) THEN ResponseStatus(valid, op)
                                    ELSE StatusOf(FALSE, NoCompletion)]
=============================================================================
