-------------------------- MODULE DescControlAlone --------------------------
(***************************************************************************)
(* The control shell over any descriptor engine, with any instruction in   *)
(* any cycle: polls, clears and starts may meet the completion of a job.   *)
(*                                                                         *)
(* fresh is a history variable: the verdict of the job that finished since *)
(* the last CLEAR and the last START that was taken, in a set, which is    *)
(* empty when there is none.  started says whether a START was taken since *)
(* the last CLEAR.                                                         *)
(***************************************************************************)
EXTENDS CvxifDescAdapter

CONSTANT Addresses

VARIABLES fresh, started

vars == <<descVars, controlVars, fresh, started>>

Init ==
    /\ DescInit /\ ControlInit
    /\ fresh = {}
    /\ started = FALSE

\* A job that finishes at this edge is one the instruction of this cycle
\* could not see.
Cycle(valid, op, rs1) ==
    /\ ControlTick(valid, op, rs1)
    /\ DescTick(StartIssue(valid, op))
    /\ fresh' = IF desc_busy /\ ~desc_busy' THEN {desc_verdict'}
                ELSE IF StartIssue(valid, op) \/ ClearIssue(valid, op) THEN {}
                ELSE fresh
    /\ started' = IF ClearIssue(valid, op) THEN FALSE
                  ELSE StartIssue(valid, op) \/ started

Reset ==
    /\ ControlReset /\ DescReset
    /\ fresh' = {}
    /\ started' = FALSE

Next == \/ \E valid \in BOOLEAN, op \in LegalOps \cup {"other"}, rs1 \in Addresses :
               Cycle(valid, op, rs1)
        \/ Reset

Spec == Init /\ [][Next]_vars

----------------------------------------------------------------------------
(***************************************************************************)
(* What a status read in this cycle would show is the completion since the *)
(* last CLEAR or START, with the verdict of that job: it is neither lost   *)
(* when done rises in the cycle of another instruction, nor shown again    *)
(* although done stays up after a CLEAR, nor mixed up with the verdict of  *)
(* the job before.                                                         *)
(***************************************************************************)
StatusIsFresh ==
    /\ LiveCompletion.done <=> fresh # {}
    /\ fresh = {} => LiveCompletion = NoCompletion
    /\ \A verdict \in fresh : /\ LiveCompletion.error = verdict.error
                              /\ LiveCompletion.code = verdict.code

(***************************************************************************)
(* A program that started a job and has not cleared since always reads     *)
(* either busy or done, never neither and never both: a poll cannot fall   *)
(* between the end of the job and its completion, and a poll in the first  *)
(* cycles of a job does not see the done the engine still showed before.   *)
(***************************************************************************)
BusyOrDone == started => (desc_busy <=> ~LiveCompletion.done)
=============================================================================
