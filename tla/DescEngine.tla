----------------------------- MODULE DescEngine -----------------------------
(***************************************************************************)
(* What the control side sees of a descriptor engine: it takes a start     *)
(* while it is not busy, is busy for at least one cycle, and then shows    *)
(* done and a verdict until the next start.  The verdict may change while  *)
(* the engine is busy and means nothing then.                              *)
(***************************************************************************)
EXTENDS Naturals

CONSTANT ErrorCodes          \* the codes a job can end with

VARIABLES desc_busy, desc_done, desc_verdict

descVars == <<desc_busy, desc_done, desc_verdict>>

GoodVerdict == [error |-> FALSE, code |-> 0]
Verdicts == {GoodVerdict} \cup {[error |-> TRUE, code |-> c] : c \in ErrorCodes}

DescInit ==
    /\ desc_busy = FALSE
    /\ desc_done = FALSE
    /\ desc_verdict = GoodVerdict

DescBegin(start) ==
    /\ start /\ ~desc_busy
    /\ desc_busy' = TRUE
    /\ desc_done' = FALSE
    /\ desc_verdict' \in Verdicts

\* A start is not looked at while the engine is busy.
DescWork ==
    /\ desc_busy
    /\ desc_verdict' \in Verdicts
    /\ UNCHANGED <<desc_busy, desc_done>>

DescFinish ==
    /\ desc_busy
    /\ desc_busy' = FALSE
    /\ desc_done' = TRUE
    /\ desc_verdict' \in Verdicts

DescRest(start) ==
    /\ ~start /\ ~desc_busy
    /\ UNCHANGED descVars

\* rst_n low.
DescReset ==
    /\ desc_busy' = FALSE
    /\ desc_done' = FALSE
    /\ desc_verdict' = GoodVerdict

DescTick(start) == DescBegin(start) \/ DescWork \/ DescFinish \/ DescRest(start)

DescNext == (\E start \in BOOLEAN : DescTick(start)) \/ DescReset

\* Every job ends.
EveryJobEnds == desc_busy ~> ~desc_busy

DescSpec == DescInit /\ [][DescNext]_descVars /\ EveryJobEnds
=============================================================================
