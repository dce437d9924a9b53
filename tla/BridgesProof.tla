---------------------------- MODULE BridgesProof ----------------------------
(***************************************************************************)
(* The two bridges of the descriptor adapter.  The control adapter over    *)
(* any descriptor engine, for any set of error codes and addresses: the    *)
(* status is always the completion of the job that finished since the last *)
(* CLEAR or START.  And the memory shim between any requester that holds   *)
(* its beat and any bus that answers in order, for any set of addresses    *)
(* and data: the bus never has more than one request, and every step of    *)
(* shim and bus is a step of the memory port or none.                      *)
(***************************************************************************)
EXTENDS DescControlAlone, MemShim, TLAPS

----------------------------------------------------------------------------
(***************************************************************************)
(* The control adapter.                                                    *)
(***************************************************************************)
TypeInv ==
    /\ desc_busy \in BOOLEAN /\ desc_done \in BOOLEAN
    /\ desc_done_seen_q \in BOOLEAN /\ started \in BOOLEAN
    /\ desc_verdict \in Verdicts

\* A completion is nowhere, on its way (done has risen and is not yet seen),
\* or kept.  It is that of the verdict the engine still shows.
Nowhere == fresh = {} /\ sticky_q = NoCompletion /\ ~desc_done_edge
OnItsWay == fresh = {desc_verdict} /\ sticky_q = NoCompletion /\ desc_done_edge
Kept == /\ fresh = {desc_verdict} /\ sticky_q = Completion(desc_verdict)
        /\ ~desc_done_edge /\ ~desc_busy

CompletionInv ==
    /\ desc_busy => ~desc_done
    /\ Nowhere \/ OnItsWay \/ Kept
    /\ started => (desc_busy <=> fresh = {})

Inv == TypeInv /\ CompletionInv

----------------------------------------------------------------------------
\* Only an error has a code.
LEMMA VerdictForm ==
    ASSUME NEW v \in Verdicts
    PROVE  /\ v = GoodVerdict \/ (v.error = TRUE /\ v = [error |-> TRUE, code |-> v.code])
           /\ v = GoodVerdict => v.error = FALSE /\ v.code = 0
    BY DEF Verdicts, GoodVerdict

\* What a kept completion of a verdict says.
LEMMA CompletionForm ==
    ASSUME NEW v \in Verdicts
    PROVE  /\ Completion(v).done = TRUE
           /\ Completion(v).error = v.error
           /\ Completion(v).code = v.code
    BY VerdictForm DEF Completion, GoodVerdict

LEMMA InitInv == Init => Inv
    BY DEF Init, DescInit, ControlInit, Inv, TypeInv, CompletionInv, Nowhere,
           desc_done_edge, Verdicts

LEMMA ResetInv == Reset => Inv'
    BY DEF Reset, DescReset, ControlReset, Inv, TypeInv, CompletionInv, Nowhere,
           desc_done_edge, Verdicts

----------------------------------------------------------------------------
LEMMA CycleType ==
    ASSUME Inv, NEW valid \in BOOLEAN, NEW op, NEW rs1, Cycle(valid, op, rs1)
    PROVE  TypeInv'
<1>1. desc_done_seen_q' \in BOOLEAN
    BY DEF Inv, TypeInv, Cycle, ControlTick, SeenNext
<1>2. started' \in BOOLEAN
    BY DEF Inv, TypeInv, Cycle, StartIssue, ClearIssue
<1>3. desc_busy' \in BOOLEAN /\ desc_done' \in BOOLEAN /\ desc_verdict' \in Verdicts
    BY DEF Inv, TypeInv, Cycle, DescTick, DescBegin, DescWork, DescFinish, DescRest, descVars
<1> QED
    BY <1>1, <1>2, <1>3 DEF TypeInv

\* A START that is taken: the completion of the job before is gone.
LEMMA BeginStep ==
    ASSUME Inv, NEW valid \in BOOLEAN, NEW op, NEW rs1, Cycle(valid, op, rs1),
           DescBegin(StartIssue(valid, op))
    PROVE  CompletionInv'
<1>1. desc_busy' = TRUE /\ desc_done' = FALSE /\ ~desc_busy
    BY DEF DescBegin
<1>2. fresh' = {} /\ sticky_q' = NoCompletion
    BY <1>1 DEF DescBegin, Cycle, ControlTick, StickyNext
<1> QED
    BY <1>1, <1>2 DEF CompletionInv, Nowhere, desc_done_edge

\* While the engine works there is no completion, and nothing makes one.
LEMMA WorkStep ==
    ASSUME Inv, NEW valid \in BOOLEAN, NEW op, NEW rs1, Cycle(valid, op, rs1),
           DescWork
    PROVE  CompletionInv'
<1>1. desc_busy /\ ~desc_done /\ desc_busy' = desc_busy /\ desc_done' = desc_done
    BY DEF DescWork, Inv, CompletionInv
<1>2. Nowhere
    BY <1>1 DEF Inv, CompletionInv, OnItsWay, Kept, desc_done_edge
<1>3. fresh' = {} /\ sticky_q' = NoCompletion
    BY <1>1, <1>2 DEF Cycle, ControlTick, StickyNext, Nowhere, desc_done_edge
<1> QED
    BY <1>1, <1>3 DEF CompletionInv, Nowhere, desc_done_edge

\* The end of a job puts its completion on the way, whatever instruction is
\* executed in that cycle.
LEMMA FinishStep ==
    ASSUME Inv, NEW valid \in BOOLEAN, NEW op, NEW rs1, Cycle(valid, op, rs1),
           DescFinish
    PROVE  CompletionInv'
<1>1. desc_busy /\ ~desc_done /\ desc_busy' = FALSE /\ desc_done' = TRUE
    BY DEF DescFinish, Inv, CompletionInv
<1>2. Nowhere
    BY <1>1 DEF Inv, CompletionInv, OnItsWay, Kept, desc_done_edge
<1>3. fresh' = {desc_verdict'}
    BY <1>1 DEF Cycle
<1>4. sticky_q' = NoCompletion /\ desc_done_seen_q' = desc_done
    BY <1>1, <1>2 DEF Cycle, ControlTick, StickyNext, SeenNext, Nowhere, desc_done_edge
<1> QED
    BY <1>1, <1>3, <1>4 DEF CompletionInv, OnItsWay, desc_done_edge

\* The engine rests: a completion on its way is kept, unless a CLEAR comes in
\* the same cycle, and one that is kept stays until a CLEAR.
LEMMA RestStep ==
    ASSUME Inv, NEW valid \in BOOLEAN, NEW op, NEW rs1, Cycle(valid, op, rs1),
           DescRest(StartIssue(valid, op))
    PROVE  CompletionInv'
<1>1. /\ ~StartIssue(valid, op) /\ ~desc_busy
      /\ desc_busy' = desc_busy /\ desc_done' = desc_done /\ desc_verdict' = desc_verdict
    BY DEF DescRest, descVars
<1>2. ~desc_done_edge'
    BY <1>1 DEF Cycle, ControlTick, SeenNext, desc_done_edge
<1>3. CASE ClearIssue(valid, op)
  <2>1. fresh' = {} /\ sticky_q' = NoCompletion /\ started' = FALSE
      BY <1>1, <1>3 DEF Cycle, ControlTick, StickyNext
  <2> QED
      BY <1>1, <1>2, <2>1 DEF CompletionInv, Nowhere
<1>4. CASE ~ClearIssue(valid, op)
  <2>1. fresh' = fresh /\ started' = started
      BY <1>1, <1>4, Zenon DEF Cycle, Inv, TypeInv
  <2>2. sticky_q' = IF desc_done_edge THEN Completion(desc_verdict) ELSE sticky_q
      BY <1>1, <1>4 DEF Cycle, ControlTick, StickyNext
  <2>3. (Nowhere \/ OnItsWay \/ Kept)'
      BY <1>1, <1>2, <2>1, <2>2 DEF Inv, CompletionInv, Nowhere, OnItsWay, Kept
  <2> QED
      BY <1>1, <2>1, <2>3 DEF Inv, CompletionInv
<1> QED
    BY <1>3, <1>4

LEMMA NextInv == Inv /\ [Next]_vars => Inv'
<1> SUFFICES ASSUME Inv, [Next]_vars PROVE Inv'
    OBVIOUS
<1>1. CASE Reset
    BY <1>1, ResetInv
<1>2. ASSUME NEW valid \in BOOLEAN, NEW op \in LegalOps \cup {"other"},
             NEW rs1 \in Addresses, Cycle(valid, op, rs1)
      PROVE  Inv'
  <2>1. TypeInv'
      BY <1>2, CycleType
  <2>2. DescTick(StartIssue(valid, op))
      BY <1>2 DEF Cycle
  <2>3. CompletionInv'
      BY <1>2, <2>2, BeginStep, WorkStep, FinishStep, RestStep DEF DescTick
  <2> QED
      BY <2>1, <2>3 DEF Inv
<1>3. CASE UNCHANGED vars
    BY <1>3 DEF vars, descVars, controlVars, Inv, TypeInv, CompletionInv, Nowhere,
                OnItsWay, Kept, desc_done_edge
<1> QED
    BY <1>1, <1>2, <1>3 DEF Next

LEMMA AlwaysInv == Spec => []Inv
    BY InitInv, NextInv, PTL DEF Spec

----------------------------------------------------------------------------
LEMMA InvStatus == Inv => StatusIsFresh
<1> SUFFICES ASSUME Inv PROVE StatusIsFresh
    OBVIOUS
<1>0. desc_verdict \in Verdicts
    BY DEF Inv, TypeInv
<1>1. CASE Nowhere
    BY <1>1 DEF StatusIsFresh, Nowhere, LiveCompletion, NoCompletion
<1>2. CASE OnItsWay
  <2>1. desc_verdict.error = FALSE => desc_verdict.code = 0
      BY <1>0, VerdictForm DEF GoodVerdict
  <2>2. desc_verdict.error \in BOOLEAN
      BY <1>0, VerdictForm
  <2> QED
      BY <1>2, <2>1, <2>2 DEF StatusIsFresh, OnItsWay, LiveCompletion, NoCompletion
<1>3. CASE Kept
  <2>1. desc_verdict.error = FALSE => desc_verdict.code = 0
      BY <1>0, VerdictForm DEF GoodVerdict
  <2>2. desc_verdict.error \in BOOLEAN
      BY <1>0, VerdictForm
  <2> QED
      BY <1>0, <1>3, <2>1, <2>2, CompletionForm DEF StatusIsFresh, Kept, LiveCompletion
<1> QED
    BY <1>1, <1>2, <1>3 DEF Inv, CompletionInv

LEMMA InvBusy == Inv => BusyOrDone
<1> SUFFICES ASSUME Inv, started PROVE desc_busy <=> ~LiveCompletion.done
    BY DEF BusyOrDone
<1>1. LiveCompletion.done <=> fresh # {}
    BY InvStatus DEF StatusIsFresh
<1> QED
    BY <1>1 DEF Inv, CompletionInv

(***************************************************************************)
(* What a status read shows in any cycle is the completion since the last  *)
(* CLEAR or START, for any engine, error codes and addresses.              *)
(***************************************************************************)
THEOREM StatusCorrect == Spec => []StatusIsFresh
    BY AlwaysInv, InvStatus, PTL

(***************************************************************************)
(* Between a START that was taken and the next CLEAR a program always      *)
(* reads exactly one of busy and done, for any engine.                     *)
(***************************************************************************)
THEOREM PollCorrect == Spec => []BusyOrDone
    BY AlwaysInv, InvBusy, PTL

----------------------------------------------------------------------------
(***************************************************************************)
(* The memory shim.                                                        *)
(***************************************************************************)
InIdle    == shim_state_q = "IDLE" /\ taken = <<>>
InWaitRsp == /\ shim_state_q = "WAIT_RSP"
             /\ port.valid
             /\ req_q = RequestOf(port)
             /\ taken = <<RequestOf(port)>>

\* What the bus has is what the shim waits for, and that is the beat still
\* offered, so that an answer can be passed through unexamined.
BusInv == /\ port \in Port!Beats \cup {Port!NoBeat}
          /\ InIdle \/ InWaitRsp

LEMMA BusInitInv == BusInit => BusInv
    BY DEF BusInit, ShimInit, Port!PortInit, BusInv, InIdle

LEMMA NoBeatIsNone == Port!NoBeat.valid = FALSE
    BY DEF Port!NoBeat

LEMMA BusResetInv == BusInv /\ BusReset => BusInv'
    BY DEF BusInv, BusReset, ShimReset, InIdle

\* The requests of a cycle are none, or the beat offered.
LEMMA RequestsOfCycle ==
    ASSUME BusInv, NEW busReady \in BOOLEAN
    PROVE  /\ InWaitRsp => Waiting(busReady) = <<RequestOf(port)>> /\ ~ReqFire(port, busReady)
           /\ InIdle /\ ReqFire(port, busReady) =>
                 port.valid /\ busReady /\ Waiting(busReady) = <<RequestOf(port)>>
           /\ InIdle /\ ~ReqFire(port, busReady) => Waiting(busReady) = <<>>
<1>1. CASE InWaitRsp
    BY <1>1 DEF InWaitRsp, InIdle, Waiting, ReqFire, BusReqValid
<1>2. CASE InIdle
    <2>1. Append(taken, BusRequest(port)) = <<RequestOf(port)>>
        BY <1>2 DEF InIdle, BusRequest
    <2>2. QED
        BY <1>2, <2>1 DEF InWaitRsp, InIdle, Waiting, ReqFire, BusReqValid
<1>3. QED
    BY <1>1, <1>2 DEF BusInv

LEMMA AnswerKinds ==
    \A answer \in Answers \cup {Silence} :
        /\ answer.valid \in BOOLEAN /\ answer.error \in BOOLEAN
        /\ answer.valid /\ ~answer.error => answer.stored
        /\ answer.stored \in BOOLEAN
<1>1. Silence.valid = FALSE /\ Silence.error = FALSE /\ Silence.stored = FALSE
    BY DEF Silence
<1>2. \A answer \in Answers :
        /\ answer.valid = TRUE /\ answer.error \in BOOLEAN /\ answer.stored \in BOOLEAN
        /\ ~answer.error => answer.stored
    <2> SUFFICES ASSUME NEW answer \in Answers
                 PROVE  /\ answer.valid = TRUE /\ answer.error \in BOOLEAN
                        /\ answer.stored \in BOOLEAN
                        /\ ~answer.error => answer.stored
        OBVIOUS
    <2>1. \/ answer = [valid |-> TRUE, error |-> FALSE, stored |-> TRUE]
          \/ answer = [valid |-> TRUE, error |-> TRUE, stored |-> TRUE]
          \/ answer = [valid |-> TRUE, error |-> TRUE, stored |-> FALSE]
        BY DEF Answers
    <2>2. answer.valid = TRUE
        BY <2>1
    <2>3. (answer.error = TRUE \/ answer.error = FALSE) /\ (answer.stored = TRUE \/ answer.stored = FALSE)
        BY <2>1
    <2>4. answer.error = TRUE \/ answer.stored = TRUE
        BY <2>1
    <2>5. QED
        BY <2>2, <2>3, <2>4, Zenon
<1>3. QED
    BY <1>1, <1>2

\* A cycle in which the bus answers: the beat offered is accepted, and memory
\* is what the port would have made of it.
LEMMA AnsweredCycle ==
    ASSUME BusInv, NEW busReady \in BOOLEAN, NEW answer \in Answers \cup {Silence},
           BusCycle(busReady, answer), answer.valid
    PROVE  BusInv' /\ Port!AcceptBeat
<1>1. Waiting(busReady) = <<RequestOf(port)>> /\ port.valid
      /\ MemReady(port, busReady, answer.valid)
    <2>1. CASE InWaitRsp
        BY <2>1, RequestsOfCycle DEF InWaitRsp, MemReady, RspFireWait
    <2>2. CASE InIdle
        <3>1. ReqFire(port, busReady)
            BY <2>2, RequestsOfCycle DEF BusCycle
        <3>2. QED
            BY <2>2, <3>1, RequestsOfCycle DEF InIdle, MemReady, RspFireIdle
    <2>3. QED
        BY <2>1, <2>2 DEF BusInv
<1>2. Head(Waiting(busReady)) = RequestOf(port) /\ Tail(Waiting(busReady)) = <<>>
    BY <1>1
<1>3. /\ RequestOf(port).we = port.we /\ RequestOf(port).addr = port.addr
      /\ RequestOf(port).data = port.data
    BY DEF RequestOf
<1>4. /\ taken' = <<>>
      /\ mem' = IF port.we /\ answer.stored THEN [mem EXCEPT ![port.addr] = port.data] ELSE mem
      /\ beat' = Port!Answered(mem[port.addr], answer.error)
      /\ port' \in Port!Beats \cup {Port!NoBeat}
      /\ ShimTick(port, busReady, answer.valid)
    BY <1>1, <1>2, <1>3 DEF BusCycle
<1>5. shim_state_q' = "IDLE"
    BY <1>4 DEF ShimTick, ShimIdle, ShimWait, WaitForResponse, shimVars, BusInv, InIdle, InWaitRsp
<1>6. mem' \in Port!After(answer.error)
    BY <1>4, AnswerKinds DEF Port!After
<1>7. Port!AcceptBeat
    BY <1>1, <1>4, <1>6, AnswerKinds DEF Port!AcceptBeat
<1>8. QED
    BY <1>4, <1>5, <1>7 DEF BusInv, InIdle

\* A cycle without an answer: a beat that is offered is held, memory is left
\* alone, and only a port with no beat may be offered one.
LEMMA SilentCycle ==
    ASSUME BusInv, NEW busReady \in BOOLEAN, NEW answer \in Answers \cup {Silence},
           BusCycle(busReady, answer), ~answer.valid
    PROVE  /\ BusInv' /\ mem' = mem /\ beat' = beat
           /\ IF port.valid THEN port' = port ELSE port' \in Port!Beats \cup {Port!NoBeat}
<1>1. ~MemReady(port, busReady, answer.valid)
    BY DEF MemReady, RspFireIdle, RspFireWait
<1>2. /\ mem' = mem /\ beat' = beat
      /\ IF port.valid THEN port' = port ELSE port' \in Port!Beats \cup {Port!NoBeat}
      /\ taken' = Waiting(busReady)
      /\ ShimTick(port, busReady, answer.valid)
    BY <1>1 DEF BusCycle
<1>3. port' \in Port!Beats \cup {Port!NoBeat}
    BY <1>2 DEF BusInv
<1>4. InIdle' \/ InWaitRsp'
    <2>1. CASE InWaitRsp
        BY <1>2, <2>1, RequestsOfCycle DEF InWaitRsp, ShimTick, ShimIdle, ShimWait, RequestOf
    <2>2. CASE InIdle /\ ReqFire(port, busReady)
        BY <1>2, <2>2, RequestsOfCycle
           DEF InIdle, InWaitRsp, ShimTick, ShimIdle, ShimWait, WaitForResponse, RequestOf
    <2>3. CASE InIdle /\ ~ReqFire(port, busReady)
        BY <1>2, <2>3, RequestsOfCycle
           DEF InIdle, ShimTick, ShimIdle, ShimWait, WaitForResponse, shimVars
    <2>4. QED
        BY <2>1, <2>2, <2>3 DEF BusInv
<1>5. QED
    BY <1>2, <1>3, <1>4 DEF BusInv

LEMMA BusCycleInv ==
    ASSUME BusInv, NEW busReady \in BOOLEAN, NEW answer \in Answers \cup {Silence},
           BusCycle(busReady, answer)
    PROVE  BusInv'
    BY AnsweredCycle, SilentCycle, AnswerKinds

LEMMA BusNextInv == BusInv /\ [BusNext]_busVars => BusInv'
<1> SUFFICES ASSUME BusInv, [BusNext]_busVars PROVE BusInv'
    OBVIOUS
<1>1. CASE BusReset
    BY <1>1, BusResetInv
<1>2. CASE UNCHANGED busVars
    BY <1>2 DEF busVars, shimVars, BusInv, InIdle, InWaitRsp, RequestOf
<1>3. QED
    BY <1>1, <1>2, BusCycleInv DEF BusNext

(***************************************************************************)
(* While spx_mem_master_shim_mock waits, the bus has the one request of    *)
(* the beat still offered, and otherwise none.                             *)
(***************************************************************************)
THEOREM OneRequest == BusSpec => []OneOutstanding
<1>1. BusInv => OneOutstanding
    BY DEF BusInv, InIdle, InWaitRsp, OneOutstanding, BusRequest
<1>2. QED
    BY <1>1, BusInitInv, BusNextInv, PTL DEF BusSpec

----------------------------------------------------------------------------
(***************************************************************************)
(* The simulation.                                                         *)
(***************************************************************************)
LEMMA StepIsPortStep ==
    ASSUME BusInv, [BusNext]_busVars
    PROVE  [Port!PortNext]_(Port!portVars)
<1>1. CASE BusReset
    BY <1>1 DEF BusReset, Port!PortNext, Port!Withdraw
<1>2. ASSUME NEW busReady \in BOOLEAN, NEW answer \in Answers \cup {Silence},
             BusCycle(busReady, answer)
      PROVE  [Port!PortNext]_(Port!portVars)
    <2>1. CASE answer.valid
        BY <1>2, <2>1, AnsweredCycle DEF Port!PortNext
    <2>2. CASE ~answer.valid
        <3>1. CASE port.valid
            BY <1>2, <2>2, <3>1, SilentCycle DEF Port!portVars
        <3>2. CASE ~port.valid
            <4>1. mem' = mem /\ beat' = beat /\ port' \in Port!Beats \cup {Port!NoBeat}
                BY <1>2, <2>2, <3>2, SilentCycle
            <4>2. QED
                BY <3>2, <4>1 DEF Port!PortNext, Port!OfferBeat, Port!Withdraw
        <3>3. QED
            BY <3>1, <3>2
    <2>3. QED
        BY <2>1, <2>2, AnswerKinds
<1>3. CASE UNCHANGED busVars
    BY <1>3 DEF busVars, Port!portVars
<1>4. QED
    BY <1>1, <1>2, <1>3 DEF BusNext

(***************************************************************************)
(* Shim and bus are the memory port as far as safety goes: a beat that is  *)
(* accepted was performed once, at that moment, with its own answer.       *)
(***************************************************************************)
THEOREM ShimIsPort == BusSpec => Port!PortInit /\ [][Port!PortNext]_(Port!portVars)
<1>1. BusInit => Port!PortInit
    BY DEF BusInit
<1>2. QED
    BY <1>1, BusInitInv, BusNextInv, StepIsPortStep, PTL DEF BusSpec
=============================================================================
