------------------------------ MODULE XifProof ------------------------------
(***************************************************************************)
(* The CV-X-IF adapter between any core and any unit that keep the         *)
(* protocol, for any set of ids and of instructions: nothing runs before   *)
(* its commit or twice, and a result is that of its own instruction.       *)
(***************************************************************************)
EXTENDS XifAlone, TLAPS

Outside == {"free", "rejected"}

\* The adapter has nothing to do with an id, and the unit never ran for it.
Aside(id) == cpu[id] \in Outside /\ ran[id] = 0

\* The instruction in the adapter is the one the core issued under its id.
Held(stage, count) ==
    /\ pending_q.id \in Ids
    /\ pending_q = asked[pending_q.id]
    /\ pending_q.we = (pending_q.rd # 0)
    /\ cpu[pending_q.id] = stage
    /\ ran[pending_q.id] = count
    /\ \A id \in Ids \ {pending_q.id} : Aside(id)

InIdle       == /\ xif_state_q = "IDLE"
                /\ \A id \in Ids : Aside(id)
                /\ ~unit.busy /\ ~result_valid_q
InWaitCommit == /\ xif_state_q = "WAIT_COMMIT"
                /\ Held("accepted", 0)
                /\ ~unit.busy /\ ~result_valid_q
InIssueDesc  == /\ xif_state_q = "ISSUE_DESC"
                /\ Held("committed", 0)
                /\ ~unit.busy /\ ~result_valid_q
InWaitResp   == /\ xif_state_q = "WAIT_DESC_RESP"
                /\ Held("committed", 1)
                /\ unit = [busy |-> TRUE, op |-> pending_q.op, rs1 |-> pending_q.rs1]
                /\ ~result_valid_q
InResult     == /\ xif_state_q = "RESULT"
                /\ Held("committed", 1)
                /\ ~unit.busy /\ result_valid_q
                /\ result_q.id = pending_q.id /\ result_q.rd = pending_q.rd
                /\ result_q.data = <<pending_q.op, pending_q.rs1>>
                /\ result_q.we = (pending_q.we /\ ~result_q.exc)

TypeInv ==
    /\ cpu \in [Ids -> {"free", "accepted", "rejected", "committed"}]
    /\ DOMAIN ran = Ids /\ DOMAIN asked = Ids
    /\ result_valid_q \in BOOLEAN

StageInv == InIdle \/ InWaitCommit \/ InIssueDesc \/ InWaitResp \/ InResult

Inv == TypeInv /\ StageInv

\* The wires of a cycle are those the core and the unit may drive.
Wires(issue, commit, ready, resp, take) ==
    /\ issue \in Issues \cup {NoIssue}
    /\ commit \in Commits \cup {NoCommit}
    /\ resp \in Responses \cup {NoResponse}
    /\ ready \in BOOLEAN /\ take \in BOOLEAN

----------------------------------------------------------------------------
LEMMA InitInv == Init => Inv
<1> SUFFICES ASSUME Init PROVE Inv
    OBVIOUS
<1>1. TypeInv
    BY DEF Init, XifInit, IdleUnit, TypeInv
<1>2. \A id \in Ids : Aside(id)
    BY DEF Init, Aside, Outside
<1>3. InIdle
    BY <1>2 DEF Init, XifInit, IdleUnit, InIdle
<1> QED
    BY <1>1, <1>3 DEF Inv, StageInv

LEMMA ResetInv == Reset => Inv'
<1> SUFFICES ASSUME Reset PROVE Inv'
    OBVIOUS
<1>1. TypeInv'
    BY DEF Reset, XifReset, IdleUnit, TypeInv
<1>2. \A id \in Ids : Aside(id)'
    BY DEF Reset, Aside, Outside
<1>3. InIdle'
    BY <1>2 DEF Reset, XifReset, IdleUnit, InIdle
<1> QED
    BY <1>1, <1>3 DEF Inv, StageInv

LEMMA CycleType ==
    ASSUME Inv, NEW issue, NEW commit, NEW ready, NEW resp, NEW take,
           Wires(issue, commit, ready, resp, take), Cycle(issue, commit, ready, resp, take)
    PROVE  TypeInv'
<1>1. \A id \in Ids : CpuNext(id, issue, commit, take)
                         \in {"free", "accepted", "rejected", "committed"}
    BY DEF Inv, TypeInv, CpuNext
<1>2. cpu' \in [Ids -> {"free", "accepted", "rejected", "committed"}]
    BY <1>1 DEF Cycle
<1>3. DOMAIN ran' = Ids /\ DOMAIN asked' = Ids
    BY DEF Cycle
<1>4. result_valid_q' \in BOOLEAN
    BY DEF Cycle, XifTick
<1> QED
    BY <1>2, <1>3, <1>4 DEF TypeInv

\* The facts about the wires the cases need.
LEMMA WireFacts ==
    ASSUME NEW issue, NEW commit, NEW ready, NEW resp, NEW take,
           Wires(issue, commit, ready, resp, take)
    PROVE  /\ issue.valid => issue.id \in Ids /\ cpu[issue.id] = "free"
           /\ commit.valid => /\ commit.id \in Ids
                              /\ cpu[commit.id] \in {"accepted", "rejected"}
           /\ resp.valid => unit.busy /\ resp.data = <<unit.op, unit.rs1>>
<1>1. issue.valid => issue.id \in Ids /\ cpu[issue.id] = "free"
    BY DEF Wires, Issues, NoIssue, Free
<1>2. commit.valid => /\ commit.id \in Ids
                      /\ cpu[commit.id] \in {"accepted", "rejected"}
  <2>1. commit \in Commits \/ commit = NoCommit
    BY DEF Wires
  <2>2. CASE commit \in Commits
    <3>1. commit.id \in Uncommitted
        BY <2>2 DEF Commits
    <3> QED
        BY <3>1 DEF Uncommitted
  <2>3. CASE commit = NoCommit
    BY <2>3 DEF NoCommit
  <2> QED
    BY <2>1, <2>2, <2>3
<1>3. resp.valid => unit.busy /\ resp.data = <<unit.op, unit.rs1>>
    BY DEF Wires, Responses, NoResponse
<1> QED
    BY <1>1, <1>2, <1>3

\* An id that has nothing to do with the adapter stays so, unless this cycle
\* issues under it and the adapter accepts.
LEMMA AsideStays ==
    ASSUME NEW issue, NEW commit, NEW ready, NEW resp, NEW take,
           Wires(issue, commit, ready, resp, take), Cycle(issue, commit, ready, resp, take),
           NEW id \in Ids, Aside(id), ~(IssueAccept(issue) /\ issue.id = id)
    PROVE  Aside(id)'
<1>1. cpu'[id] = CpuNext(id, issue, commit, take)
    BY DEF Cycle
<1>2. CpuNext(id, issue, commit, take) \in Outside
    BY WireFacts DEF CpuNext, Aside, Outside
<1>3. id \notin Outstanding
    BY DEF Outstanding, Aside, Outside
<1>4. ran'[id] = 0
    BY <1>3 DEF Cycle, Aside
<1> QED
    BY <1>1, <1>2, <1>4 DEF Aside

\* The instruction in the adapter keeps its place while nothing of this cycle
\* concerns it.
LEMMA HeldStays ==
    ASSUME NEW issue, NEW commit, NEW ready, NEW resp, NEW take,
           Wires(issue, commit, ready, resp, take), Cycle(issue, commit, ready, resp, take),
           NEW stage \in {"accepted", "committed"}, NEW count, Held(stage, count),
           NEW after, after = IF InstrFire(commit, ready) THEN count + 1 ELSE count,
           xif_state_q # "IDLE", pending_q' = pending_q,
           ~(commit.valid /\ commit.id = pending_q.id),
           ~(ResultFire(take) /\ result_q.id = pending_q.id)
    PROVE  Held(stage, after)'
<1> DEFINE p == pending_q.id
<1>1. p \in Ids /\ cpu[p] = stage /\ ran[p] = count
    BY DEF Held
<1>2. ~IssueAccept(issue)
    BY DEF IssueAccept
<1>3. cpu'[p] = stage
    BY <1>1, WireFacts DEF Cycle, CpuNext, IssueFire
<1>4. asked'[p] = asked[p]
    BY <1>1, <1>2, <1>3 DEF Cycle
<1>5. p \in Outstanding
    BY <1>1 DEF Outstanding
<1>6. ran'[p] = after
    BY <1>1, <1>3, <1>5 DEF Cycle
<1>7. \A id \in Ids \ {p} : Aside(id)'
    BY <1>2, AsideStays DEF Held
<1> QED
    BY <1>1, <1>3, <1>4, <1>6, <1>7 DEF Held

\* An instruction that leaves the adapter leaves it with nothing to do.
LEMMA AllAside ==
    ASSUME NEW issue, NEW commit, NEW ready, NEW resp, NEW take,
           Wires(issue, commit, ready, resp, take), Cycle(issue, commit, ready, resp, take),
           NEW stage \in {"accepted", "committed"}, NEW count, Held(stage, count),
           xif_state_q # "IDLE", CpuNext(pending_q.id, issue, commit, take) = "free"
    PROVE  \A id \in Ids : Aside(id)'
<1> DEFINE p == pending_q.id
<1>1. p \in Ids /\ cpu'[p] = "free"
    BY DEF Held, Cycle
<1>2. ran'[p] = 0
    BY <1>1 DEF Cycle
<1>3. ~IssueAccept(issue)
    BY DEF IssueAccept
<1>4. \A id \in Ids \ {p} : Aside(id)'
    BY <1>3, AsideStays DEF Held
<1> QED
    BY <1>1, <1>2, <1>4 DEF Aside, Outside

----------------------------------------------------------------------------
(***************************************************************************)
(* One lemma per state of the adapter: what a cycle makes of it.           *)
(***************************************************************************)
LEMMA IdleStep ==
    ASSUME NEW issue, NEW commit, NEW ready, NEW resp, NEW take,
           Wires(issue, commit, ready, resp, take), Cycle(issue, commit, ready, resp, take),
           InIdle
    PROVE  InIdle' \/ InWaitCommit'
<1>1. ~InstrFire(commit, ready) /\ ~resp.valid
    BY WireFacts DEF InIdle, InstrFire, InstrValid, CommitTake, CommitMatch
<1>2. unit' = unit
    BY <1>1 DEF Cycle
<1>3. Idle(issue) /\ ~result_valid_q'
    BY DEF Cycle, XifTick, InIdle, Idle, WaitCommit, IssueDesc, WaitDescResp, HoldResult
<1>4. CASE ~IssueAccept(issue)
  <2>1. \A id \in Ids : Aside(id)'
    BY <1>4, AsideStays DEF InIdle
  <2>2. xif_state_q' = "IDLE"
    BY <1>3, <1>4 DEF Idle
  <2> QED
    BY <2>1, <2>2, <1>2, <1>3 DEF InIdle
<1>5. CASE IssueAccept(issue)
  <2> DEFINE i == issue.id
  <2>1. i \in Ids /\ ran[i] = 0
    BY <1>5, WireFacts DEF IssueAccept, InIdle, Aside
  <2>2. cpu'[i] = "accepted"
    BY <1>5, <2>1 DEF Cycle, CpuNext, IssueFire, IssueReady, IssueAccept
  <2>3. ran'[i] = 0 /\ asked'[i] = Pending(issue)
    BY <1>1, <1>5, <2>1, <2>2 DEF Cycle
  <2>4. xif_state_q' = "WAIT_COMMIT" /\ pending_q' = Pending(issue)
    BY <1>3, <1>5 DEF Idle
  <2>5. pending_q'.id = i /\ pending_q'.we = (pending_q'.rd # 0)
    BY <2>4 DEF Pending
  <2>6. \A id \in Ids \ {i} : Aside(id)'
    BY AsideStays DEF InIdle
  <2>7. Held("accepted", 0)'
    BY <2>1, <2>2, <2>3, <2>4, <2>5, <2>6 DEF Held
  <2> QED
    BY <2>4, <2>7, <1>2, <1>3 DEF InWaitCommit, InIdle
<1> QED
    BY <1>4, <1>5

LEMMA WaitCommitStep ==
    ASSUME NEW issue, NEW commit, NEW ready, NEW resp, NEW take,
           Wires(issue, commit, ready, resp, take), Cycle(issue, commit, ready, resp, take),
           InWaitCommit
    PROVE  InWaitCommit' \/ InIdle' \/ InIssueDesc' \/ InWaitResp'
<1> DEFINE p == pending_q.id
<1>1. /\ WaitCommit(commit, ready)
      /\ ~result_valid_q' /\ pending_q' = pending_q /\ ~resp.valid
    BY WireFacts
       DEF Cycle, XifTick, InWaitCommit, Idle, WaitCommit, IssueDesc, WaitDescResp, HoldResult
<1>2. ~ResultFire(take) /\ xif_state_q # "IDLE" /\ ~IssueAccept(issue)
    BY DEF InWaitCommit, ResultFire, IssueAccept
<1>3. p \in Ids /\ cpu[p] = "accepted" /\ ran[p] = 0
    BY DEF InWaitCommit, Held
<1>4. CASE ~CommitMatch(commit)
  <2>1. ~InstrFire(commit, ready) /\ ~(commit.valid /\ commit.id = p)
    BY <1>4 DEF InstrFire, InstrValid, CommitTake, CommitMatch, InWaitCommit
  <2>2. Held("accepted", 0)'
    BY <1>1, <1>2, <2>1, HeldStays DEF InWaitCommit
  <2>3. unit' = unit /\ xif_state_q' = "WAIT_COMMIT"
    BY <1>1, <1>4, <2>1 DEF Cycle, WaitCommit
  <2> QED
    BY <2>2, <2>3, <1>1 DEF InWaitCommit
<1>5. ASSUME CommitMatch(commit) PROVE ~(IssueFire(issue) /\ issue.id = p)
    BY <1>3, WireFacts DEF IssueFire
<1>6. CASE CommitMatch(commit) /\ commit.kill
  <2>1. ~InstrFire(commit, ready)
    BY <1>6 DEF InstrFire, InstrValid, CommitTake, InWaitCommit
  <2>2. CpuNext(p, issue, commit, take) = "free"
    BY <1>5, <1>6 DEF CpuNext, CommitMatch
  <2>3. \A id \in Ids : Aside(id)'
    BY <1>2, <2>2, AllAside DEF InWaitCommit
  <2>4. unit' = unit /\ xif_state_q' = "IDLE"
    BY <1>1, <1>6, <2>1 DEF Cycle, WaitCommit
  <2> QED
    BY <2>3, <2>4, <1>1 DEF InIdle, InWaitCommit
<1>7. CASE CommitMatch(commit) /\ ~commit.kill
  <2>1. cpu'[p] = "committed"
    BY <1>3, <1>5, <1>7 DEF Cycle, CpuNext, CommitMatch
  <2>2. asked'[p] = asked[p]
    BY <1>2, <1>3, <2>1 DEF Cycle
  <2>3. \A id \in Ids \ {p} : Aside(id)'
    BY <1>2, AsideStays DEF InWaitCommit, Held
  <2>4. ran'[p] = IF InstrFire(commit, ready) THEN 1 ELSE 0
    BY <1>3, <2>1 DEF Cycle, Outstanding
  <2>5. CASE InstrFire(commit, ready)
    <3>1. Held("committed", 1)'
        BY <1>1, <1>3, <2>1, <2>2, <2>3, <2>4, <2>5 DEF Held, InWaitCommit
    <3>2. xif_state_q' = "WAIT_DESC_RESP"
        BY <1>1, <1>7, <2>5 DEF WaitCommit, AfterCommit
    <3>3. unit' = [busy |-> TRUE, op |-> pending_q.op, rs1 |-> pending_q.rs1]
        BY <2>5 DEF Cycle
    <3> QED
        BY <3>1, <3>2, <3>3, <1>1 DEF InWaitResp
  <2>6. CASE ~InstrFire(commit, ready)
    <3>1. Held("committed", 0)'
        BY <1>1, <1>3, <2>1, <2>2, <2>3, <2>4, <2>6 DEF Held, InWaitCommit
    <3>2. xif_state_q' = "ISSUE_DESC" /\ unit' = unit
        BY <1>1, <1>7, <2>6 DEF WaitCommit, AfterCommit, Cycle
    <3> QED
        BY <3>1, <3>2, <1>1 DEF InIssueDesc, InWaitCommit
  <2> QED
    BY <2>5, <2>6
<1> QED
    BY <1>4, <1>6, <1>7

LEMMA IssueDescStep ==
    ASSUME NEW issue, NEW commit, NEW ready, NEW resp, NEW take,
           Wires(issue, commit, ready, resp, take), Cycle(issue, commit, ready, resp, take),
           InIssueDesc
    PROVE  InIssueDesc' \/ InWaitResp'
<1>1. /\ IssueDesc(commit, ready)
      /\ ~result_valid_q' /\ pending_q' = pending_q /\ ~resp.valid
    BY WireFacts
       DEF Cycle, XifTick, InIssueDesc, Idle, WaitCommit, IssueDesc, WaitDescResp, HoldResult
<1>2. ~ResultFire(take) /\ xif_state_q # "IDLE"
    BY DEF InIssueDesc, ResultFire
<1>3. ~(commit.valid /\ commit.id = pending_q.id)
    BY WireFacts DEF InIssueDesc, Held
<1>4. CASE InstrFire(commit, ready)
  <2>1. Held("committed", 1)'
    BY <1>1, <1>2, <1>3, <1>4, HeldStays DEF InIssueDesc
  <2>2. /\ xif_state_q' = "WAIT_DESC_RESP"
        /\ unit' = [busy |-> TRUE, op |-> pending_q.op, rs1 |-> pending_q.rs1]
    BY <1>1, <1>4 DEF IssueDesc, Cycle
  <2> QED
    BY <2>1, <2>2, <1>1 DEF InWaitResp
<1>5. CASE ~InstrFire(commit, ready)
  <2>1. Held("committed", 0)'
    BY <1>1, <1>2, <1>3, <1>5, HeldStays DEF InIssueDesc
  <2>2. xif_state_q' = "ISSUE_DESC" /\ unit' = unit
    BY <1>1, <1>5 DEF IssueDesc, Cycle
  <2> QED
    BY <2>1, <2>2, <1>1 DEF InIssueDesc
<1> QED
    BY <1>4, <1>5

LEMMA WaitRespStep ==
    ASSUME NEW issue, NEW commit, NEW ready, NEW resp, NEW take,
           Wires(issue, commit, ready, resp, take), Cycle(issue, commit, ready, resp, take),
           InWaitResp
    PROVE  InWaitResp' \/ InResult'
<1>1. WaitDescResp(resp) /\ pending_q' = pending_q
    BY DEF Cycle, XifTick, InWaitResp, Idle, WaitCommit, IssueDesc, WaitDescResp, HoldResult
<1>2. ~ResultFire(take) /\ xif_state_q # "IDLE" /\ ~InstrFire(commit, ready)
    BY DEF InWaitResp, ResultFire, InstrFire, InstrValid, CommitTake, CommitMatch
<1>3. ~(commit.valid /\ commit.id = pending_q.id)
    BY WireFacts DEF InWaitResp, Held
<1>4. Held("committed", 1)'
    BY <1>1, <1>2, <1>3, HeldStays DEF InWaitResp
<1>5. CASE ~resp.valid
  <2>1. unit' = unit /\ xif_state_q' = "WAIT_DESC_RESP" /\ ~result_valid_q'
    BY <1>1, <1>2, <1>5 DEF Cycle, XifTick, WaitDescResp, InWaitResp
  <2> QED
    BY <2>1, <1>1, <1>4 DEF InWaitResp
<1>6. CASE resp.valid
  <2>1. /\ ~unit'.busy /\ xif_state_q' = "RESULT" /\ result_valid_q'
        /\ result_q' = Result(resp)
    BY <1>1, <1>2, <1>6 DEF Cycle, XifTick, WaitDescResp, InWaitResp, IdleUnit
  <2>2. resp.data = <<pending_q.op, pending_q.rs1>>
    BY <1>6, WireFacts DEF InWaitResp
  <2>3. /\ result_q'.id = pending_q.id /\ result_q'.rd = pending_q.rd
        /\ result_q'.data = <<pending_q.op, pending_q.rs1>>
        /\ result_q'.we = (pending_q.we /\ ~result_q'.exc)
    BY <2>1, <2>2 DEF Result
  <2> QED
    BY <2>1, <2>3, <1>1, <1>4 DEF InResult
<1> QED
    BY <1>5, <1>6

LEMMA ResultStep ==
    ASSUME NEW issue, NEW commit, NEW ready, NEW resp, NEW take,
           Wires(issue, commit, ready, resp, take), Cycle(issue, commit, ready, resp, take),
           InResult
    PROVE  InResult' \/ InIdle'
<1>1. HoldResult(take) /\ pending_q' = pending_q /\ result_q' = result_q /\ ~resp.valid
    BY WireFacts
       DEF Cycle, XifTick, InResult, Idle, WaitCommit, IssueDesc, WaitDescResp, HoldResult
<1>2. ~InstrFire(commit, ready) /\ xif_state_q # "IDLE"
    BY DEF InResult, InstrFire, InstrValid
<1>3. unit' = unit
    BY <1>1, <1>2 DEF Cycle
<1>4. CASE ~ResultFire(take)
  <2>1. ~(commit.valid /\ commit.id = pending_q.id)
    BY WireFacts DEF InResult, Held
  <2>2. Held("committed", 1)'
    BY <1>1, <1>2, <1>4, <2>1, HeldStays DEF InResult
  <2>3. xif_state_q' = "RESULT" /\ result_valid_q'
    BY <1>1, <1>4 DEF HoldResult, Cycle, XifTick, InResult
  <2> QED
    BY <2>2, <2>3, <1>1, <1>3 DEF InResult
<1>5. CASE ResultFire(take)
  <2>1. cpu[pending_q.id] = "committed" /\ pending_q.id \in Ids
    BY DEF InResult, Held
  <2>2. CpuNext(pending_q.id, issue, commit, take) = "free"
    BY <1>5, <2>1, WireFacts DEF CpuNext, InResult, IssueFire
  <2>3. \A id \in Ids : Aside(id)'
    BY <1>2, <2>2, AllAside DEF InResult
  <2>4. xif_state_q' = "IDLE" /\ ~result_valid_q'
    BY <1>1, <1>5 DEF HoldResult, Cycle, XifTick, InResult
  <2> QED
    BY <2>3, <2>4, <1>3 DEF InIdle, InResult
<1> QED
    BY <1>4, <1>5

----------------------------------------------------------------------------
LEMMA CycleInv ==
    ASSUME NEW issue, NEW commit, NEW ready, NEW resp, NEW take,
           Wires(issue, commit, ready, resp, take), Cycle(issue, commit, ready, resp, take),
           Inv
    PROVE  Inv'
<1>1. TypeInv'
    BY CycleType
<1>2. StageInv'
    BY IdleStep, WaitCommitStep, IssueDescStep, WaitRespStep, ResultStep DEF Inv, StageInv
<1> QED
    BY <1>1, <1>2 DEF Inv

LEMMA NextInv == Inv /\ [Next]_vars => Inv'
<1> SUFFICES ASSUME Inv, [Next]_vars PROVE Inv'
    OBVIOUS
<1>1. ASSUME NEW resp \in Responses \cup {NoResponse}, NEW ready \in BOOLEAN,
             NEW take \in BOOLEAN, AnyCycle(ready, resp, take)
      PROVE  Inv'
  <2>1. PICK issue \in Issues \cup {NoIssue}, commit \in Commits \cup {NoCommit} :
            Cycle(issue, commit, ready, resp, take)
    BY <1>1 DEF AnyCycle
  <2>2. ready \in BOOLEAN /\ take \in BOOLEAN
    OBVIOUS
  <2>3. Wires(issue, commit, ready, resp, take)
    BY <2>2, Zenon DEF Wires
  <2> QED
    BY <2>1, <2>3, CycleInv
<1>2. CASE Reset
    BY <1>2, ResetInv
<1>3. CASE UNCHANGED vars
    BY <1>3 DEF vars, xifVars, Inv, TypeInv, StageInv, InIdle, InWaitCommit, InIssueDesc,
                InWaitResp, InResult, Held, Aside
<1> QED
    BY <1>1, <1>2, <1>3 DEF Next

LEMMA AlwaysInv == Spec => []Inv
    BY InitInv, NextInv, PTL DEF Spec

(***************************************************************************)
(* With any ids and any instructions, and commits and kills of other ids   *)
(* passing by, the unit runs nothing before its commit and nothing twice.  *)
(***************************************************************************)
THEOREM RunsOnce == Spec => []RunsOnceAfterCommit
<1>1. Inv => RunsOnceAfterCommit
  <2> SUFFICES ASSUME Inv, NEW id \in Outstanding
               PROVE  ran[id] <= IF cpu[id] = "committed" THEN 1 ELSE 0
    BY DEF RunsOnceAfterCommit
  <2>1. id \in Ids /\ ~Aside(id)
    BY DEF Outstanding, Aside, Outside
  <2>2. ~InIdle
    BY <2>1 DEF InIdle
  <2>3. ASSUME NEW stage, NEW count, Held(stage, count)
        PROVE  cpu[id] = stage /\ ran[id] = count
    BY <2>1, <2>3 DEF Held
  <2> QED
    BY <2>2, <2>3 DEF Inv, StageInv, InWaitCommit, InIssueDesc, InWaitResp, InResult
<1> QED
    BY <1>1, AlwaysInv, PTL

(***************************************************************************)
(* Every result offered is that of the committed instruction of its id:    *)
(* its register, its data, and written back unless the unit refused.       *)
(***************************************************************************)
THEOREM ResultsOwn == Spec => []ResultIsOwn
<1>1. Inv => ResultIsOwn
  <2> SUFFICES ASSUME Inv, result_valid_q
               PROVE  LET id == result_q.id IN
                      /\ cpu[id] = "committed" /\ ran[id] = 1
                      /\ result_q.data = <<asked[id].op, asked[id].rs1>>
                      /\ result_q.rd = asked[id].rd
                      /\ result_q.we <=> asked[id].rd # 0 /\ ~result_q.exc
    BY DEF ResultIsOwn
  <2>1. InResult
    BY DEF Inv, StageInv, InIdle, InWaitCommit, InIssueDesc, InWaitResp
  <2> QED
    BY <2>1 DEF InResult, Held
<1> QED
    BY <1>1, AlwaysInv, PTL
=============================================================================
