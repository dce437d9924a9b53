---------------------------- MODULE WotsChainX4Proof ----------------------------
(***************************************************************************)
(* The chain machine over any engine that keeps the promise of             *)
(* ThashServer, for any digest function and any set of jobs: four chains   *)
(* walked in lockstep are four scalar chains.                              *)
(***************************************************************************)
EXTENDS WotsChainX4Alone, SequenceTheorems, TLAPS

Elements(s) == {s[k] : k \in DOMAIN s}

\* The job at work has windows in range.
WindowFits ==
    wots_state_q # "IDLE" => /\ wots_job.start \in [Lane -> Nat]
                             /\ wots_job.num \in [Lane -> Nat]
                             /\ StartConfigOk(wots_job)

TrailsAreSequences ==
    \A l \in Lane : /\ wots_trail[l] \in Seq(Elements(wots_trail[l]))
                    /\ wots_trail[l] # <<>>

\* A lane has taken the steps that are no longer left, and holds the last
\* of its chain values.
TrailFollowsCount ==
    wots_state_q # "IDLE" =>
        \A l \in Lane :
            /\ Len(wots_trail[l]) = wots_job.num[l] - steps_left_q[l] + 1
            /\ chain_q[l] = wots_trail[l][Len(wots_trail[l])]

\* The engine works on, or has just answered, the machine's present request,
\* and does neither while the machine does not wait.
EngineInStep ==
    /\ wots_state_q # "WAIT_THASH" => pending = None /\ ~answered
    /\ wots_state_q = "WAIT_THASH" =>
          \/ ~answered /\ pending = AbsorbX4(WotsRequest)
          \/ answered /\ pending = None /\ answer = ThashX4(WotsRequest)

MachineInv ==
    /\ RequestIsNextStep /\ ChainsAreScalar /\ DoneIsEndOfChain
    /\ WindowFits /\ TrailsAreSequences /\ TrailFollowsCount

Inv == TypeOK /\ MachineInv /\ EngineInStep

----------------------------------------------------------------------------
\* Replacing the hash step twice is replacing it once.
LEMMA HashStepReplaced ==
    ASSUME NEW addr, NEW s, NEW t
    PROVE  AddrWithHash(AddrWithHash(addr, s), t) = AddrWithHash(addr, t)
    BY DEF AddrWithHash

\* A trail of one value.
LEMMA FirstOfTrail ==
    ASSUME NEW v
    PROVE  /\ <<v>> \in Seq(Elements(<<v>>)) /\ <<v>> # <<>>
           /\ Len(<<v>>) = 1 /\ <<v>>[1] = v
<1>1. <<v>> \in Seq({v}) /\ Len(<<v>>) = 1 /\ <<v>>[1] = v
    OBVIOUS
<1>2. Elements(<<v>>) = {v}
    BY <1>1 DEF Elements
<1> QED
    BY <1>1, <1>2

\* A trail that grows by one value.
LEMMA NextOfTrail ==
    ASSUME NEW s, s \in Seq(Elements(s)), NEW v
    PROVE  /\ Append(s, v) \in Seq(Elements(Append(s, v)))
           /\ Append(s, v) # <<>>
           /\ Len(Append(s, v)) = Len(s) + 1
           /\ \A k \in 1 .. Len(s) : Append(s, v)[k] = s[k]
           /\ Append(s, v)[Len(s) + 1] = v
<1> DEFINE S == Elements(s) \cup {v}
           t == Append(s, v)
<1>1. s \in Seq(S)
    <2>1. Elements(s) \subseteq S
        OBVIOUS
    <2> HIDE DEF S
    <2> QED
        BY <2>1, SeqMonotonic
<1>2. v \in S
    OBVIOUS
<1> HIDE DEF S
<1>3. /\ t \in Seq(S) /\ t # <<>>
      /\ Len(t) = Len(s) + 1
      /\ \A k \in 1 .. Len(s) : t[k] = s[k]
      /\ t[Len(s) + 1] = v
    BY <1>1, <1>2, AppendProperties
<1> HIDE DEF t
<1>4. t \in Seq(Elements(t))
    BY <1>3 DEF Elements
<1> QED
    BY <1>3, <1>4 DEF t

----------------------------------------------------------------------------
(***************************************************************************)
(* The types.                                                              *)
(***************************************************************************)
Bits     == wots_done \in BOOLEAN /\ wots_error \in BOOLEAN
Counters == /\ wots_state_q \in {"IDLE", "START_THASH", "WAIT_THASH"}
            /\ step_q \in [Lane -> 0 .. SPX_WOTS_W]
            /\ steps_left_q \in [Lane -> 0 .. SPX_WOTS_W - 1]

LEMMA TypeParts == TypeOK <=> Bits /\ Counters
    BY Zenon DEF TypeOK, Bits, Counters

LEMMA TickBits ==
    ASSUME Bits, NEW start \in BOOLEAN, NEW job, NEW ready, NEW valid, NEW rsp,
           WotsTick(start, job, ready, valid, rsp)
    PROVE  Bits'
<1>1. CASE WotsQuietTick(start)
    BY <1>1, Zenon DEF WotsQuietTick, Bits
<1>2. CASE WotsRefuseTick(start, job)
    BY <1>2, Zenon DEF WotsRefuseTick, Bits
<1>3. CASE WotsCopyTick(start, job)
    BY <1>3, Zenon DEF WotsCopyTick, Bits
<1>4. CASE WotsBeginTick(start, job)
    BY <1>4, Zenon DEF WotsBeginTick, Bits
<1>5. CASE WotsRequestTick(ready)
    BY <1>5, Zenon DEF WotsRequestTick, Bits
<1>6. CASE WotsWaitTick(valid)
    BY <1>6, Zenon DEF WotsWaitTick, Bits
<1>7. CASE WotsResponseTick(valid, rsp)
    <2>1. AllStepsDoneNext \in BOOLEAN
        BY Zenon DEF AllStepsDoneNext
    <2> QED
        BY <1>7, <2>1, Zenon DEF WotsResponseTick, Bits
<1> QED
    BY <1>1, <1>2, <1>3, <1>4, <1>5, <1>6, <1>7, Zenon DEF WotsTick

----------------------------------------------------------------------------
(***************************************************************************)
(* What each tick of the machine does to the invariant.                    *)
(***************************************************************************)
\* A tick that moves no register but the state, and not out of IDLE.
StoodStill ==
    /\ wots_done' = FALSE
    /\ \/ wots_state_q' = wots_state_q
       \/ wots_state_q = "START_THASH" /\ wots_state_q' = "WAIT_THASH"
    /\ UNCHANGED <<wots_error, wotsRegs, wots_out, wots_job, wots_trail>>

LEMMA StandStill ==
    ASSUME Counters, MachineInv, StoodStill
    PROVE  Counters' /\ MachineInv'
<1>1. /\ UNCHANGED <<wots_pub_seed_q, wots_addr_q, chain_q, step_q, steps_left_q,
                     wots_job, wots_trail, wots_out, wots_error>>
      /\ wots_state_q' # "IDLE" => wots_state_q # "IDLE"
    BY DEF StoodStill, wotsRegs
<1>2. Counters'
    BY <1>1 DEF Counters, StoodStill
<1>3. RequestIsNextStep'
    BY <1>1 DEF MachineInv, RequestIsNextStep, Active
<1>4. ChainsAreScalar'
    BY <1>1 DEF MachineInv, ChainsAreScalar
<1>5. DoneIsEndOfChain'
    BY DEF StoodStill, DoneIsEndOfChain
<1>6. WindowFits'
    BY <1>1 DEF MachineInv, WindowFits, StartConfigOk
<1>7. TrailsAreSequences'
    BY <1>1 DEF MachineInv, TrailsAreSequences
<1>8. TrailFollowsCount'
    BY <1>1 DEF MachineInv, TrailFollowsCount
<1> QED
    BY <1>2, <1>3, <1>4, <1>5, <1>6, <1>7, <1>8 DEF MachineInv

\* What the trails of a job just taken have.
LEMMA Remembered ==
    ASSUME NEW job, WotsRemember(job)
    PROVE  /\ wots_job' = job
           /\ \A l \in Lane : /\ Len(wots_trail'[l]) = 1
                               /\ wots_trail'[l][1] = job.in[l]
           /\ ChainsAreScalar'
           /\ TrailsAreSequences'
<1>1. wots_job' = job /\ \A l \in Lane : wots_trail'[l] = <<job.in[l]>>
    BY DEF WotsRemember
<1>2. \A l \in Lane : /\ Len(wots_trail'[l]) = 1
                      /\ wots_trail'[l][1] = job.in[l]
    BY <1>1, FirstOfTrail
<1>3. ChainsAreScalar'
    BY <1>1, <1>2 DEF ChainsAreScalar
<1>4. TrailsAreSequences'
    <2> SUFFICES ASSUME NEW l \in Lane
                 PROVE  /\ wots_trail'[l] \in Seq(Elements(wots_trail'[l]))
                        /\ wots_trail'[l] # <<>>
        BY DEF TrailsAreSequences, Elements
    <2> DEFINE v == job.in[l]
    <2>1. wots_trail'[l] = <<v>>
        BY <1>1
    <2>2. <<v>> \in Seq(Elements(<<v>>)) /\ <<v>> # <<>>
        BY FirstOfTrail
    <2> QED
        BY <2>1, <2>2
<1> QED
    BY <1>1, <1>2, <1>3, <1>4

\* A job refused or copied: the machine stays in IDLE.
LEMMA AnsweredAtOnce ==
    ASSUME Counters, NEW start, NEW job \in Jobs,
           WotsRefuseTick(start, job) \/ WotsCopyTick(start, job)
    PROVE  Counters' /\ MachineInv' /\ wots_state_q' = "IDLE"
<1>1. /\ wots_state_q' = "IDLE" /\ WotsRemember(job)
      /\ UNCHANGED <<step_q, steps_left_q>>
    BY DEF WotsRefuseTick, WotsCopyTick, wotsRegs
<1>2. Counters'
    BY <1>1 DEF Counters
<1>3. DoneIsEndOfChain'
    <2>1. CASE WotsRefuseTick(start, job)
        BY <2>1 DEF WotsRefuseTick, DoneIsEndOfChain
    <2>2. CASE WotsCopyTick(start, job)
        <3>1. wots_out' = job.in /\ \A l \in Lane : job.num[l] = 0
            BY <2>2 DEF WotsCopyTick, AnyStepsRequested
        <3> QED
            BY <1>1, <3>1, Remembered DEF DoneIsEndOfChain
    <2> QED
        BY <2>1, <2>2
<1>4. RequestIsNextStep' /\ WindowFits' /\ TrailFollowsCount'
    BY <1>1 DEF RequestIsNextStep, WindowFits, TrailFollowsCount
<1> QED
    BY <1>1, <1>2, <1>3, <1>4, Remembered DEF MachineInv

LEMMA Begun ==
    ASSUME Counters, NEW start, NEW job \in Jobs, WotsBeginTick(start, job)
    PROVE  Counters' /\ MachineInv' /\ wots_state_q' = "START_THASH"
<1>1. /\ wots_state_q' = "START_THASH" /\ wots_done' = FALSE
      /\ wots_pub_seed_q' = job.seed /\ wots_addr_q' = AddrBegin(job)
      /\ chain_q' = job.in /\ step_q' = job.start /\ steps_left_q' = job.num
      /\ StartConfigOk(job) /\ AnyStepsRequested(job) /\ WotsRemember(job)
    BY DEF WotsBeginTick
<1>2. job.start \in [Lane -> Nat] /\ job.num \in [Lane -> Nat]
    <2>1. \A f : f \in [Lane -> Byte] => f \in [Lane -> Nat]
        BY DEF Byte
    <2> QED
        BY <2>1, JobsAssumption
<1>3. \A l \in Lane : job.start[l] <= 16 /\ job.num[l] <= 15 /\ job.start[l] + job.num[l] <= 16
    BY <1>1 DEF StartConfigOk, SPX_WOTS_W
<1>4. Counters'
    <2> DEFINE starts == job.start
               nums == job.num
    <2>1. /\ step_q' = starts /\ steps_left_q' = nums
          /\ starts \in [Lane -> Nat] /\ nums \in [Lane -> Nat]
          /\ \A l \in Lane : starts[l] <= 16 /\ nums[l] <= 15
        BY <1>1, <1>2, <1>3
    <2> HIDE DEF starts, nums
    <2> QED
        BY <1>1, <2>1 DEF Counters, SPX_WOTS_W
<1>5. wots_job' = job
    BY <1>1, Remembered
<1>6. RequestIsNextStep'
    <2>1. \E l \in Lane : job.num[l] # 0
        BY <1>1 DEF AnyStepsRequested
    <2>2. \A l \in Lane : wots_addr_q'[l] = AddrWithHash(job.addr[l], job.start[l])
        BY <1>1 DEF AddrBegin
    <2>3. \A l \in Lane : job.start[l] = job.start[l] + job.num[l] - job.num[l]
        BY <1>2
    <2>4. \A l \in Lane : job.num[l] # 0 => job.start[l] < SPX_WOTS_W
        BY <1>2, <1>3 DEF SPX_WOTS_W
    <2>5. \A l \in Lane : job.num[l] \in 0 .. job.num[l]
        BY <1>2
    <2> QED
        BY <1>1, <1>5, <2>1, <2>2, <2>3, <2>4, <2>5 DEF RequestIsNextStep, Active
<1>7. WindowFits'
    BY <1>1, <1>2, <1>5 DEF WindowFits, StartConfigOk
<1>8. TrailFollowsCount'
    <2> SUFFICES ASSUME NEW l \in Lane
                 PROVE  /\ Len(wots_trail'[l]) = wots_job'.num[l] - steps_left_q'[l] + 1
                        /\ chain_q'[l] = wots_trail'[l][Len(wots_trail'[l])]
        BY DEF TrailFollowsCount
    <2>1. Len(wots_trail'[l]) = 1 /\ wots_trail'[l][1] = job.in[l]
        BY <1>1, Remembered
    <2> QED
        BY <1>1, <1>2, <1>5, <2>1
<1>9. DoneIsEndOfChain'
    BY <1>1 DEF DoneIsEndOfChain
<1> QED
    BY <1>1, <1>4, <1>6, <1>7, <1>8, <1>9, Remembered DEF MachineInv

(***************************************************************************)
(* A response: rsp holds the thash of the request offered before.          *)
(***************************************************************************)
Answered(rsp) == /\ wots_state_q = "WAIT_THASH"
                 /\ WotsResponseTick(TRUE, rsp)
                 /\ rsp = ThashX4(WotsRequest)

\* What is known of one lane before the response.
LEMMA LaneBefore ==
    ASSUME Counters, MachineInv, wots_state_q = "WAIT_THASH", NEW l \in Lane
    PROVE  /\ wots_job.start[l] \in Nat /\ wots_job.num[l] \in Nat
           /\ wots_job.start[l] + wots_job.num[l] <= 16
           /\ steps_left_q[l] \in 0 .. 15 /\ step_q[l] \in 0 .. 16
           /\ steps_left_q[l] <= wots_job.num[l]
           /\ step_q[l] = wots_job.start[l] + wots_job.num[l] - steps_left_q[l]
           /\ Active(l) => wots_addr_q[l] = AddrWithHash(wots_job.addr[l], step_q[l])
           /\ wots_trail[l] \in Seq(Elements(wots_trail[l])) /\ wots_trail[l] # <<>>
           /\ Len(wots_trail[l]) = wots_job.num[l] - steps_left_q[l] + 1
           /\ chain_q[l] = wots_trail[l][Len(wots_trail[l])]
<1>1. /\ wots_job.start \in [Lane -> Nat] /\ wots_job.num \in [Lane -> Nat]
      /\ StartConfigOk(wots_job)
    BY DEF MachineInv, WindowFits
<1>2. wots_job.start[l] + wots_job.num[l] <= 16
    BY <1>1 DEF StartConfigOk, SPX_WOTS_W
<1>3. steps_left_q[l] \in 0 .. 15 /\ step_q[l] \in 0 .. 16
    BY DEF Counters, SPX_WOTS_W
<1>4. wots_job.start[l] \in Nat /\ wots_job.num[l] \in Nat
    BY <1>1
<1>5. steps_left_q[l] <= wots_job.num[l]
    <2>1. steps_left_q[l] \in 0 .. wots_job.num[l]
        BY DEF MachineInv, RequestIsNextStep
    <2> QED
        BY <1>4, <2>1
<1>6. /\ step_q[l] = wots_job.start[l] + wots_job.num[l] - steps_left_q[l]
      /\ Active(l) => wots_addr_q[l] = AddrWithHash(wots_job.addr[l], step_q[l])
    BY DEF MachineInv, RequestIsNextStep
<1>7. wots_trail[l] \in Seq(Elements(wots_trail[l])) /\ wots_trail[l] # <<>>
    BY DEF MachineInv, TrailsAreSequences
<1>8. /\ Len(wots_trail[l]) = wots_job.num[l] - steps_left_q[l] + 1
      /\ chain_q[l] = wots_trail[l][Len(wots_trail[l])]
    BY DEF MachineInv, TrailFollowsCount
<1> QED
    BY <1>1, <1>2, <1>3, <1>4, <1>5, <1>6, <1>7, <1>8

\* What the response does to the registers of one lane.
LEMMA LaneAfter ==
    ASSUME NEW rsp, Answered(rsp), NEW l \in Lane
    PROVE  /\ steps_left_q'[l] = IF Active(l) THEN steps_left_q[l] - 1 ELSE steps_left_q[l]
           /\ step_q'[l] = IF Active(l) THEN step_q[l] + 1 ELSE step_q[l]
           /\ chain_q'[l] = IF Active(l) THEN rsp[l] ELSE chain_q[l]
           /\ wots_addr_q'[l] = IF steps_left_q'[l] # 0
                                THEN AddrWithHash(wots_addr_q[l], step_q'[l]) ELSE wots_addr_q[l]
           /\ wots_trail'[l] = IF Active(l) THEN Append(wots_trail[l], rsp[l]) ELSE wots_trail[l]
<1>1. /\ steps_left_q' = StepsLeftNext /\ step_q' = StepNext
      /\ chain_q' = ChainNext(rsp) /\ wots_addr_q' = AddrNext
      /\ wots_trail' = [i \in Lane |-> IF Active(i) THEN Append(wots_trail[i], rsp[i])
                                       ELSE wots_trail[i]]
    BY DEF Answered, WotsResponseTick
<1> QED
    BY <1>1 DEF StepsLeftNext, StepNext, ChainNext, AddrNext

\* The response an active lane takes is the next step of its scalar chain.
LEMMA ResponseIsStep ==
    ASSUME Counters, MachineInv, NEW rsp, Answered(rsp), NEW l \in Lane, Active(l)
    PROVE  rsp[l] = ChainStep(wots_job.seed, wots_job.addr[l],
                              wots_job.start[l] + Len(wots_trail[l]) - 1,
                              wots_trail[l][Len(wots_trail[l])])
<1> DEFINE req == WotsRequest
<1>1. /\ req.seed = wots_pub_seed_q /\ req.addr[l] = wots_addr_q[l]
      /\ req.in[l] = ZeroExtend(chain_q[l]) /\ req.inblocks = 1
    BY DEF WotsRequest
<1>2. rsp[l] = Thash(AbsorbX4(req)[l])
    BY DEF Answered, ThashX4
<1>3. AbsorbX4(req)[l] = BuildAbsorbState(req.seed, req.addr[l], req.in[l], req.inblocks)
    BY DEF AbsorbX4
<1>4. rsp[l] = Thash(BuildAbsorbState(wots_pub_seed_q, wots_addr_q[l], ZeroExtend(chain_q[l]), 1))
    BY <1>1, <1>2, <1>3
<1>5. wots_pub_seed_q = wots_job.seed
    BY DEF Answered, MachineInv, RequestIsNextStep
<1>6. /\ wots_addr_q[l] = AddrWithHash(wots_job.addr[l], step_q[l])
      /\ step_q[l] = wots_job.start[l] + Len(wots_trail[l]) - 1
      /\ chain_q[l] = wots_trail[l][Len(wots_trail[l])]
    <2> DEFINE left == steps_left_q[l]
               n == Len(wots_trail[l])
               first == wots_job.start[l]
               count == wots_job.num[l]
               step == step_q[l]
    <2>1. /\ first \in Nat /\ count \in Nat /\ left \in 0 .. 15 /\ step \in 0 .. 16
          /\ step = first + count - left
          /\ n = count - left + 1
          /\ wots_addr_q[l] = AddrWithHash(wots_job.addr[l], step)
          /\ chain_q[l] = wots_trail[l][n]
        BY LaneBefore DEF Answered
    <2> HIDE DEF left, n, first, count, step
    <2>2. step = first + n - 1
        BY <2>1
    <2> QED
        BY <2>1, <2>2 DEF n, first, step
<1> QED
    BY <1>4, <1>5, <1>6 DEF ChainStep

LEMMA ResponseTrails ==
    ASSUME Counters, MachineInv, NEW rsp, Answered(rsp)
    PROVE  ChainsAreScalar' /\ TrailsAreSequences'
<1>1. wots_job' = wots_job
    BY DEF Answered, WotsResponseTick
<1>2. ASSUME NEW l \in Lane
      PROVE  /\ wots_trail'[l] \in Seq(Elements(wots_trail'[l])) /\ wots_trail'[l] # <<>>
             /\ wots_trail'[l][1] = wots_job.in[l]
             /\ \A k \in 1 .. Len(wots_trail'[l]) - 1 :
                   wots_trail'[l][k + 1] = ChainStep(wots_job.seed, wots_job.addr[l],
                                                     wots_job.start[l] + k - 1, wots_trail'[l][k])
    <2> DEFINE s == wots_trail[l]
               t == wots_trail'[l]
               Step(k, v) == ChainStep(wots_job.seed, wots_job.addr[l],
                                       wots_job.start[l] + k - 1, v)
    <2>1. /\ s \in Seq(Elements(s)) /\ s # <<>> /\ s[1] = wots_job.in[l]
          /\ \A k \in 1 .. Len(s) - 1 : s[k + 1] = Step(k, s[k])
        BY DEF MachineInv, ChainsAreScalar, TrailsAreSequences
    <2>2. CASE ~Active(l)
        BY <2>1, <2>2, LaneAfter
    <2>3. CASE Active(l)
        <3>1. t = Append(s, rsp[l])
            BY <2>3, LaneAfter
        <3>2. rsp[l] = Step(Len(s), s[Len(s)])
            BY <2>3, ResponseIsStep
        <3>3. /\ t \in Seq(Elements(t)) /\ t # <<>> /\ Len(t) = Len(s) + 1
              /\ \A k \in 1 .. Len(s) : t[k] = s[k]
              /\ t[Len(s) + 1] = rsp[l]
            BY <2>1, <3>1, NextOfTrail
        <3>4. Len(s) \in Nat \ {0}
            BY <2>1
        <3> HIDE DEF s, t, Step
        <3>5. t[1] = s[1]
            BY <3>3, <3>4
        <3>6. ASSUME NEW k \in 1 .. Len(t) - 1
              PROVE  t[k + 1] = Step(k, t[k])
            <4>1. k \in 1 .. Len(s) /\ t[k] = s[k]
                BY <3>3, <3>4
            <4>2. CASE k = Len(s)
                BY <3>2, <3>3, <4>1, <4>2
            <4>3. CASE k # Len(s)
                <5>1. k \in 1 .. Len(s) - 1 /\ k + 1 \in 1 .. Len(s)
                    BY <3>4, <4>1, <4>3
                <5> QED
                    BY <2>1, <3>3, <4>1, <5>1
            <4> QED
                BY <4>2, <4>3
        <3> QED
            BY <2>1, <3>3, <3>5, <3>6 DEF s, t, Step
    <2> QED
        BY <2>2, <2>3
<1>3. ChainsAreScalar'
    BY <1>1, <1>2 DEF ChainsAreScalar
<1>4. TrailsAreSequences'
    BY <1>2 DEF TrailsAreSequences, Elements
<1> QED
    BY <1>3, <1>4

\* Arithmetic of one lane after the response.
LEMMA ResponseCounts ==
    ASSUME Counters, MachineInv, NEW rsp, Answered(rsp), NEW l \in Lane
    PROVE  /\ steps_left_q'[l] \in 0 .. 15 /\ step_q'[l] \in 0 .. 16
           /\ steps_left_q'[l] \in 0 .. wots_job.num[l]
           /\ step_q'[l] = wots_job.start[l] + wots_job.num[l] - steps_left_q'[l]
           /\ steps_left_q'[l] # 0 =>
                 /\ step_q'[l] < 16
                 /\ wots_addr_q'[l] = AddrWithHash(wots_job.addr[l], step_q'[l])
           /\ Len(wots_trail'[l]) = wots_job.num[l] - steps_left_q'[l] + 1
           /\ chain_q'[l] = wots_trail'[l][Len(wots_trail'[l])]
<1> DEFINE left == steps_left_q[l]
           step == step_q[l]
           first == wots_job.start[l]
           count == wots_job.num[l]
           s == wots_trail[l]
           leftNext == steps_left_q'[l]
           stepNext == step_q'[l]
           t == wots_trail'[l]
<1>1. /\ first \in Nat /\ count \in Nat /\ first + count <= 16
      /\ left \in 0 .. 15 /\ step \in 0 .. 16 /\ left <= count
      /\ step = first + count - left
      /\ Len(s) = count - left + 1
      /\ s \in Seq(Elements(s))
      /\ chain_q[l] = s[Len(s)]
      /\ left # 0 => wots_addr_q[l] = AddrWithHash(wots_job.addr[l], step)
    BY LaneBefore DEF Answered, Active
<1>2. CASE Active(l)
    <2>1. /\ left # 0 /\ leftNext = left - 1 /\ stepNext = step + 1
          /\ chain_q'[l] = rsp[l] /\ t = Append(s, rsp[l])
          /\ leftNext # 0 => wots_addr_q'[l] = AddrWithHash(wots_addr_q[l], stepNext)
        BY <1>2, LaneAfter DEF Active
    <2>2. Len(t) = Len(s) + 1 /\ t[Len(s) + 1] = rsp[l]
        <3> HIDE DEF s, t, left, leftNext, step, stepNext, first, count
        <3>1. s \in Seq(Elements(s)) /\ t = Append(s, rsp[l])
            BY <1>1, <2>1
        <3> QED
            BY <3>1, NextOfTrail
    <2>3. leftNext # 0 => wots_addr_q'[l] = AddrWithHash(wots_job.addr[l], stepNext)
        BY <1>1, <2>1, HashStepReplaced
    <2> HIDE DEF left, step, first, count, s, leftNext, stepNext, t
    <2>4. /\ leftNext \in 0 .. 15 /\ stepNext \in 0 .. 16 /\ leftNext \in 0 .. count
          /\ stepNext = first + count - leftNext
          /\ leftNext # 0 => stepNext < 16
          /\ Len(t) = count - leftNext + 1
        <3> DEFINE n == Len(s)
                   m == Len(t)
        <3>1. m = n + 1 /\ n = count - left + 1
            BY <1>1, <2>2
        <3>2. left # 0 /\ leftNext = left - 1 /\ stepNext = step + 1
            BY <2>1
        <3> HIDE DEF n, m
        <3>3. /\ first \in Nat /\ count \in Nat /\ first + count <= 16
              /\ left \in 0 .. 15 /\ step \in 0 .. 16 /\ left <= count
              /\ step = first + count - left
            BY <1>1
        <3>4. left \in 1 .. count
            BY <3>2, <3>3
        <3>5. leftNext \in 0 .. 15 /\ leftNext \in 0 .. count /\ stepNext \in 0 .. 16
            BY <3>2, <3>3, <3>4
        <3>6. stepNext = first + count - leftNext
            BY <3>2, <3>3
        <3>7. leftNext # 0 => stepNext < 16
            BY <3>3, <3>5, <3>6
        <3>8. m = count - leftNext + 1
            BY <3>1, <3>2, <3>3
        <3> QED
            BY <3>5, <3>6, <3>7, <3>8 DEF m
    <2>5. chain_q'[l] = t[Len(t)]
        BY <2>1, <2>2
    <2> QED
        BY <2>3, <2>4, <2>5 DEF leftNext, stepNext, first, count, t
<1>3. CASE ~Active(l)
    <2>1. /\ left = 0 /\ leftNext = left /\ stepNext = step
          /\ chain_q'[l] = chain_q[l] /\ t = s
        BY <1>3, LaneAfter DEF Active
    <2> HIDE DEF left, step, first, count, s, leftNext, stepNext, t
    <2>2. /\ leftNext \in 0 .. 15 /\ stepNext \in 0 .. 16 /\ leftNext \in 0 .. count
          /\ stepNext = first + count - leftNext
          /\ leftNext = 0
          /\ Len(t) = count - leftNext + 1
        BY <1>1, <2>1
    <2> QED
        BY <1>1, <2>1, <2>2 DEF leftNext, stepNext, first, count, t
<1> QED
    BY <1>2, <1>3

LEMMA Responded ==
    ASSUME Counters, MachineInv, NEW rsp, Answered(rsp)
    PROVE  Counters' /\ MachineInv' /\ wots_state_q' \in {"IDLE", "START_THASH"}
<1>1. /\ steps_left_q' = StepsLeftNext /\ step_q' = StepNext
      /\ wots_out' = IF AllStepsDoneNext THEN ChainNext(rsp) ELSE wots_out
      /\ chain_q' = ChainNext(rsp)
      /\ wots_done' = AllStepsDoneNext
      /\ wots_state_q' = IF AllStepsDoneNext THEN "IDLE" ELSE "START_THASH"
      /\ UNCHANGED <<wots_error, wots_pub_seed_q, wots_job>>
    BY DEF Answered, WotsResponseTick
<1>2. wots_state_q' \in {"IDLE", "START_THASH"}
    BY <1>1
<1>3. Counters'
    <2>1. \A l \in Lane : steps_left_q'[l] \in 0 .. 15 /\ step_q'[l] \in 0 .. 16
        BY ResponseCounts
    <2>2. /\ step_q' = [l \in Lane |-> step_q'[l]]
          /\ steps_left_q' = [l \in Lane |-> steps_left_q'[l]]
        BY <1>1 DEF StepNext, StepsLeftNext
    <2> QED
        BY <1>2, <2>1, <2>2 DEF Counters, SPX_WOTS_W
<1>4. RequestIsNextStep'
    <2> SUFFICES ASSUME ~AllStepsDoneNext
                 PROVE  RequestIsNextStep'
        BY <1>1 DEF RequestIsNextStep
    <2>1. \E l \in Lane : steps_left_q'[l] # 0
        BY <1>1 DEF AllStepsDoneNext
    <2>2. wots_pub_seed_q' = wots_job'.seed
        BY <1>1 DEF Answered, MachineInv, RequestIsNextStep
    <2>3. \A l \in Lane :
             /\ steps_left_q'[l] \in 0 .. wots_job'.num[l]
             /\ step_q'[l] = wots_job'.start[l] + wots_job'.num[l] - steps_left_q'[l]
             /\ steps_left_q'[l] # 0 =>
                   /\ step_q'[l] < 16
                   /\ wots_addr_q'[l] = AddrWithHash(wots_job'.addr[l], step_q'[l])
        BY <1>1, ResponseCounts
    <2> QED
        BY <2>1, <2>2, <2>3 DEF RequestIsNextStep, Active, SPX_WOTS_W
<1>5. WindowFits'
    BY <1>1 DEF Answered, MachineInv, WindowFits, StartConfigOk
<1>6. TrailFollowsCount'
    BY <1>1, ResponseCounts DEF TrailFollowsCount
<1>7. DoneIsEndOfChain'
    <2> SUFFICES ASSUME AllStepsDoneNext, NEW l \in Lane
                 PROVE  /\ Len(wots_trail'[l]) = wots_job'.num[l] + 1
                        /\ wots_out'[l] = wots_trail'[l][Len(wots_trail'[l])]
        BY <1>1 DEF DoneIsEndOfChain
    <2>1. steps_left_q'[l] = 0 /\ wots_out'[l] = chain_q'[l]
        BY <1>1 DEF AllStepsDoneNext
    <2>2. /\ Len(wots_trail'[l]) = wots_job.num[l] - steps_left_q'[l] + 1
          /\ chain_q'[l] = wots_trail'[l][Len(wots_trail'[l])]
        BY ResponseCounts
    <2>3. wots_job.num[l] \in Nat
        BY LaneBefore DEF Answered
    <2> QED
        BY <1>1, <2>1, <2>2, <2>3
<1> QED
    BY <1>2, <1>3, <1>4, <1>5, <1>6, <1>7, ResponseTrails DEF MachineInv

----------------------------------------------------------------------------
(***************************************************************************)
(* A clock edge of the machine, and of machine and engine together.        *)
(***************************************************************************)
LEMMA MachineTick ==
    ASSUME Counters, MachineInv, EngineInStep,
           NEW start \in BOOLEAN, NEW job \in Jobs, NEW ready \in BOOLEAN,
           Clock(start, job, ready)
    PROVE  Counters' /\ MachineInv'
<1>1. CASE WotsQuietTick(start) \/ WotsRequestTick(ready) \/ WotsWaitTick(answered)
    <2>1. StoodStill
        BY <1>1 DEF WotsQuietTick, WotsRequestTick, WotsWaitTick, StoodStill
    <2> QED
        BY <2>1, StandStill
<1>2. CASE WotsRefuseTick(start, job) \/ WotsCopyTick(start, job)
    BY <1>2, AnsweredAtOnce
<1>3. CASE WotsBeginTick(start, job)
    BY <1>3, Begun
<1>4. CASE WotsResponseTick(answered, answer)
    <2>1. answered /\ wots_state_q = "WAIT_THASH"
        BY <1>4 DEF WotsResponseTick
    <2>2. answer = ThashX4(WotsRequest)
        BY <2>1 DEF EngineInStep
    <2>3. Answered(answer)
        BY <1>4, <2>1, <2>2 DEF Answered, WotsResponseTick
    <2> QED
        BY <2>3, Responded
<1> QED
    BY <1>1, <1>2, <1>3, <1>4 DEF Clock, WotsTick

\* The request wires of a machine whose registers stand still.
LEMMA SameRequest == UNCHANGED wotsRegs => WotsRequest' = WotsRequest
    BY DEF wotsRegs, WotsRequest

LEMMA TakenInStep ==
    ASSUME Counters, EngineInStep, RequestTaken
    PROVE  EngineInStep'
<1>1. /\ wots_state_q = "START_THASH" /\ pending' = AbsorbX4(WotsRequest)
      /\ answered' = FALSE
    BY DEF RequestTaken, wots_req_valid, Accept
<1>2. wots_state_q' = "WAIT_THASH" /\ UNCHANGED wotsRegs
    BY <1>1 DEF RequestTaken, Clock, WotsTick, WotsQuietTick, WotsRefuseTick, WotsCopyTick,
                WotsBeginTick, WotsRequestTick, WotsWaitTick, WotsResponseTick
<1>3. WotsRequest' = WotsRequest
    BY <1>2, SameRequest
<1>4. pending' = AbsorbX4(WotsRequest')
    BY <1>1, <1>3
<1> QED
    BY <1>1, <1>2, <1>4 DEF EngineInStep, AbsorbX4

LEMMA QuietInStep ==
    ASSUME Counters, MachineInv, EngineInStep, NothingTaken
    PROVE  EngineInStep'
<1>1. answered' = FALSE /\ pending' = pending
    BY DEF NothingTaken, Quiet
<1>2. PICK start \in BOOLEAN, job \in Jobs : Clock(start, job, FALSE)
    BY DEF NothingTaken
<1>3. CASE wots_state_q # "WAIT_THASH"
    <2>1. wots_state_q' # "WAIT_THASH"
        BY <1>2, <1>3 DEF Clock, WotsTick, WotsQuietTick, WotsRefuseTick, WotsCopyTick,
                WotsBeginTick, WotsRequestTick, WotsWaitTick, WotsResponseTick
    <2> QED
        BY <1>1, <1>3, <2>1 DEF EngineInStep
<1>4. CASE wots_state_q = "WAIT_THASH" /\ answered
    <2>1. WotsResponseTick(answered, answer)
        BY <1>2, <1>4 DEF Clock, WotsTick, WotsQuietTick, WotsRefuseTick, WotsCopyTick,
                WotsBeginTick, WotsRequestTick, WotsWaitTick
    <2>2. wots_state_q' # "WAIT_THASH"
        BY <2>1 DEF WotsResponseTick
    <2> QED
        BY <1>1, <1>4, <2>2 DEF EngineInStep
<1>5. CASE wots_state_q = "WAIT_THASH" /\ ~answered
    <2>1. WotsWaitTick(answered)
        BY <1>2, <1>5 DEF Clock, WotsTick, WotsQuietTick, WotsRefuseTick, WotsCopyTick,
                WotsBeginTick, WotsRequestTick, WotsResponseTick
    <2>2. wots_state_q' = "WAIT_THASH" /\ UNCHANGED wotsRegs
        BY <1>5, <2>1 DEF WotsWaitTick
    <2>3. WotsRequest' = WotsRequest
        BY <2>2, SameRequest
    <2>4. pending' = AbsorbX4(WotsRequest')
        BY <1>1, <1>5, <2>3 DEF EngineInStep
    <2> QED
        BY <1>1, <2>2, <2>4 DEF EngineInStep, AbsorbX4
<1> QED
    BY <1>3, <1>4, <1>5

LEMMA AnswersInStep ==
    ASSUME Counters, EngineInStep, EngineAnswers
    PROVE  EngineInStep'
<1>1. /\ pending # None /\ pending' = None /\ answered' = TRUE
      /\ answer' = [l \in Lane |-> Thash(pending[l])]
    BY DEF EngineAnswers, Respond
<1>2. /\ wots_state_q = "WAIT_THASH" /\ ~answered /\ pending = AbsorbX4(WotsRequest)
    BY <1>1 DEF EngineInStep
<1>3. PICK start \in BOOLEAN, job \in Jobs : Clock(start, job, FALSE)
    BY DEF EngineAnswers
<1>4. wots_state_q' = "WAIT_THASH" /\ UNCHANGED wotsRegs
    BY <1>2, <1>3 DEF Clock, WotsTick, WotsQuietTick, WotsRefuseTick, WotsCopyTick,
                WotsBeginTick, WotsRequestTick, WotsWaitTick, WotsResponseTick
<1>5. WotsRequest' = WotsRequest
    BY <1>4, SameRequest
<1>6. answer' = ThashX4(WotsRequest')
    BY <1>1, <1>2, <1>5 DEF ThashX4
<1> QED
    BY <1>1, <1>4, <1>6 DEF EngineInStep, ThashX4, AbsorbX4

LEMMA InitInv == Init => Inv
<1> SUFFICES ASSUME Init PROVE Inv
    OBVIOUS
<1>1. /\ wots_state_q = "IDLE" /\ wots_done = FALSE /\ wots_error = FALSE
      /\ step_q = [l \in Lane |-> 0] /\ steps_left_q = [l \in Lane |-> 0]
      /\ wots_job = NoJob /\ wots_trail = [l \in Lane |-> <<ZeroDigest>>]
      /\ pending = None /\ answered = FALSE
    BY DEF Init, WotsInit, ServerInit
<1>2. TypeOK
    <2>1. Bits
        BY <1>1, Zenon DEF Bits
    <2>2. Counters
        BY <1>1 DEF Counters, SPX_WOTS_W
    <2> QED
        BY <2>1, <2>2, TypeParts
<1>3. \A l \in Lane : /\ wots_trail[l] \in Seq(Elements(wots_trail[l])) /\ wots_trail[l] # <<>>
                      /\ Len(wots_trail[l]) = 1 /\ wots_trail[l][1] = ZeroDigest
    <2> DEFINE t == <<ZeroDigest>>
    <2>1. t \in Seq(Elements(t)) /\ t # <<>> /\ Len(t) = 1 /\ t[1] = ZeroDigest
        BY FirstOfTrail
    <2>2. \A l \in Lane : wots_trail[l] = t
        BY <1>1
    <2> HIDE DEF t
    <2> QED
        BY <2>1, <2>2
<1>4. \A l \in Lane : wots_job.in[l] = ZeroDigest
    BY <1>1 DEF NoJob
<1>5. ChainsAreScalar
    <2>1. \A l \in Lane : wots_trail[l][1] = wots_job.in[l]
        BY <1>3, <1>4, Zenon
    <2>2. \A l \in Lane : \A k \in 1 .. Len(wots_trail[l]) - 1 : FALSE
        <3>1. \A k \in 1 .. 1 - 1 : FALSE
            OBVIOUS
        <3> QED
            BY <1>3, <3>1, Zenon
    <2> SUFFICES ASSUME NEW l \in Lane
                 PROVE  /\ wots_trail[l][1] = wots_job.in[l]
                        /\ \A k \in 1 .. Len(wots_trail[l]) - 1 :
                              wots_trail[l][k + 1] = ChainStep(wots_job.seed, wots_job.addr[l],
                                                     wots_job.start[l] + k - 1, wots_trail[l][k])
        BY Zenon DEF ChainsAreScalar
    <2> QED
        BY <2>1, <2>2, Zenon
<1>6. TrailsAreSequences
    BY <1>3 DEF TrailsAreSequences
<1> QED
    BY <1>1, <1>2, <1>5, <1>6
       DEF Inv, MachineInv, RequestIsNextStep, DoneIsEndOfChain, WindowFits, TrailFollowsCount,
           EngineInStep

LEMMA TickInv == Inv /\ [Tick]_vars => Inv'
<1> SUFFICES ASSUME Inv, [Tick]_vars
             PROVE  Inv'
    OBVIOUS
<1>0. Bits /\ Counters /\ MachineInv /\ EngineInStep
    BY TypeParts DEF Inv
<1>1. CASE Tick
    <2>1. PICK start \in BOOLEAN, job \in Jobs, ready \in BOOLEAN : Clock(start, job, ready)
        BY <1>1 DEF Tick, RequestTaken, NothingTaken, EngineAnswers
    <2>2. Counters' /\ MachineInv'
        BY <1>0, <2>1, MachineTick
    <2>3. Bits'
        BY <1>0, <2>1, TickBits DEF Clock
    <2>4. EngineInStep'
        BY <1>0, <1>1, TakenInStep, QuietInStep, AnswersInStep DEF Tick
    <2>5. TypeOK'
        BY <2>2, <2>3, Zenon DEF TypeOK, Bits, Counters
    <2> QED
        BY <2>2, <2>4, <2>5 DEF Inv
<1>2. CASE UNCHANGED vars
    <2>1. /\ UNCHANGED <<wots_state_q, wots_done, wots_error, wotsRegs, wots_out, wots_job, wots_trail>>
          /\ UNCHANGED <<pending, answered, answer>>
        BY <1>2 DEF vars, wotsVars, serverVars
    <2>2. UNCHANGED <<wots_pub_seed_q, wots_addr_q, chain_q, step_q, steps_left_q>>
        BY <2>1 DEF wotsRegs
    <2>3. TypeOK'
        BY <2>1, <2>2 DEF Inv, TypeOK
    <2>4. MachineInv'
        BY <2>1, <2>2 DEF Inv, MachineInv, RequestIsNextStep, ChainsAreScalar, DoneIsEndOfChain,
                          WindowFits, StartConfigOk, TrailsAreSequences, TrailFollowsCount, Active
    <2>5. EngineInStep'
        <3>1. WotsRequest' = WotsRequest
            BY <2>1, SameRequest
        <3> QED
            BY <2>1, <3>1 DEF Inv, EngineInStep, AbsorbX4, ThashX4
    <2> QED
        BY <2>3, <2>4, <2>5 DEF Inv
<1> QED
    BY <1>1, <1>2

LEMMA AlwaysInv == Spec => []Inv
<1>1. Init => Inv
    BY InitInv
<1>2. Inv /\ [Tick]_vars => Inv'
    BY TickInv
<1> QED
    BY <1>1, <1>2, PTL DEF Spec

----------------------------------------------------------------------------
(***************************************************************************)
(* The control registers keep their types: no step number passes W, no     *)
(* remaining count falls below zero, for any windows in bytes.             *)
(***************************************************************************)
THEOREM TypeCorrect == Spec => []TypeOK
<1>1. Inv => TypeOK
    BY DEF Inv
<1> QED
    BY <1>1, AlwaysInv, PTL

(***************************************************************************)
(* What the machine asks of the engine is, for every lane that has a step  *)
(* to take, that lane's next step, whatever the windows of the others.     *)
(***************************************************************************)
THEOREM RequestsCorrect == Spec => []RequestIsNextStep
<1>1. Inv => RequestIsNextStep
    BY DEF Inv, MachineInv
<1> QED
    BY <1>1, AlwaysInv, PTL

(***************************************************************************)
(* The values a lane holds are those of the scalar chain of its own input, *)
(* address and window, over any engine that keeps its promise.             *)
(***************************************************************************)
THEOREM LockstepIsScalar == Spec => []ChainsAreScalar
<1>1. Inv => ChainsAreScalar
    BY DEF Inv, MachineInv
<1> QED
    BY <1>1, AlwaysInv, PTL

(***************************************************************************)
(* Done without error means that every lane has taken the number of steps  *)
(* it was asked for and shows the end of its chain.                        *)
(***************************************************************************)
THEOREM DoneCorrect == Spec => []DoneIsEndOfChain
<1>1. Inv => DoneIsEndOfChain
    BY DEF Inv, MachineInv
<1> QED
    BY <1>1, AlwaysInv, PTL
=============================================================================
