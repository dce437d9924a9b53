---------------------------- MODULE WotsGrouping ----------------------------
(***************************************************************************)
(* The software model of a WOTS public key's chains packed four to a       *)
(* descriptor, wots_pk_grouping_model, over the lockstep chain model,      *)
(* wots_chainx4_model.  The caller's array of chains grows by any legal or *)
(* illegal window; then it is grouped, executed group by group, and        *)
(* compared with the scalar reference.                                     *)
(*                                                                         *)
(* A chain value is the input it began with and the addresses it has been  *)
(* hashed under; an address is what the caller gave, and its hash byte.    *)
(***************************************************************************)
EXTENDS Integers, Sequences, FiniteSets, FiniteSetsExt

CONSTANTS Windows,       \* the start_step, num_steps a caller may ask for
          MaxChains      \* bound: chains in one call

\* Both are unsigned; a caller may ask for any.
ASSUMPTION WindowsAssumption == \A w \in Windows : w.start \in Nat /\ w.num \in Nat

VARIABLES chains,        \* the caller's array; chain i of the code is chains[i + 1]
          progress,      \* "calling", "grouping", "executing", "compared", "refused"
          group,         \* the next group to count or to execute
          grouped,       \* out, as far as it has been written
          stats

groupingVars == <<chains, progress, group, grouped, stats>>

GroupLanes == 0 .. 3
ChainSteps == 16
MaxSteps   == ChainSteps - 1

----------------------------------------------------------------------------
(***************************************************************************)
(* wots_chainx4_model                                                      *)
(***************************************************************************)
ValidWindow(start, num) == start <= ChainSteps /\ num <= MaxSteps /\ start + num <= ChainSteps

SetHash(addr, step) == [addr EXCEPT !.hash = step]
Hashed(value, addr) == [value EXCEPT !.trail = Append(@, addr)]

LongestOf(nums) == Max({nums[l] : l \in GroupLanes})

\* One call of the four-lane hash: every lane is hashed, idle ones too.
ThashX4Model(in, addr) == [l \in GroupLanes |-> Hashed(in[l], addr[l])]

\* Four windows in lockstep: a lane whose window is over keeps its value and
\* the address of its last step.  The fault stops all lanes with lane 0.
OutlastsLaneZero(step, nums, l) == step < nums[0]
LaneActive(step, nums, l) == step < nums[l]

MixedModel(in, addr, starts, nums) ==
    LET after[n \in 0 .. LongestOf(nums)] ==
            IF n = 0 THEN [chain |-> in, addr |-> addr]
            ELSE LET step == n - 1
                     was  == after[step]
                     at   == [l \in GroupLanes |-> IF LaneActive(step, nums, l)
                                                   THEN SetHash(was.addr[l], starts[l] + step)
                                                   ELSE was.addr[l]]
                     out  == ThashX4Model(was.chain, at)
                 IN  [addr |-> at,
                      chain |-> [l \in GroupLanes |-> IF LaneActive(step, nums, l) THEN out[l]
                                                      ELSE was.chain[l]]]
    IN  after[LongestOf(nums)].chain

UniformModel(in, addr, start, num) ==
    MixedModel(in, addr, [l \in GroupLanes |-> start], [l \in GroupLanes |-> num])

\* One lane after the other, each for as long as its own window.
ScalarModel(in, addr, starts, nums) ==
    [l \in GroupLanes |->
        LET after[n \in 0 .. nums[l]] ==
                IF n = 0 THEN in[l]
                ELSE Hashed(after[n - 1], SetHash(addr[l], starts[l] + n - 1))
        IN  after[nums[l]]]

----------------------------------------------------------------------------
(***************************************************************************)
(* wots_pk_grouping_model                                                  *)
(***************************************************************************)
Capacity(count) == (count + 3) \div 4

Absent == -1               \* SPX_WOTS_PK_GROUPING_INVALID_CHAIN
NoChain == [input |-> [from |-> Absent, trail |-> <<>>],
            addr |-> [base |-> Absent, hash |-> 0],
            start |-> 0, num |-> 0]

\* The group's lanes, the last ones empty where the chains run out; their
\* windows are zero.
ChainIndex(g, l) == IF 4 * g + l < Len(chains) THEN 4 * g + l ELSE Absent
ChainIn(g, l) ==
    IF ChainIndex(g, l) = Absent THEN NoChain ELSE chains[ChainIndex(g, l) + 1]

Present(g) == {l \in GroupLanes : ChainIndex(g, l) # Absent}

BuildDescriptor(g) ==
    LET starts == [l \in GroupLanes |-> ChainIn(g, l).start]
        nums   == [l \in GroupLanes |-> ChainIn(g, l).num]
    IN  [starts  |-> starts,
         nums    |-> nums,
         longest |-> LongestOf(nums),
         useful  |-> nums[0] + nums[1] + nums[2] + nums[3],
         uniform |-> /\ Present(g) = GroupLanes
                     /\ LongestOf(nums) > 0
                     /\ \A l \in GroupLanes : starts[l] = starts[0] /\ nums[l] = nums[0]]

Groups == 0 .. Capacity(Len(chains)) - 1

Buildable(g) ==
    \A l \in Present(g) : ValidWindow(ChainIn(g, l).start, ChainIn(g, l).num)

NoStats == [descriptors |-> 0, uniform |-> 0, mixed |-> 0, baseline |-> 0,
            useful |-> 0, physical |-> 0, estimated |-> 0]

\* Only a descriptor with work is counted.
Counted(d) ==
    IF d.longest = 0 THEN stats
    ELSE [descriptors |-> stats.descriptors + 1,
          uniform     |-> IF d.uniform THEN stats.uniform + 1 ELSE stats.uniform,
          mixed       |-> IF d.uniform THEN stats.mixed ELSE stats.mixed + 1,
          baseline    |-> stats.baseline + d.longest,
          useful      |-> stats.useful + d.useful,
          physical    |-> stats.physical + 4 * d.longest,
          estimated   |-> stats.estimated + 24 + 28 * d.longest]

ExecuteGroup(g) ==
    LET d    == BuildDescriptor(g)
        in   == [l \in GroupLanes |-> ChainIn(g, l).input]
        addr == [l \in GroupLanes |-> ChainIn(g, l).addr]
    IN  CASE d.longest = 0 -> in
          [] d.uniform     -> UniformModel(in, addr, d.starts[0], d.nums[0])
          [] OTHER         -> MixedModel(in, addr, d.starts, d.nums)

\* The reference gives every chain lane 0 of a group of its own.
ScalarReference(i) ==
    LET Lone(x, none) == [l \in GroupLanes |-> IF l = 0 THEN x ELSE none]
    IN  ScalarModel(Lone(chains[i].input, NoChain.input), Lone(chains[i].addr, NoChain.addr),
                    Lone(chains[i].start, 0), Lone(chains[i].num, 0))[0]

----------------------------------------------------------------------------
GroupingInit ==
    /\ chains = <<>>
    /\ progress = "calling"
    /\ group = 0
    /\ grouped = <<>>
    /\ stats = NoStats

AddChain ==
    /\ progress = "calling"
    /\ Len(chains) < MaxChains
    /\ \E w \in Windows :
          chains' = Append(chains, [input |-> [from |-> Len(chains), trail |-> <<>>],
                                    addr  |-> [base |-> Len(chains), hash |-> 0],
                                    start |-> w.start, num |-> w.num])
    /\ UNCHANGED <<progress, group, grouped, stats>>

GroupChains ==
    /\ progress = "calling"
    /\ chains # <<>>
    /\ progress' = "grouping"
    /\ group' = 0
    /\ stats' = NoStats
    /\ UNCHANGED <<chains, grouped>>

\* All windows are looked at, and all groups counted, before any chain runs;
\* what was counted before a refusal stays.
RefuseGroup ==
    /\ progress = "grouping"
    /\ group \in Groups /\ ~Buildable(group)
    /\ progress' = "refused"
    /\ UNCHANGED <<chains, group, grouped, stats>>

CountGroup ==
    /\ progress = "grouping"
    /\ group \in Groups /\ Buildable(group)
    /\ stats' = Counted(BuildDescriptor(group))
    /\ group' = group + 1
    /\ UNCHANGED <<chains, progress, grouped>>

ExecuteGroups ==
    /\ progress = "grouping"
    /\ group \notin Groups
    /\ progress' = "executing"
    /\ group' = 0
    /\ UNCHANGED <<chains, grouped, stats>>

Execute ==
    /\ progress = "executing"
    /\ group \in Groups
    /\ LET out == ExecuteGroup(group)
       IN  grouped' = grouped \o [l \in 1 .. Cardinality(Present(group)) |-> out[l - 1]]
    /\ group' = group + 1
    /\ UNCHANGED <<chains, progress, stats>>

Compare ==
    /\ progress = "executing"
    /\ group \notin Groups
    /\ progress' = "compared"
    /\ UNCHANGED <<chains, group, grouped, stats>>

GroupingNext ==
    \/ AddChain \/ GroupChains \/ RefuseGroup \/ CountGroup
    \/ ExecuteGroups \/ Execute \/ Compare

GroupingSpec == GroupingInit /\ [][GroupingNext]_groupingVars

----------------------------------------------------------------------------
\* The chain as defined, without lanes or groups.
ChainAsDefined(c) ==
    [from |-> c.input.from,
     trail |-> [n \in 1 .. c.num |-> SetHash(c.addr, c.start + n - 1)]]

\* The steps asked for, over all chains.
StepsAsked ==
    LET asked[n \in 0 .. Len(chains)] == IF n = 0 THEN 0 ELSE asked[n - 1] + chains[n].num
    IN  asked[Len(chains)]

(***************************************************************************)
(* Grouping changes nothing but the cost.  Once a call is through, every   *)
(* chain has the value the scalar reference and the definition give it -   *)
(* in a full group of one window, in a mixed one, in the last group with   *)
(* empty lanes, in one without work; a call is refused exactly when some   *)
(* chain's window is illegal; and the lane steps that are counted as       *)
(* useful are the chain steps asked for, none of them spent in a           *)
(* descriptor that is not counted.                                         *)
(***************************************************************************)
GroupingIsScalar ==
    /\ progress = "compared" =>
          /\ Len(grouped) = Len(chains)
          /\ \A i \in DOMAIN chains :
                /\ grouped[i] = ScalarReference(i)
                /\ grouped[i] = ChainAsDefined(chains[i])
          /\ stats.useful = StepsAsked
          /\ stats.useful <= stats.physical
          /\ stats.descriptors = stats.uniform + stats.mixed
          /\ stats.descriptors <= stats.baseline
    /\ progress = "refused" =>
          \E i \in DOMAIN chains : chains[i].start + chains[i].num > 16 \/ chains[i].num > 15
    /\ progress \in {"executing", "compared"} =>
          \A i \in DOMAIN chains : chains[i].start + chains[i].num \in 0 .. 16
=============================================================================
