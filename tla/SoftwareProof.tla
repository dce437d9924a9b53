---------------------------- MODULE SoftwareProof ----------------------------
(***************************************************************************)
(* The software and the models of it, for every value of their constants.  *)
(* Any number of chains packed by fours, with any windows: grouping        *)
(* changes nothing but the cost.  The Keccak rounds of every code, from    *)
(* any state: the standard's.  The digits of WOTS+, for any length of a    *)
(* digest: no digest has all of its digits at least as large as another's. *)
(* The hash streams, however a message is cut into calls: the standard's.  *)
(***************************************************************************)
EXTENDS WotsGrouping, KeccakRounds, WotsDigits, SpxStreams, SequenceTheorems,
        FiniteSetTheorems, WellFoundedInduction, TLAPS

----------------------------------------------------------------------------
(***************************************************************************)
(* Induction over a set of numbers.                                        *)
(***************************************************************************)
LEMMA Least ==
    ASSUME NEW S \in SUBSET Nat, S # {}
    PROVE  \E m \in S : \A k \in S : m <= k
<1>1. \E m \in S : \A k \in S : ~(<<k, m>> \in OpToRel(<, Nat))
    BY NatLessThanWellFounded, WFMin, Zenon
<1>2. \A m, k \in Nat : <<k, m>> \in OpToRel(<, Nat) <=> k < m
    BY DEF OpToRel
<1>3. \E m \in S : \A k \in S : ~(k < m)
    BY <1>1, <1>2, Zenon
<1>4. QED
    BY <1>3

LEMMA Induct ==
    ASSUME NEW S, 0 \in S, \A n \in Nat : n \in S => n + 1 \in S
    PROVE  Nat \subseteq S
<1> DEFINE T == Nat \ S
<1>1. SUFFICES ASSUME T # {} PROVE FALSE
    OBVIOUS
<1>2. PICK m \in T : \A k \in T : m <= k
    BY <1>1, Least
<1>3. m \in Nat /\ m # 0 /\ m - 1 \in Nat /\ m - 1 \notin T
    BY <1>2
<1>4. QED
    BY <1>2, <1>3

----------------------------------------------------------------------------
(***************************************************************************)
(* Values of chains.                                                       *)
(***************************************************************************)
Addrs  == [base : Int, hash : Nat]
Values == [from : Int, trail : Seq(Addrs)]
Chains == [input : [from : Int, trail : {<<>>}], addr : Addrs, start : Nat, num : Nat]

\* A chain after n of its steps, and the address it was hashed under last.
After(c, n) == [from |-> c.input.from,
                trail |-> [k \in 1 .. n |-> SetHash(c.addr, c.start + k - 1)]]

LEMMA SetHashIs ==
    ASSUME NEW a \in Addrs, NEW s \in Nat
    PROVE  /\ SetHash(a, s) = [base |-> a.base, hash |-> s]
           /\ SetHash(a, s) \in Addrs
           /\ \A t \in Nat : SetHash(SetHash(a, s), t) = SetHash(a, t)
<1>1. \A t \in Nat, b \in Addrs : SetHash(b, t) = [base |-> b.base, hash |-> t]
    BY DEF Addrs, SetHash
<1>2. QED
    BY <1>1 DEF Addrs

LEMMA AfterIsValue ==
    ASSUME NEW c \in Chains, NEW n \in Nat
    PROVE  /\ After(c, n) \in Values
           /\ After(c, n).trail \in Seq(Addrs) /\ Len(After(c, n).trail) = n
           /\ \A k \in 1 .. n : After(c, n).trail[k] = SetHash(c.addr, c.start + k - 1)
<1> DEFINE t == [k \in 1 .. n |-> SetHash(c.addr, c.start + k - 1)]
<1>1. c.addr \in Addrs /\ c.start \in Nat /\ c.input.from \in Int
    BY DEF Chains
<1>2. \A k \in 1 .. n : SetHash(c.addr, c.start + k - 1) \in Addrs
    <2>1. \A k \in 1 .. n : c.start + k - 1 \in Nat
        BY <1>1
    <2>2. QED
        BY <1>1, <2>1, SetHashIs
<1>3. t \in Seq(Addrs) /\ Len(t) = n
    BY <1>2
<1>4. QED
    BY <1>1, <1>3 DEF After, Values

LEMMA AfterNone ==
    ASSUME NEW c \in Chains
    PROVE  After(c, 0) = c.input
<1>1. PICK f \in Int : c.input = [from |-> f, trail |-> <<>>]
    BY DEF Chains
<1>2. After(c, 0).trail = <<>>
    <2>1. After(c, 0).trail \in Seq(Addrs) /\ Len(After(c, 0).trail) = 0
        BY AfterIsValue
    <2>2. QED
        BY <2>1, EmptySeq, SeqEqual
<1>3. After(c, 0) = [from |-> f, trail |-> After(c, 0).trail]
    BY <1>1 DEF After
<1>4. QED
    BY <1>1, <1>2, <1>3

LEMMA AfterNext ==
    ASSUME NEW c \in Chains, NEW n \in Nat
    PROVE  Hashed(After(c, n), SetHash(c.addr, c.start + n)) = After(c, n + 1)
<1>1. PICK u : u = After(c, n).trail
    OBVIOUS
<1>2. PICK v : v = After(c, n + 1).trail
    OBVIOUS
<1>3. PICK a : a = SetHash(c.addr, c.start + n)
    OBVIOUS
<1>4. a \in Addrs
    BY <1>3, SetHashIs DEF Chains
<1>5. /\ u \in Seq(Addrs) /\ Len(u) = n
      /\ \A k \in 1 .. n : u[k] = SetHash(c.addr, c.start + k - 1)
    BY <1>1, AfterIsValue
<1>6. /\ v \in Seq(Addrs) /\ Len(v) = n + 1
      /\ \A k \in 1 .. n + 1 : v[k] = SetHash(c.addr, c.start + k - 1)
    <2>1. n + 1 \in Nat
        OBVIOUS
    <2>2. QED
        BY <1>2, <2>1, AfterIsValue
<1>7. Append(u, a) = v
    <2>1. /\ Append(u, a) \in Seq(Addrs) /\ Len(Append(u, a)) = n + 1
          /\ \A k \in 1 .. n : Append(u, a)[k] = u[k]
          /\ Append(u, a)[n + 1] = a
        BY <1>4, <1>5, AppendProperties
    <2>2. v[n + 1] = a
        <3>1. n + 1 \in 1 .. n + 1 /\ c.start + (n + 1) - 1 = c.start + n
            BY DEF Chains
        <3>2. v[n + 1] = SetHash(c.addr, c.start + (n + 1) - 1)
            BY <1>6, <3>1
        <3>3. QED
            BY <1>3, <3>1, <3>2
    <2>3. \A k \in 1 .. n + 1 : Append(u, a)[k] = v[k]
        <3>1. TAKE k \in 1 .. n + 1
        <3>2. CASE k = n + 1
            BY <3>2, <2>1, <2>2
        <3>3. CASE k \in 1 .. n
            BY <3>3, <1>5, <1>6, <2>1
        <3>4. k = n + 1 \/ k \in 1 .. n
            OBVIOUS
        <3>5. QED
            BY <3>2, <3>3, <3>4
    <2>4. QED
        BY <1>6, <2>1, <2>3, SeqEqual
<1>8. Hashed(After(c, n), a) = [from |-> c.input.from, trail |-> Append(u, a)]
    <2>1. PICK f : f = c.input.from
        OBVIOUS
    <2>2. After(c, n) = [from |-> f, trail |-> u]
        BY <1>1, <2>1 DEF After
    <2>3. [After(c, n) EXCEPT !.trail = Append(u, a)] = [from |-> f, trail |-> Append(u, a)]
        BY <2>2
    <2>4. QED
        BY <1>1, <2>1, <2>3 DEF Hashed
<1>9. After(c, n + 1) = [from |-> c.input.from, trail |-> v]
    BY <1>2 DEF After
<1>10. QED
    BY <1>3, <1>7, <1>8, <1>9

----------------------------------------------------------------------------
(***************************************************************************)
(* The scalar reference walks each chain alone.                            *)
(***************************************************************************)
\* One lane's run of the scalar model.
ScalarRun(in, addr, start, num, f) ==
    f = [n \in 0 .. num |-> IF n = 0 THEN in ELSE Hashed(f[n - 1], SetHash(addr, start + n - 1))]

LEMMA ScalarRunExists ==
    ASSUME NEW c \in Chains
    PROVE  \E f : ScalarRun(c.input, c.addr, c.start, c.num, f)
<1> DEFINE f == [n \in 0 .. c.num |-> After(c, n)]
<1>1. c.num \in Nat /\ c.start \in Nat
    BY DEF Chains
<1>2. ASSUME NEW n \in 0 .. c.num
      PROVE  f[n] = IF n = 0 THEN c.input
                    ELSE Hashed(f[n - 1], SetHash(c.addr, c.start + n - 1))
    <2>1. CASE n = 0
        BY <2>1, AfterNone
    <2>2. CASE n # 0
        <3>1. n - 1 \in Nat /\ n - 1 \in 0 .. c.num /\ c.start + (n - 1) = c.start + n - 1
            BY <1>1, <2>2
        <3>2. Hashed(After(c, n - 1), SetHash(c.addr, c.start + (n - 1))) = After(c, (n - 1) + 1)
            BY <3>1, AfterNext
        <3>3. (n - 1) + 1 = n
            OBVIOUS
        <3>4. f[n] = After(c, n) /\ f[n - 1] = After(c, n - 1)
            BY <3>1
        <3>5. QED
            BY <2>2, <3>1, <3>2, <3>3, <3>4
    <2>3. QED
        BY <2>1, <2>2
<1>3. f = [n \in 0 .. c.num |-> f[n]]
    OBVIOUS
<1> HIDE DEF f
<1>4. QED
    BY <1>2, <1>3 DEF ScalarRun

LEMMA ScalarRunIs ==
    ASSUME NEW c \in Chains, NEW f, ScalarRun(c.input, c.addr, c.start, c.num, f)
    PROVE  f[c.num] = After(c, c.num)
<1> DEFINE S == {n \in Nat : n <= c.num => f[n] = After(c, n)}
<1>1. c.num \in Nat /\ c.start \in Nat
    BY DEF Chains
<1>2. 0 \in S
    <2>1. f[0] = c.input
        BY <1>1 DEF ScalarRun
    <2>2. QED
        BY <2>1, AfterNone
<1>3. ASSUME NEW n \in Nat, n \in S PROVE n + 1 \in S
    <2>1. SUFFICES ASSUME n + 1 <= c.num PROVE f[n + 1] = After(c, n + 1)
        OBVIOUS
    <2>2. /\ f[n] = After(c, n) /\ n + 1 \in 0 .. c.num /\ n + 1 # 0 /\ (n + 1) - 1 = n
          /\ c.start + (n + 1) - 1 = c.start + n
        BY <1>1, <1>3, <2>1
    <2>3. f[n + 1] = Hashed(f[(n + 1) - 1], SetHash(c.addr, c.start + (n + 1) - 1))
        BY <2>2 DEF ScalarRun
    <2>4. QED
        BY <2>2, <2>3, AfterNext
<1> HIDE DEF S
<1>4. c.num \in S
    BY <1>1, <1>2, <1>3, Induct
<1>5. QED
    BY <1>1, <1>4 DEF S

LEMMA ScalarModelIs ==
    ASSUME NEW in, NEW addr, NEW starts, NEW nums, NEW c \in Chains, NEW l \in GroupLanes,
           in[l] = c.input, addr[l] = c.addr, starts[l] = c.start, nums[l] = c.num
    PROVE  ScalarModel(in, addr, starts, nums)[l] = After(c, c.num)
<1> DEFINE f == CHOOSE g : ScalarRun(in[l], addr[l], starts[l], nums[l], g)
<1>1. ScalarModel(in, addr, starts, nums)[l] = f[nums[l]]
    BY DEF ScalarModel, ScalarRun
<1>2. ScalarRun(c.input, c.addr, c.start, c.num, f)
    <2>1. \E g : ScalarRun(in[l], addr[l], starts[l], nums[l], g)
        BY ScalarRunExists
    <2>2. ScalarRun(in[l], addr[l], starts[l], nums[l], f)
        BY <2>1
    <2> HIDE DEF f
    <2>3. QED
        BY <2>2
<1> HIDE DEF f
<1>3. QED
    BY <1>1, <1>2, ScalarRunIs

LEMMA ScalarReferenceIs ==
    ASSUME NEW i, chains[i] \in Chains
    PROVE  ScalarReference(i) = ChainAsDefined(chains[i])
<1> DEFINE Lone(x, none) == [l \in GroupLanes |-> IF l = 0 THEN x ELSE none]
<1>1. PICK c : c = chains[i]
    OBVIOUS
<1>2. PICK in, addr, starts, nums :
          /\ in = Lone(c.input, NoChain.input) /\ addr = Lone(c.addr, NoChain.addr)
          /\ starts = Lone(c.start, 0) /\ nums = Lone(c.num, 0)
    OBVIOUS
<1>3. ScalarReference(i) = ScalarModel(in, addr, starts, nums)[0]
    BY <1>1, <1>2 DEF ScalarReference
<1>4. /\ 0 \in GroupLanes
      /\ in[0] = c.input /\ addr[0] = c.addr /\ starts[0] = c.start /\ nums[0] = c.num
    BY <1>2 DEF GroupLanes
<1>5. ScalarModel(in, addr, starts, nums)[0] = After(c, c.num)
    BY <1>1, <1>4, ScalarModelIs
<1>6. After(c, c.num) = ChainAsDefined(c)
    BY DEF After, ChainAsDefined
<1>7. QED
    BY <1>1, <1>3, <1>5, <1>6

----------------------------------------------------------------------------
(***************************************************************************)
(* The lockstep model, turn by turn.                                       *)
(***************************************************************************)
\* The lockstep run of the mixed model, in turns of its loop.
TurnAddr(was, step, starts, nums) ==
    [l \in GroupLanes |-> IF LaneActive(step, nums, l) THEN SetHash(was.addr[l], starts[l] + step)
                          ELSE was.addr[l]]
Turn(was, step, starts, nums) ==
    [addr  |-> TurnAddr(was, step, starts, nums),
     chain |-> [l \in GroupLanes |->
                   IF LaneActive(step, nums, l)
                   THEN ThashX4Model(was.chain, TurnAddr(was, step, starts, nums))[l]
                   ELSE was.chain[l]]]
MixedRun(in, addr, starts, nums, f) ==
    f = [n \in 0 .. LongestOf(nums) |-> IF n = 0 THEN [chain |-> in, addr |-> addr]
                                        ELSE Turn(f[n - 1], n - 1, starts, nums)]

\* Four chains c as the operands of the model, and where n turns bring them.
LanesOf(c, in, addr, starts, nums) ==
    /\ in = [l \in GroupLanes |-> c[l].input] /\ addr = [l \in GroupLanes |-> c[l].addr]
    /\ starts = [l \in GroupLanes |-> c[l].start] /\ nums = [l \in GroupLanes |-> c[l].num]

Upto(n, m) == IF n <= m THEN n ELSE m
AddrAfter(c, k) == IF k = 0 THEN c.addr ELSE SetHash(c.addr, c.start + k - 1)
Turned(c, n) ==
    [addr  |-> [l \in GroupLanes |-> AddrAfter(c[l], Upto(n, c[l].num))],
     chain |-> [l \in GroupLanes |-> After(c[l], Upto(n, c[l].num))]]

LEMMA LongestIs ==
    ASSUME NEW nums \in [GroupLanes -> Nat]
    PROVE  /\ LongestOf(nums) \in Nat
           /\ \A l \in GroupLanes : nums[l] <= LongestOf(nums)
           /\ \E l \in GroupLanes : nums[l] = LongestOf(nums)
<1> DEFINE S == {nums[l] : l \in GroupLanes}
<1>1. \E x \in S : \A y \in S : x >= y
    <2>1. \E l \in GroupLanes : \A k \in GroupLanes : nums[l] >= nums[k]
        <3>1. nums[0] \in Nat /\ nums[1] \in Nat /\ nums[2] \in Nat /\ nums[3] \in Nat
            BY DEF GroupLanes
        <3>2. GroupLanes = {0, 1, 2, 3}
            BY DEF GroupLanes
        <3> HIDE DEF S
        <3>3. QED
            BY <3>1, <3>2
    <2>2. QED
        BY <2>1
<1>2. LongestOf(nums) = CHOOSE x \in S : \A y \in S : x >= y
    BY DEF LongestOf, Max
<1>3. LongestOf(nums) \in S /\ \A y \in S : LongestOf(nums) >= y
    <2> HIDE DEF S
    <2>1. QED
        BY <1>1, <1>2
<1>4. QED
    BY <1>3

LEMMA TurnMoves ==
    ASSUME NEW c \in [GroupLanes -> Chains], NEW n \in Nat, NEW starts, NEW nums,
           starts = [l \in GroupLanes |-> c[l].start], nums = [l \in GroupLanes |-> c[l].num]
    PROVE  Turn(Turned(c, n), n, starts, nums) = Turned(c, n + 1)
<1>1. PICK was : was = Turned(c, n)
    OBVIOUS
<1>2. PICK at : at = TurnAddr(was, n, starts, nums)
    OBVIOUS
<1>3. ASSUME NEW l \in GroupLanes
      PROVE  /\ at[l] = AddrAfter(c[l], Upto(n + 1, c[l].num))
             /\ (IF LaneActive(n, nums, l) THEN ThashX4Model(was.chain, at)[l]
                 ELSE was.chain[l]) = After(c[l], Upto(n + 1, c[l].num))
    <2>1. PICK d \in Chains : d = c[l]
        OBVIOUS
    <2>2. d.addr \in Addrs /\ d.start \in Nat /\ d.num \in Nat
        BY DEF Chains
    <2>3. was.addr[l] = AddrAfter(d, Upto(n, d.num)) /\ was.chain[l] = After(d, Upto(n, d.num))
        BY <1>1, <2>1 DEF Turned
    <2>4. /\ LaneActive(n, nums, l) <=> n < d.num
          /\ at[l] = IF n < d.num THEN SetHash(was.addr[l], d.start + n) ELSE was.addr[l]
        BY <1>2, <2>1 DEF TurnAddr, LaneActive
    <2>5. CASE n < d.num
        <3>1. Upto(n, d.num) = n /\ Upto(n + 1, d.num) = n + 1
            BY <2>2, <2>5 DEF Upto
        <3>2. d.start + n \in Nat /\ d.start + (n + 1) - 1 = d.start + n /\ n + 1 # 0
            BY <2>2
        <3>3. AddrAfter(d, n + 1) = SetHash(d.addr, d.start + n)
            BY <3>2 DEF AddrAfter
        <3>4. at[l] = SetHash(d.addr, d.start + n)
            <4>1. at[l] = SetHash(AddrAfter(d, n), d.start + n)
                BY <2>3, <2>4, <2>5, <3>1
            <4>2. CASE n = 0
                BY <4>1, <4>2 DEF AddrAfter
            <4>3. CASE n # 0
                <5>1. AddrAfter(d, n) = SetHash(d.addr, d.start + n - 1) /\ d.start + n - 1 \in Nat
                    BY <2>2, <4>3 DEF AddrAfter
                <5>2. QED
                    BY <2>2, <3>2, <4>1, <5>1, SetHashIs
            <4>4. QED
                BY <4>2, <4>3
        <3>5. ThashX4Model(was.chain, at)[l] = Hashed(After(d, n), SetHash(d.addr, d.start + n))
            <4>1. ThashX4Model(was.chain, at)[l] = Hashed(was.chain[l], at[l])
                BY DEF ThashX4Model
            <4>2. QED
                BY <4>1, <2>3, <3>1, <3>4
        <3>6. ThashX4Model(was.chain, at)[l] = After(d, n + 1)
            BY <3>5, AfterNext
        <3>7. QED
            BY <2>1, <2>4, <2>5, <3>1, <3>3, <3>4, <3>6
    <2>6. CASE ~(n < d.num)
        <3>1. Upto(n, d.num) = d.num /\ Upto(n + 1, d.num) = d.num
            BY <2>2, <2>6 DEF Upto
        <3>2. QED
            BY <2>1, <2>3, <2>4, <2>6, <3>1
    <2>7. QED
        BY <2>5, <2>6
<1>4. at = [l \in GroupLanes |-> AddrAfter(c[l], Upto(n + 1, c[l].num))]
    <2>1. at = [l \in GroupLanes |-> at[l]]
        BY <1>2 DEF TurnAddr
    <2>2. QED
        BY <1>3, <2>1
<1>5. [l \in GroupLanes |-> IF LaneActive(n, nums, l) THEN ThashX4Model(was.chain, at)[l]
                            ELSE was.chain[l]]
        = [l \in GroupLanes |-> After(c[l], Upto(n + 1, c[l].num))]
    BY <1>3
<1>6. Turn(was, n, starts, nums)
        = [addr |-> at, chain |-> [l \in GroupLanes |->
                                      IF LaneActive(n, nums, l) THEN ThashX4Model(was.chain, at)[l]
                                      ELSE was.chain[l]]]
    BY <1>2 DEF Turn
<1>7. QED
    BY <1>1, <1>4, <1>5, <1>6 DEF Turned

LEMMA TurnedNone ==
    ASSUME NEW c \in [GroupLanes -> Chains], NEW in, NEW addr, NEW starts, NEW nums,
           LanesOf(c, in, addr, starts, nums)
    PROVE  Turned(c, 0) = [chain |-> in, addr |-> addr]
<1>1. ASSUME NEW l \in GroupLanes
      PROVE  /\ AddrAfter(c[l], Upto(0, c[l].num)) = c[l].addr
             /\ After(c[l], Upto(0, c[l].num)) = c[l].input
    <2>1. PICK d \in Chains : d = c[l]
        OBVIOUS
    <2>2. Upto(0, d.num) = 0
        BY DEF Upto, Chains
    <2>3. QED
        BY <2>1, <2>2, AfterNone DEF AddrAfter
<1>2. /\ [l \in GroupLanes |-> AddrAfter(c[l], Upto(0, c[l].num))] = addr
      /\ [l \in GroupLanes |-> After(c[l], Upto(0, c[l].num))] = in
    BY <1>1 DEF LanesOf
<1>3. QED
    BY <1>2 DEF Turned

LEMMA MixedRunExists ==
    ASSUME NEW c \in [GroupLanes -> Chains], NEW in, NEW addr, NEW starts, NEW nums,
           LanesOf(c, in, addr, starts, nums), LongestOf(nums) \in Nat
    PROVE  \E f : MixedRun(in, addr, starts, nums, f)
<1> DEFINE f == [n \in 0 .. LongestOf(nums) |-> Turned(c, n)]
<1>1. ASSUME NEW n \in 0 .. LongestOf(nums)
      PROVE  f[n] = IF n = 0 THEN [chain |-> in, addr |-> addr]
                    ELSE Turn(f[n - 1], n - 1, starts, nums)
    <2>1. CASE n = 0
        BY <2>1, TurnedNone
    <2>2. CASE n # 0
        <3>1. n - 1 \in Nat /\ n - 1 \in 0 .. LongestOf(nums) /\ (n - 1) + 1 = n
            BY <2>2
        <3>2. Turn(Turned(c, n - 1), n - 1, starts, nums) = Turned(c, (n - 1) + 1)
            BY <3>1, TurnMoves DEF LanesOf
        <3>3. f[n] = Turned(c, n) /\ f[n - 1] = Turned(c, n - 1)
            BY <3>1
        <3>4. QED
            BY <2>2, <3>1, <3>2, <3>3
    <2>3. QED
        BY <2>1, <2>2
<1>2. f = [n \in 0 .. LongestOf(nums) |-> f[n]]
    OBVIOUS
<1> HIDE DEF f
<1>3. QED
    BY <1>1, <1>2 DEF MixedRun

LEMMA MixedRunIs ==
    ASSUME NEW c \in [GroupLanes -> Chains], NEW in, NEW addr, NEW starts, NEW nums,
           LanesOf(c, in, addr, starts, nums), LongestOf(nums) \in Nat,
           NEW f, MixedRun(in, addr, starts, nums, f)
    PROVE  f[LongestOf(nums)] = Turned(c, LongestOf(nums))
<1> DEFINE S == {n \in Nat : n <= LongestOf(nums) => f[n] = Turned(c, n)}
<1>1. 0 \in S
    <2>1. f[0] = [chain |-> in, addr |-> addr]
        BY DEF MixedRun
    <2>2. QED
        BY <2>1, TurnedNone
<1>2. ASSUME NEW n \in Nat, n \in S PROVE n + 1 \in S
    <2>1. SUFFICES ASSUME n + 1 <= LongestOf(nums) PROVE f[n + 1] = Turned(c, n + 1)
        OBVIOUS
    <2>2. f[n] = Turned(c, n) /\ n + 1 \in 0 .. LongestOf(nums) /\ n + 1 # 0 /\ (n + 1) - 1 = n
        BY <1>2, <2>1
    <2>3. f[n + 1] = Turn(f[(n + 1) - 1], (n + 1) - 1, starts, nums)
        BY <2>2 DEF MixedRun
    <2>4. Turn(Turned(c, n), n, starts, nums) = Turned(c, n + 1)
        BY TurnMoves DEF LanesOf
    <2>5. QED
        BY <2>2, <2>3, <2>4
<1> HIDE DEF S
<1>3. LongestOf(nums) \in S
    BY <1>1, <1>2, Induct
<1>4. QED
    BY <1>3 DEF S

\* Four chains in lockstep are four chains, whatever their windows.
LEMMA MixedModelIs ==
    ASSUME NEW c \in [GroupLanes -> Chains], NEW in, NEW addr, NEW starts, NEW nums,
           LanesOf(c, in, addr, starts, nums)
    PROVE  MixedModel(in, addr, starts, nums) = [l \in GroupLanes |-> ChainAsDefined(c[l])]
<1> DEFINE f == CHOOSE g : MixedRun(in, addr, starts, nums, g)
<1>1. MixedModel(in, addr, starts, nums) = f[LongestOf(nums)].chain
    BY DEF MixedModel, MixedRun, Turn, TurnAddr
<1>2. nums \in [GroupLanes -> Nat] /\ \A l \in GroupLanes : nums[l] = c[l].num
    BY DEF LanesOf, Chains
<1>3. PICK m \in Nat : m = LongestOf(nums) /\ \A l \in GroupLanes : nums[l] <= m
    BY <1>2, LongestIs
<1>4. MixedRun(in, addr, starts, nums, f)
    BY <1>3, MixedRunExists
<1> HIDE DEF f
<1>5. f[m] = Turned(c, m)
    BY <1>3, <1>4, MixedRunIs
<1>6. ASSUME NEW l \in GroupLanes PROVE After(c[l], Upto(m, c[l].num)) = ChainAsDefined(c[l])
    <2>1. Upto(m, c[l].num) = c[l].num
        BY <1>2, <1>3 DEF Upto
    <2>2. QED
        BY <2>1 DEF After, ChainAsDefined
<1>7. Turned(c, m).chain = [l \in GroupLanes |-> ChainAsDefined(c[l])]
    BY <1>6 DEF Turned
<1>8. QED
    BY <1>1, <1>3, <1>5, <1>7

----------------------------------------------------------------------------
(***************************************************************************)
(* A group executed, and the sums over chains.                             *)
(***************************************************************************)
LEMMA ChainInIsChain ==
    ASSUME chains \in Seq(Chains), NEW g \in Nat
    PROVE  /\ \A l \in GroupLanes : ChainIn(g, l) \in Chains
           /\ \A l \in GroupLanes :
                 ChainIn(g, l) = IF 4 * g + l < Len(chains) THEN chains[4 * g + l + 1] ELSE NoChain
<1>1. NoChain \in Chains
    <2>1. -1 \in Int /\ 0 \in Nat /\ 0 \in Int
        OBVIOUS
    <2>2. [from |-> -1, trail |-> <<>>] \in [from : Int, trail : {<<>>}]
        BY <2>1
    <2>3. [base |-> -1, hash |-> 0] \in Addrs
        BY <2>1 DEF Addrs
    <2>4. QED
        BY <2>1, <2>2, <2>3 DEF NoChain, Chains, Absent
<1>2. ASSUME NEW l \in GroupLanes
      PROVE  /\ ChainIn(g, l) \in Chains
             /\ ChainIn(g, l) = IF 4 * g + l < Len(chains) THEN chains[4 * g + l + 1] ELSE NoChain
    <2>1. l \in Nat /\ Len(chains) \in Nat
        BY LenProperties DEF GroupLanes
    <2>2. CASE 4 * g + l < Len(chains)
        <3>1. ChainIndex(g, l) = 4 * g + l /\ 4 * g + l # Absent
            BY <2>1, <2>2 DEF ChainIndex, Absent
        <3>2. 4 * g + l + 1 \in 1 .. Len(chains)
            BY <2>1, <2>2
        <3>3. chains[4 * g + l + 1] \in Chains
            BY <3>2, ElementOfSeq
        <3>4. QED
            BY <2>2, <3>1, <3>3 DEF ChainIn
    <2>3. CASE ~(4 * g + l < Len(chains))
        <3>1. ChainIndex(g, l) = Absent
            BY <2>3 DEF ChainIndex
        <3>2. QED
            BY <1>1, <2>3, <3>1 DEF ChainIn
    <2>4. QED
        BY <2>2, <2>3
<1>3. QED
    BY <1>2

LEMMA ExecuteGroupIs ==
    ASSUME chains \in Seq(Chains), NEW g \in Nat
    PROVE  ExecuteGroup(g) = [l \in GroupLanes |-> ChainAsDefined(ChainIn(g, l))]
<1>1. PICK c : c = [l \in GroupLanes |-> ChainIn(g, l)]
    OBVIOUS
<1>2. c \in [GroupLanes -> Chains] /\ \A l \in GroupLanes : c[l] = ChainIn(g, l)
    BY <1>1, ChainInIsChain
<1>3. PICK in, addr, starts, nums :
          /\ in = [l \in GroupLanes |-> ChainIn(g, l).input]
          /\ addr = [l \in GroupLanes |-> ChainIn(g, l).addr]
          /\ starts = [l \in GroupLanes |-> ChainIn(g, l).start]
          /\ nums = [l \in GroupLanes |-> ChainIn(g, l).num]
    OBVIOUS
<1>4. LanesOf(c, in, addr, starts, nums)
    BY <1>2, <1>3 DEF LanesOf
<1>5. nums \in [GroupLanes -> Nat] /\ \A l \in GroupLanes : nums[l] = c[l].num
    BY <1>2, <1>4 DEF LanesOf, Chains
<1>6. PICK d : d = BuildDescriptor(g)
    OBVIOUS
<1>7. /\ d.longest = LongestOf(nums) /\ d.starts = starts /\ d.nums = nums
      /\ d.uniform => d.longest > 0
      /\ d.uniform => \A l \in GroupLanes : starts[l] = starts[0] /\ nums[l] = nums[0]
      /\ d.uniform \in BOOLEAN
    BY <1>3, <1>6 DEF BuildDescriptor
<1>8. /\ d.longest = 0 => ExecuteGroup(g) = in
      /\ d.longest # 0 /\ d.uniform =>
            ExecuteGroup(g) = UniformModel(in, addr, d.starts[0], d.nums[0])
      /\ d.longest # 0 /\ ~d.uniform => ExecuteGroup(g) = MixedModel(in, addr, d.starts, d.nums)
    <2>1. PICK x, y, z : /\ x = in /\ y = UniformModel(in, addr, d.starts[0], d.nums[0])
                         /\ z = MixedModel(in, addr, d.starts, d.nums)
        OBVIOUS
    <2>2. ExecuteGroup(g) = CASE d.longest = 0 -> in
                              [] d.uniform     -> UniformModel(in, addr, d.starts[0], d.nums[0])
                              [] OTHER         -> MixedModel(in, addr, d.starts, d.nums)
        BY <1>3, <1>6 DEF ExecuteGroup
    <2>3. PICK u \in BOOLEAN : u <=> d.longest = 0
        OBVIOUS
    <2>4. PICK v \in BOOLEAN : v <=> d.uniform
        OBVIOUS
    <2>5. ExecuteGroup(g) = CASE u -> x [] v -> y [] OTHER -> z
        BY <2>1, <2>2, <2>3, <2>4
    <2>6. ~(u /\ v)
        BY <1>7, <2>3, <2>4
    <2>7. (u => ExecuteGroup(g) = x) /\ (~u /\ v => ExecuteGroup(g) = y)
        BY <2>5, <2>6
    <2>8. ~u /\ ~v => ExecuteGroup(g) = z
        BY <2>5, <2>6
    <2>9. QED
        BY <2>1, <2>3, <2>4, <2>7, <2>8
<1>9. CASE d.longest = 0
    <2>1. \A l \in GroupLanes : c[l].num = 0
        <3>1. \A l \in GroupLanes : nums[l] <= 0 /\ nums[l] \in Nat
            BY <1>5, <1>7, <1>9, LongestIs
        <3>2. QED
            BY <1>5, <3>1
    <2>2. \A l \in GroupLanes : ChainAsDefined(c[l]) = c[l].input
        <3>1. TAKE l \in GroupLanes
        <3>2. ChainAsDefined(c[l]) = After(c[l], 0)
            BY <2>1 DEF ChainAsDefined, After
        <3>3. QED
            BY <1>2, <3>2, AfterNone
    <2>3. ExecuteGroup(g) = in
        BY <1>8, <1>9
    <2>4. QED
        BY <1>2, <1>3, <2>2, <2>3
<1>10. CASE d.longest # 0 /\ d.uniform
    <2>1. ExecuteGroup(g) = UniformModel(in, addr, starts[0], nums[0])
        BY <1>7, <1>8, <1>10
    <2>2. starts = [l \in GroupLanes |-> starts[0]] /\ nums = [l \in GroupLanes |-> nums[0]]
        BY <1>3, <1>7, <1>10
    <2>3. UniformModel(in, addr, starts[0], nums[0]) = MixedModel(in, addr, starts, nums)
        BY <2>2 DEF UniformModel
    <2>4. QED
        BY <1>2, <1>4, <2>1, <2>3, MixedModelIs
<1>11. CASE d.longest # 0 /\ ~d.uniform
    <2>1. ExecuteGroup(g) = MixedModel(in, addr, starts, nums)
        BY <1>7, <1>8, <1>11
    <2>2. QED
        BY <1>2, <1>4, <2>1, MixedModelIs
<1>12. QED
    BY <1>9, <1>10, <1>11

----------------------------------------------------------------------------
LEMMA CapacityIs ==
    ASSUME NEW n \in Nat
    PROVE  /\ Capacity(n) \in Nat
           /\ \A g \in 0 .. Capacity(n) - 1 : 4 * g < n
           /\ n <= 4 * Capacity(n)
    BY DEF Capacity

LEMMA PresentIs ==
    ASSUME chains \in Seq(Chains), NEW g \in Nat, 4 * g < Len(chains)
    PROVE  /\ Present(g) = {l \in GroupLanes : 4 * g + l < Len(chains)}
           /\ Cardinality(Present(g)) = Upto(4, Len(chains) - 4 * g)
<1>1. Len(chains) \in Nat
    BY LenProperties
<1>2. Present(g) = {l \in GroupLanes : 4 * g + l < Len(chains)}
    <2>1. \A l \in GroupLanes : ChainIndex(g, l) # Absent <=> 4 * g + l < Len(chains)
        BY DEF ChainIndex, Absent, GroupLanes
    <2>2. QED
        BY <2>1 DEF Present
<1>3. PICK k : k = Upto(4, Len(chains) - 4 * g)
    OBVIOUS
<1>4. k \in 1 .. 4 /\ k <= Len(chains) - 4 * g /\ (k < 4 => k = Len(chains) - 4 * g)
    <2>1. PICK r : r = Len(chains) - 4 * g
        OBVIOUS
    <2>2. r \in Nat /\ r > 0
        BY <1>1, <2>1
    <2>3. k = IF 4 <= r THEN 4 ELSE r
        BY <1>3, <2>1 DEF Upto
    <2>4. k \in 1 .. 4 /\ k <= r /\ (k < 4 => k = r)
        <3>1. CASE 4 <= r
            BY <2>2, <2>3, <3>1
        <3>2. CASE ~(4 <= r)
            BY <2>2, <2>3, <3>2
        <3>3. QED
            BY <3>1, <3>2
    <2>5. QED
        BY <2>1, <2>4
<1>5. Present(g) = 0 .. k - 1
    BY <1>1, <1>2, <1>4 DEF GroupLanes
<1>6. Cardinality(0 .. k - 1) = k
    BY <1>4, FS_Interval
<1>7. QED
    BY <1>2, <1>3, <1>5, <1>6

----------------------------------------------------------------------------
SumRun(s, f) ==
    f = [n \in 0 .. Len(s) |-> IF n = 0 THEN 0 ELSE f[n - 1] + s[n].num]
SumTo(s, n) == (CHOOSE f : SumRun(s, f))[n]

SumStart(s, m, f) ==
    f = [n \in 0 .. m |-> IF n = 0 THEN 0 ELSE f[n - 1] + s[n].num]

LEMMA SumExists ==
    ASSUME NEW s, Len(s) \in Nat
    PROVE  \E f : SumRun(s, f)
<1> DEFINE S == {m \in Nat : \E f : SumStart(s, m, f)}
<1>1. 0 \in S
    <2>1. SumStart(s, 0, [k \in 0 .. 0 |-> 0])
        BY DEF SumStart
    <2>2. QED
        BY <2>1
<1>2. ASSUME NEW m \in Nat, m \in S PROVE m + 1 \in S
    <2>1. PICK f : SumStart(s, m, f)
        BY <1>2
    <2> DEFINE h == [n \in 0 .. m + 1 |-> IF n = m + 1 THEN f[m] + s[m + 1].num ELSE f[n]]
    <2>2. ASSUME NEW n \in 0 .. m + 1
          PROVE  h[n] = IF n = 0 THEN 0 ELSE h[n - 1] + s[n].num
        <3>1. CASE n = m + 1
            <4>1. h[n] = f[m] + s[m + 1].num /\ h[n - 1] = f[m]
                BY <3>1
            <4>2. QED
                BY <3>1, <4>1
        <3>2. CASE n \in 0 .. m
            <4>1. f[n] = IF n = 0 THEN 0 ELSE f[n - 1] + s[n].num
                BY <2>1, <3>2 DEF SumStart
            <4>2. h[n] = f[n] /\ (n # 0 => h[n - 1] = f[n - 1])
                BY <3>2
            <4>3. QED
                BY <4>1, <4>2
        <3>3. QED
            BY <3>1, <3>2
    <2>3. h = [n \in 0 .. m + 1 |-> h[n]]
        OBVIOUS
    <2> HIDE DEF h
    <2>4. SumStart(s, m + 1, h)
        BY <2>2, <2>3 DEF SumStart
    <2>5. QED
        BY <2>4
<1> HIDE DEF S
<1>3. Len(s) \in S
    BY <1>1, <1>2, Induct
<1>4. QED
    BY <1>3 DEF S, SumStart, SumRun

LEMMA SumToIs ==
    ASSUME NEW s, Len(s) \in Nat
    PROVE  /\ SumTo(s, 0) = 0
           /\ \A n \in 0 .. Len(s) - 1 : SumTo(s, n + 1) = SumTo(s, n) + s[n + 1].num
<1>1. PICK f : f = CHOOSE g : SumRun(s, g)
    OBVIOUS
<1>2. SumRun(s, f)
    BY <1>1, SumExists
<1>3. \A n : SumTo(s, n) = f[n]
    BY <1>1 DEF SumTo
<1>4. f[0] = 0
    BY <1>2 DEF SumRun
<1>5. \A n \in 0 .. Len(s) - 1 : f[n + 1] = f[n] + s[n + 1].num
    <2>1. TAKE n \in 0 .. Len(s) - 1
    <2>2. n + 1 \in 0 .. Len(s) /\ n + 1 # 0 /\ (n + 1) - 1 = n
        OBVIOUS
    <2>3. f[n + 1] = f[(n + 1) - 1] + s[n + 1].num
        BY <1>2, <2>2 DEF SumRun
    <2>4. QED
        BY <2>2, <2>3
<1>6. QED
    BY <1>3, <1>4, <1>5

LEMMA StepsAskedIs == StepsAsked = SumTo(chains, Len(chains))
    BY DEF StepsAsked, SumTo, SumRun

LEMMA SumUp ==
    ASSUME chains \in Seq(Chains), NEW n \in Nat, n < Len(chains)
    PROVE  SumTo(chains, Upto(n + 1, Len(chains)))
             = SumTo(chains, Upto(n, Len(chains))) + chains[n + 1].num
<1>1. Len(chains) \in Nat
    BY LenProperties
<1>2. Upto(n + 1, Len(chains)) = n + 1 /\ Upto(n, Len(chains)) = n /\ n \in 0 .. Len(chains) - 1
    BY <1>1 DEF Upto
<1>3. QED
    BY <1>1, <1>2, SumToIs

----------------------------------------------------------------------------
(***************************************************************************)
(* Groups and the chains in them.                                          *)
(***************************************************************************)
Legal(c) == c.start + c.num \in 0 .. 16 /\ c.num <= 15

\* The chains of the first n groups.
GroupEnd(n) == Upto(4 * n, Len(chains))

LEMMA GroupEndIs ==
    ASSUME chains \in Seq(Chains)
    PROVE  /\ \A n \in Nat : GroupEnd(n) \in 0 .. Len(chains)
           /\ GroupEnd(0) = 0
           /\ GroupEnd(Capacity(Len(chains))) = Len(chains)
           /\ \A g \in Groups : /\ 4 * g < Len(chains) /\ GroupEnd(g) = 4 * g
                                /\ GroupEnd(g + 1) = Upto(4 * g + 4, Len(chains))
<1>1. PICK n \in Nat : n = Len(chains)
    BY LenProperties
<1>2. \A m \in Nat : Upto(m, n) \in 0 .. n
    BY DEF Upto
<1>3. \A g \in Groups : g \in Nat /\ 4 * g < n
    BY <1>1, CapacityIs DEF Groups
<1>4. \A g \in Nat : 4 * g < n => Upto(4 * g, n) = 4 * g
    BY DEF Upto
<1>5. Upto(4 * 0, n) = 0
    BY DEF Upto
<1>6. Upto(4 * Capacity(n), n) = n
    <2>1. PICK m \in Nat : m = 4 * Capacity(n) /\ n <= m
        <3>1. PICK k \in Nat : k = Capacity(n) /\ n <= 4 * k
            BY CapacityIs
        <3>2. 4 * k \in Nat
            OBVIOUS
        <3>3. QED
            BY <3>1, <3>2
    <2>2. Upto(m, n) = n
        BY <2>1 DEF Upto
    <2>3. QED
        BY <2>1, <2>2
<1>7. \A g \in Nat : 4 * g \in Nat /\ 4 * (g + 1) = 4 * g + 4
    OBVIOUS
<1>8. QED
    BY <1>1, <1>2, <1>3, <1>4, <1>5, <1>6, <1>7 DEF GroupEnd

\* Chain i + 1 is lane i % 4 of group i \div 4.
LEMMA LaneHasChain ==
    ASSUME chains \in Seq(Chains), NEW g \in Groups
    PROVE  /\ \A l \in Present(g) : /\ 4 * g + l + 1 \in DOMAIN chains
                                    /\ ChainIn(g, l) = chains[4 * g + l + 1]
           /\ \A i \in GroupEnd(g) + 1 .. GroupEnd(g + 1) :
                 /\ i - 1 - 4 * g \in Present(g)
                 /\ i \in DOMAIN chains /\ ChainIn(g, i - 1 - 4 * g) = chains[i]
<1>1. PICK n \in Nat : n = Len(chains) /\ DOMAIN chains = 1 .. n
    BY LenProperties
<1>2. /\ g \in Nat /\ 4 * g < n /\ GroupEnd(g) = 4 * g
      /\ GroupEnd(g + 1) = Upto(4 * g + 4, n)
    BY <1>1, GroupEndIs DEF Groups
<1>3. Present(g) = {l \in GroupLanes : 4 * g + l < n}
    BY <1>1, <1>2, PresentIs
<1>4. ASSUME NEW l \in Present(g)
      PROVE  4 * g + l + 1 \in DOMAIN chains /\ ChainIn(g, l) = chains[4 * g + l + 1]
    <2>1. l \in GroupLanes /\ l \in Nat /\ 4 * g + l < n
        BY <1>3 DEF GroupLanes
    <2>2. ChainIn(g, l) = chains[4 * g + l + 1]
        BY <1>1, <1>2, <2>1, ChainInIsChain
    <2>3. QED
        BY <1>1, <1>2, <2>1, <2>2
<1>5. ASSUME NEW i \in GroupEnd(g) + 1 .. GroupEnd(g + 1)
      PROVE  /\ i - 1 - 4 * g \in Present(g)
             /\ i \in DOMAIN chains /\ ChainIn(g, i - 1 - 4 * g) = chains[i]
    <2>1. i \in Int /\ 4 * g + 1 <= i /\ i <= Upto(4 * g + 4, n)
        <3>1. Upto(4 * g + 4, n) \in Nat
            BY <1>2 DEF Upto
        <3>2. QED
            BY <1>2, <3>1
    <2>2. i <= n /\ i <= 4 * g + 4
        BY <1>2, <2>1 DEF Upto
    <2>3. PICK l : l = i - 1 - 4 * g
        OBVIOUS
    <2>4. l \in GroupLanes /\ 4 * g + l < n /\ 4 * g + l + 1 = i
        BY <1>2, <2>1, <2>2, <2>3 DEF GroupLanes
    <2>5. l \in Present(g)
        BY <1>3, <2>4
    <2>6. QED
        BY <1>4, <2>3, <2>4, <2>5
<1>6. QED
    BY <1>4, <1>5

LEMMA WindowIsLegal ==
    ASSUME NEW c \in Chains
    PROVE  ValidWindow(c.start, c.num) <=> Legal(c)
<1>1. PICK s \in Nat, n \in Nat : s = c.start /\ n = c.num
    BY DEF Chains
<1>2. s + n \in Nat
    OBVIOUS
<1>3. ValidWindow(s, n) <=> s + n \in 0 .. 16 /\ n <= 15
    BY DEF ValidWindow, ChainSteps, MaxSteps
<1>4. QED
    BY <1>1, <1>3 DEF Legal

LEMMA BuildableIs ==
    ASSUME chains \in Seq(Chains), NEW g \in Groups
    PROVE  /\ Buildable(g) => \A i \in GroupEnd(g) + 1 .. GroupEnd(g + 1) : Legal(chains[i])
           /\ ~Buildable(g) => \E i \in DOMAIN chains : ~Legal(chains[i])
<1>1. \A i \in DOMAIN chains : chains[i] \in Chains
    BY LenProperties, ElementOfSeq
<1>2. ASSUME Buildable(g), NEW i \in GroupEnd(g) + 1 .. GroupEnd(g + 1)
      PROVE  Legal(chains[i])
    <2>1. PICK l \in Present(g) : i \in DOMAIN chains /\ ChainIn(g, l) = chains[i]
        BY LaneHasChain
    <2>2. ValidWindow(chains[i].start, chains[i].num)
        BY <1>2, <2>1 DEF Buildable
    <2>3. QED
        BY <1>1, <2>1, <2>2, WindowIsLegal
<1>3. ASSUME ~Buildable(g) PROVE \E i \in DOMAIN chains : ~Legal(chains[i])
    <2>1. PICK l \in Present(g) : ~ValidWindow(ChainIn(g, l).start, ChainIn(g, l).num)
        BY <1>3 DEF Buildable
    <2>2. PICK i \in DOMAIN chains : ChainIn(g, l) = chains[i]
        BY LaneHasChain
    <2>3. QED
        BY <1>1, <2>1, <2>2, WindowIsLegal
<1>4. QED
    BY <1>2, <1>3

LEMMA SumIsNat ==
    ASSUME chains \in Seq(Chains), NEW n \in 0 .. Len(chains)
    PROVE  SumTo(chains, n) \in Nat
<1> DEFINE S == {m \in Nat : m <= Len(chains) => SumTo(chains, m) \in Nat}
<1>1. Len(chains) \in Nat /\ \A m \in 1 .. Len(chains) : chains[m].num \in Nat
    <2>1. Len(chains) \in Nat /\ \A m \in 1 .. Len(chains) : chains[m] \in Chains
        BY LenProperties, ElementOfSeq
    <2>2. \A c \in Chains : c.num \in Nat
        BY DEF Chains
    <2>3. QED
        BY <2>1, <2>2
<1>2. 0 \in S
    BY <1>1, SumToIs
<1>3. ASSUME NEW m \in Nat, m \in S PROVE m + 1 \in S
    <2>1. SUFFICES ASSUME m + 1 <= Len(chains) PROVE SumTo(chains, m + 1) \in Nat
        OBVIOUS
    <2>2. m \in 0 .. Len(chains) - 1 /\ m + 1 \in 1 .. Len(chains) /\ SumTo(chains, m) \in Nat
        BY <1>1, <1>3, <2>1
    <2>3. QED
        BY <1>1, <2>2, SumToIs
<1> HIDE DEF S
<1>4. n \in S
    BY <1>1, <1>2, <1>3, Induct
<1>5. QED
    BY <1>1, <1>4 DEF S

\* What a group adds to the sum of the steps, and that its longest lane
\* outweighs it four times.
LEMMA DescriptorCounts ==
    ASSUME chains \in Seq(Chains), NEW g \in Groups, NEW d, d = BuildDescriptor(g)
    PROVE  /\ d.longest \in Nat /\ d.useful \in Nat /\ d.uniform \in BOOLEAN
           /\ d.useful <= 4 * d.longest
           /\ SumTo(chains, GroupEnd(g + 1)) = SumTo(chains, GroupEnd(g)) + d.useful
<1>1. PICK nums : nums = [l \in GroupLanes |-> ChainIn(g, l).num]
    OBVIOUS
<1>2. PICK n \in Nat : n = Len(chains)
    BY LenProperties
<1>3. g \in Nat /\ 4 * g < n
    BY <1>2, GroupEndIs DEF Groups
<1>4. /\ nums \in [GroupLanes -> Nat]
      /\ \A l \in GroupLanes : nums[l] = IF 4 * g + l < n THEN chains[4 * g + l + 1].num ELSE 0
    <2>1. \A l \in GroupLanes : /\ ChainIn(g, l) \in Chains
                                /\ ChainIn(g, l) = IF 4 * g + l < n THEN chains[4 * g + l + 1]
                                                   ELSE NoChain
        BY <1>2, <1>3, ChainInIsChain
    <2>2. QED
        BY <1>1, <2>1 DEF Chains, NoChain
<1>5. /\ d.longest = LongestOf(nums) /\ d.useful = nums[0] + nums[1] + nums[2] + nums[3]
      /\ d.uniform \in BOOLEAN
    BY <1>1 DEF BuildDescriptor
<1>6. LongestOf(nums) \in Nat /\ \A l \in GroupLanes : nums[l] <= LongestOf(nums)
    BY <1>4, LongestIs
<1>7. 0 \in GroupLanes /\ 1 \in GroupLanes /\ 2 \in GroupLanes /\ 3 \in GroupLanes
    BY DEF GroupLanes
<1>8. /\ nums[0] \in Nat /\ nums[1] \in Nat /\ nums[2] \in Nat /\ nums[3] \in Nat
    BY <1>4, <1>7
<1>9. d.longest \in Nat /\ d.useful \in Nat /\ d.useful <= 4 * d.longest
    BY <1>5, <1>6, <1>7, <1>8
<1>10. ASSUME NEW l \in GroupLanes
       PROVE  SumTo(chains, Upto(4 * g + l + 1, n)) = SumTo(chains, Upto(4 * g + l, n)) + nums[l]
    <2>1. 4 * g + l \in Nat
        BY <1>3 DEF GroupLanes
    <2>2. CASE 4 * g + l < n
        <3>1. SumTo(chains, Upto(4 * g + l + 1, n))
                = SumTo(chains, Upto(4 * g + l, n)) + chains[4 * g + l + 1].num
            BY <1>2, <2>1, <2>2, SumUp
        <3>2. QED
            BY <1>4, <2>2, <3>1
    <2>3. CASE ~(4 * g + l < n)
        <3>1. Upto(4 * g + l + 1, n) = n /\ Upto(4 * g + l, n) = n
            BY <2>1, <2>3 DEF Upto
        <3>2. nums[l] = 0
            BY <1>4, <2>3
        <3>3. QED
            BY <3>1, <3>2, SumIsNat, <1>2
    <2>4. QED
        BY <2>2, <2>3
<1>11. QED
    <2>1. PICK s0, s1, s2, s3, s4 :
              /\ s0 = SumTo(chains, Upto(4 * g, n)) /\ s1 = SumTo(chains, Upto(4 * g + 1, n))
              /\ s2 = SumTo(chains, Upto(4 * g + 2, n)) /\ s3 = SumTo(chains, Upto(4 * g + 3, n))
              /\ s4 = SumTo(chains, Upto(4 * g + 4, n))
        OBVIOUS
    <2>2. /\ 4 * g + 0 = 4 * g /\ 4 * g + 0 + 1 = 4 * g + 1 /\ 4 * g + 1 + 1 = 4 * g + 2
          /\ 4 * g + 2 + 1 = 4 * g + 3 /\ 4 * g + 3 + 1 = 4 * g + 4
        BY <1>3
    <2>3. s1 = s0 + nums[0] /\ s2 = s1 + nums[1] /\ s3 = s2 + nums[2] /\ s4 = s3 + nums[3]
        BY <1>7, <1>10, <2>1, <2>2
    <2>4. s0 \in Nat
        <3>1. Upto(4 * g, n) \in 0 .. Len(chains)
            BY <1>2, <1>3 DEF Upto
        <3>2. QED
            BY <2>1, <3>1, SumIsNat
    <2>5. s4 = s0 + d.useful
        <3>1. PICK a, b, c, e : a = nums[0] /\ b = nums[1] /\ c = nums[2] /\ e = nums[3]
            OBVIOUS
        <3>2. a \in Nat /\ b \in Nat /\ c \in Nat /\ e \in Nat
            BY <1>8, <3>1
        <3>3. s4 = s0 + a + b + c + e /\ d.useful = a + b + c + e
            BY <1>5, <2>3, <2>4, <3>1, <3>2
        <3>4. QED
            BY <2>4, <3>2, <3>3
    <2>6. SumTo(chains, GroupEnd(g + 1)) = s4 /\ SumTo(chains, GroupEnd(g)) = s0
        <3>1. GroupEnd(g) = Upto(4 * g, n) /\ GroupEnd(g + 1) = Upto(4 * g + 4, n)
            BY <1>2, GroupEndIs DEF GroupEnd
        <3>2. QED
            BY <2>1, <3>1
    <2>7. QED
        BY <1>5, <1>9, <2>5, <2>6

----------------------------------------------------------------------------
(***************************************************************************)
(* The call: grouped, counted, executed.                                   *)
(***************************************************************************)
LegalTo(n) == \A i \in 1 .. n : Legal(chains[i])
Added(n) ==
    /\ stats.useful = SumTo(chains, n)
    /\ stats.useful \in Nat /\ stats.physical \in Nat /\ stats.baseline \in Nat
    /\ stats.descriptors \in Nat /\ stats.uniform \in Nat /\ stats.mixed \in Nat
    /\ stats.useful <= stats.physical
    /\ stats.descriptors = stats.uniform + stats.mixed
    /\ stats.descriptors <= stats.baseline
DoneTo(n) ==
    /\ grouped \in Seq(Values) /\ Len(grouped) = n
    /\ \A i \in 1 .. n : grouped[i] = ChainAsDefined(chains[i])

AllGroups == Capacity(Len(chains))
GroupingInv ==
    /\ chains \in Seq(Chains)
    /\ progress \in {"calling", "grouping"} => grouped = <<>>
    /\ progress = "grouping" =>
          group \in 0 .. AllGroups /\ LegalTo(GroupEnd(group)) /\ Added(GroupEnd(group))
    /\ progress \in {"executing", "compared"} => LegalTo(Len(chains)) /\ Added(Len(chains))
    /\ progress = "executing" => group \in 0 .. AllGroups /\ DoneTo(GroupEnd(group))
    /\ progress = "compared" => DoneTo(Len(chains))
    /\ progress = "refused" => \E i \in DOMAIN chains : ~Legal(chains[i])

LEMMA GroupingStarts == GroupingInit => GroupingInv
<1>1. <<>> \in Seq(Chains)
    BY EmptySeq
<1>2. QED
    BY <1>1 DEF GroupingInit, GroupingInv

LEMMA AddChainKeeps ==
    ASSUME GroupingInv, AddChain
    PROVE  GroupingInv'
<1>1. PICK w \in Windows :
          chains' = Append(chains, [input |-> [from |-> Len(chains), trail |-> <<>>],
                                    addr  |-> [base |-> Len(chains), hash |-> 0],
                                    start |-> w.start, num |-> w.num])
    BY DEF AddChain
<1>2. w.start \in Nat /\ w.num \in Nat
    BY WindowsAssumption
<1>3. PICK n \in Nat : n = Len(chains)
    BY LenProperties DEF GroupingInv
<1>4. PICK c : c = [input |-> [from |-> n, trail |-> <<>>], addr |-> [base |-> n, hash |-> 0],
                    start |-> w.start, num |-> w.num]
    OBVIOUS
<1>5. c \in Chains
    <2>1. [from |-> n, trail |-> <<>>] \in [from : Int, trail : {<<>>}]
        OBVIOUS
    <2>2. [base |-> n, hash |-> 0] \in Addrs
        BY DEF Addrs
    <2>3. QED
        BY <1>2, <1>4, <2>1, <2>2 DEF Chains
<1>6. chains' = Append(chains, c)
    BY <1>1, <1>3, <1>4
<1>7. chains' \in Seq(Chains)
    BY <1>5, <1>6, AppendProperties DEF GroupingInv
<1>8. QED
    BY <1>7 DEF GroupingInv, AddChain

LEMMA GroupChainsKeeps ==
    ASSUME GroupingInv, GroupChains
    PROVE  GroupingInv'
<1>1. chains \in Seq(Chains) /\ chains' = chains /\ chains' \in Seq(Chains)
    BY DEF GroupingInv, GroupChains
<1>2. GroupEnd(0) = 0 /\ AllGroups \in Nat
    BY <1>1, GroupEndIs, LenProperties, CapacityIs DEF AllGroups
<1>3. progress' = "grouping" /\ group' = 0 /\ grouped' = <<>>
    BY DEF GroupingInv, GroupChains
<1>4. SumTo(chains, 0) = 0
    BY <1>1, LenProperties, SumToIs
<1>5. GroupEnd(group)' = 0
    BY <1>1, <1>2, <1>3 DEF GroupEnd
<1>6. LegalTo(GroupEnd(group))' /\ Added(GroupEnd(group))'
    <2>1. stats' = NoStats
        BY DEF GroupChains
    <2>2. LegalTo(0)' /\ Added(0)'
        BY <1>1, <1>4, <2>1 DEF LegalTo, Added, NoStats
    <2>3. QED
        BY <1>5, <2>2 DEF LegalTo, Added
<1>7. group' \in 0 .. AllGroups'
    BY <1>1, <1>2, <1>3 DEF AllGroups
<1>8. QED
    BY <1>1, <1>3, <1>6, <1>7 DEF GroupingInv

LEMMA RefuseGroupKeeps ==
    ASSUME GroupingInv, RefuseGroup
    PROVE  GroupingInv'
<1>1. chains \in Seq(Chains) /\ chains' = chains /\ progress' = "refused"
    BY DEF GroupingInv, RefuseGroup
<1>2. \E i \in DOMAIN chains : ~Legal(chains[i])
    BY <1>1, BuildableIs DEF RefuseGroup
<1>3. (\E i \in DOMAIN chains : ~Legal(chains[i]))'
    BY <1>1, <1>2 DEF Legal
<1>4. QED
    BY <1>1, <1>3 DEF GroupingInv

LEMMA CountedIs ==
    ASSUME NEW n, NEW m, NEW d, d.longest \in Nat, d.useful \in Nat, d.uniform \in BOOLEAN,
           d.useful <= 4 * d.longest, SumTo(chains, m) = SumTo(chains, n) + d.useful,
           Added(n), stats' = Counted(d), chains' = chains
    PROVE  Added(m)'
<1>1. CASE d.longest = 0
    <2>1. stats' = stats /\ d.useful = 0
        BY <1>1 DEF Counted
    <2>2. SumTo(chains, n) \in Nat
        BY DEF Added
    <2>3. SumTo(chains, m) = SumTo(chains, n)
        BY <2>1, <2>2
    <2>4. QED
        BY <2>1, <2>3 DEF Added
<1>2. CASE d.longest # 0
    <2>1. PICK a, b, c, e, f, p :
              /\ a = stats.descriptors /\ b = stats.uniform /\ c = stats.mixed
              /\ e = stats.baseline /\ f = stats.useful /\ p = stats.physical
        OBVIOUS
    <2>2. /\ a \in Nat /\ b \in Nat /\ c \in Nat /\ e \in Nat /\ f \in Nat /\ p \in Nat
          /\ f = SumTo(chains, n) /\ f <= p /\ a = b + c /\ a <= e
        BY <2>1 DEF Added
    <2>3. /\ stats'.descriptors = a + 1
          /\ stats'.uniform = (IF d.uniform THEN b + 1 ELSE b)
          /\ stats'.mixed = (IF d.uniform THEN c ELSE c + 1)
          /\ stats'.baseline = e + d.longest /\ stats'.useful = f + d.useful
          /\ stats'.physical = p + 4 * d.longest
        BY <1>2, <2>1 DEF Counted
    <2>4. PICK u \in Nat, l \in Nat : u = d.useful /\ l = d.longest /\ u <= 4 * l /\ l >= 1
        BY <1>2
    <2>5. /\ f + u \in Nat /\ p + 4 * l \in Nat /\ f + u <= p + 4 * l
          /\ e + l \in Nat /\ a + 1 \in Nat /\ a + 1 <= e + l
        BY <2>2, <2>4
    <2>6. /\ stats'.uniform \in Nat /\ stats'.mixed \in Nat
          /\ a + 1 = stats'.uniform + stats'.mixed
        <3>1. CASE d.uniform
            BY <2>2, <2>3, <3>1
        <3>2. CASE ~d.uniform
            BY <2>2, <2>3, <3>2
        <3>3. QED
            BY <3>1, <3>2
    <2>7. SumTo(chains', m) = f + u
        BY <2>2, <2>4
    <2>8. QED
        BY <2>3, <2>4, <2>5, <2>6, <2>7 DEF Added
<1>3. QED
    BY <1>1, <1>2

LEMMA NextGroup ==
    ASSUME chains \in Seq(Chains), NEW g \in Groups
    PROVE  g \in Nat /\ g + 1 \in 0 .. AllGroups
<1>1. PICK n \in Nat : n = AllGroups
    BY LenProperties, CapacityIs DEF AllGroups
<1>2. g \in 0 .. n - 1
    BY <1>1 DEF Groups, AllGroups
<1>3. QED
    BY <1>1, <1>2

LEMMA CountGroupKeeps ==
    ASSUME GroupingInv, CountGroup
    PROVE  GroupingInv'
<1>1. /\ chains \in Seq(Chains) /\ chains' = chains /\ progress = "grouping"
      /\ progress' = "grouping" /\ group' = group + 1
      /\ group \in Groups /\ Buildable(group) /\ grouped = <<>> /\ grouped' = <<>>
      /\ LegalTo(GroupEnd(group)) /\ Added(GroupEnd(group))
    BY DEF GroupingInv, CountGroup
<1>2. group \in Nat /\ group + 1 \in 0 .. AllGroups
    BY <1>1, NextGroup
<1>3. PICK d : d = BuildDescriptor(group)
    OBVIOUS
<1>4. /\ d.longest \in Nat /\ d.useful \in Nat /\ d.uniform \in BOOLEAN
      /\ d.useful <= 4 * d.longest
      /\ SumTo(chains, GroupEnd(group + 1)) = SumTo(chains, GroupEnd(group)) + d.useful
    BY <1>1, <1>3, DescriptorCounts
<1>5. PICK n, m : n = GroupEnd(group) /\ m = GroupEnd(group + 1)
    OBVIOUS
<1>6. n \in Nat /\ m \in Nat
    <2>1. Len(chains) \in Nat
        BY <1>1, LenProperties
    <2>2. QED
        BY <1>1, <1>2, <1>5, <2>1, GroupEndIs
<1>7. Added(m)'
    BY <1>1, <1>3, <1>4, <1>5, CountedIs DEF CountGroup
<1>8. LegalTo(m)
    <2>1. \A i \in n + 1 .. m : Legal(chains[i])
        BY <1>1, <1>5, BuildableIs
    <2>2. \A i \in 1 .. n : Legal(chains[i])
        BY <1>1, <1>5 DEF LegalTo
    <2>3. \A i \in 1 .. m : i \in 1 .. n \/ i \in n + 1 .. m
        BY <1>6
    <2>4. QED
        BY <2>1, <2>2, <2>3 DEF LegalTo
<1>9. GroupEnd(group)' = m /\ LegalTo(m)'
    BY <1>1, <1>5, <1>8 DEF GroupEnd, LegalTo, Legal
<1>10. LegalTo(GroupEnd(group))' /\ Added(GroupEnd(group))'
    BY <1>7, <1>9 DEF LegalTo, Added
<1>11. group' \in 0 .. AllGroups'
    BY <1>1, <1>2 DEF AllGroups
<1>12. QED
    BY <1>1, <1>10, <1>11 DEF GroupingInv

LEMMA LastGroup ==
    ASSUME chains \in Seq(Chains), NEW g \in 0 .. AllGroups, g \notin Groups
    PROVE  GroupEnd(g) = Len(chains)
<1>1. AllGroups \in Nat
    BY LenProperties, CapacityIs DEF AllGroups
<1>2. g = AllGroups
    BY <1>1 DEF Groups, AllGroups
<1>3. QED
    BY <1>2, GroupEndIs DEF AllGroups

LEMMA ExecuteGroupsKeeps ==
    ASSUME GroupingInv, ExecuteGroups
    PROVE  GroupingInv'
<1>1. /\ chains \in Seq(Chains) /\ chains' = chains /\ stats' = stats /\ progress' = "executing"
      /\ group' = 0 /\ grouped = <<>> /\ grouped' = <<>>
      /\ group \in 0 .. AllGroups /\ group \notin Groups
      /\ LegalTo(GroupEnd(group)) /\ Added(GroupEnd(group))
    BY DEF GroupingInv, ExecuteGroups
<1>2. GroupEnd(group) = Len(chains)
    BY <1>1, LastGroup
<1>3. LegalTo(Len(chains))' /\ Added(Len(chains))'
    BY <1>1, <1>2 DEF LegalTo, Added, Legal
<1>4. GroupEnd(0) = 0 /\ AllGroups \in Nat
    BY <1>1, GroupEndIs, LenProperties, CapacityIs DEF AllGroups
<1>5. DoneTo(0)'
    BY <1>1, EmptySeq DEF DoneTo
<1>6. GroupEnd(group)' = 0
    BY <1>1, <1>4 DEF GroupEnd
<1>7. DoneTo(GroupEnd(group))'
    BY <1>5, <1>6 DEF DoneTo
<1>8. group' \in 0 .. AllGroups'
    BY <1>1, <1>4 DEF AllGroups
<1>9. QED
    BY <1>1, <1>3, <1>7, <1>8 DEF GroupingInv

LEMMA DefinedIsValue ==
    ASSUME NEW c \in Chains
    PROVE  ChainAsDefined(c) \in Values
<1>1. c.num \in Nat
    BY DEF Chains
<1>2. ChainAsDefined(c) = After(c, c.num)
    BY DEF ChainAsDefined, After
<1>3. QED
    BY <1>1, <1>2, AfterIsValue

LEMMA ExecuteKeeps ==
    ASSUME GroupingInv, Execute
    PROVE  GroupingInv'
<1>1. /\ chains \in Seq(Chains) /\ chains' = chains /\ stats' = stats
      /\ progress = "executing" /\ progress' = "executing"
      /\ group \in Groups /\ group' = group + 1
      /\ LegalTo(Len(chains)) /\ Added(Len(chains)) /\ DoneTo(GroupEnd(group))
    BY DEF GroupingInv, Execute
<1>2. group \in Nat /\ group + 1 \in 0 .. AllGroups
    BY <1>1, NextGroup
<1>3. PICK len \in Nat : len = Len(chains)
    BY <1>1, LenProperties
<1>4. PICK n, m : n = GroupEnd(group) /\ m = GroupEnd(group + 1)
    OBVIOUS
<1>5. n \in Nat /\ m \in Nat /\ n = 4 * group /\ n < len /\ m = Upto(n + 4, len)
    BY <1>1, <1>2, <1>3, <1>4, GroupEndIs
<1>6. PICK k : k = Cardinality(Present(group))
    OBVIOUS
<1>7. k \in 1 .. 4 /\ m = n + k
    <2>1. k = Upto(4, len - n)
        BY <1>1, <1>2, <1>3, <1>5, <1>6, PresentIs
    <2>2. PICK r : r = len - n
        OBVIOUS
    <2>3. r \in Nat /\ r > 0 /\ len = n + r
        BY <1>3, <1>5, <2>2
    <2>4. k = IF 4 <= r THEN 4 ELSE r
        BY <2>1, <2>2 DEF Upto
    <2>5. m = IF n + 4 <= n + r THEN n + 4 ELSE n + r
        BY <1>5, <2>3 DEF Upto
    <2>6. CASE 4 <= r
        BY <1>5, <2>3, <2>4, <2>5, <2>6
    <2>7. CASE ~(4 <= r)
        BY <1>5, <2>3, <2>4, <2>5, <2>7
    <2>8. QED
        BY <2>6, <2>7
<1>8. PICK out : out = [l \in GroupLanes |-> ChainAsDefined(ChainIn(group, l))]
    OBVIOUS
<1>9. PICK t : t = [l \in 1 .. k |-> out[l - 1]]
    OBVIOUS
<1>10. grouped' = grouped \o t
    BY <1>1, <1>2, <1>6, <1>8, <1>9, ExecuteGroupIs DEF Execute
<1>11. ASSUME NEW l \in 1 .. k
       PROVE  /\ t[l] = ChainAsDefined(chains[n + l])
              /\ ChainAsDefined(chains[n + l]) \in Values
    <2>1. PICK i : i = n + l
        OBVIOUS
    <2>2. i \in n + 1 .. m /\ i - 1 - 4 * group = l - 1 /\ l - 1 \in GroupLanes
        BY <1>5, <1>7, <2>1 DEF GroupLanes
    <2>3. i \in DOMAIN chains /\ ChainIn(group, l - 1) = chains[i]
        BY <1>1, <1>4, <2>2, LaneHasChain
    <2>4. t[l] = ChainAsDefined(chains[i])
        BY <1>8, <1>9, <2>2, <2>3
    <2>5. chains[i] \in Chains
        BY <1>1, <2>3, LenProperties, ElementOfSeq
    <2>6. QED
        BY <2>1, <2>4, <2>5, DefinedIsValue
<1>12. t \in Seq(Values) /\ Len(t) = k
    <2>1. t \in [1 .. k -> Values] /\ k \in Nat
        BY <1>7, <1>9, <1>11
    <2>2. QED
        BY <2>1
<1>13. /\ grouped \in Seq(Values) /\ Len(grouped) = n
       /\ \A i \in 1 .. n : grouped[i] = ChainAsDefined(chains[i])
    BY <1>1, <1>4 DEF DoneTo
<1>14. /\ grouped' \in Seq(Values) /\ Len(grouped') = m
       /\ \A i \in 1 .. m : grouped'[i] = IF i <= n THEN grouped[i] ELSE t[i - n]
    BY <1>7, <1>10, <1>12, <1>13, ConcatProperties
<1>15. \A i \in 1 .. m : grouped'[i] = ChainAsDefined(chains[i])
    <2>1. TAKE i \in 1 .. m
    <2>2. CASE i <= n
        BY <1>5, <1>13, <1>14, <2>2
    <2>3. CASE ~(i <= n)
        <3>1. i - n \in 1 .. k /\ n + (i - n) = i
            BY <1>5, <1>7, <2>3
        <3>2. QED
            BY <1>11, <1>14, <2>3, <3>1
    <2>4. QED
        BY <2>2, <2>3
<1>16. DoneTo(m)'
    BY <1>1, <1>14, <1>15 DEF DoneTo, ChainAsDefined
<1>17. GroupEnd(group)' = m
    BY <1>1, <1>4 DEF GroupEnd
<1>18. DoneTo(GroupEnd(group))'
    BY <1>16, <1>17 DEF DoneTo
<1>19. LegalTo(Len(chains))' /\ Added(Len(chains))'
    BY <1>1 DEF LegalTo, Added, Legal
<1>20. group' \in 0 .. AllGroups'
    BY <1>1, <1>2 DEF AllGroups
<1>21. QED
    BY <1>1, <1>18, <1>19, <1>20 DEF GroupingInv

LEMMA CompareKeeps ==
    ASSUME GroupingInv, Compare
    PROVE  GroupingInv'
<1>1. /\ chains \in Seq(Chains) /\ chains' = chains /\ stats' = stats /\ grouped' = grouped
      /\ progress' = "compared"
      /\ group \in 0 .. AllGroups /\ group \notin Groups
      /\ LegalTo(Len(chains)) /\ Added(Len(chains)) /\ DoneTo(GroupEnd(group))
    BY DEF GroupingInv, Compare
<1>2. DoneTo(Len(chains))
    BY <1>1, LastGroup
<1>3. LegalTo(Len(chains))' /\ Added(Len(chains))' /\ DoneTo(Len(chains))'
    BY <1>1, <1>2 DEF LegalTo, Added, DoneTo, Legal, ChainAsDefined
<1>4. QED
    BY <1>1, <1>3 DEF GroupingInv

LEMMA NothingGrouped ==
    ASSUME GroupingInv, UNCHANGED groupingVars
    PROVE  GroupingInv'
    BY DEF groupingVars, GroupingInv, LegalTo, Legal, Added, DoneTo, AllGroups, GroupEnd,
           ChainAsDefined

----------------------------------------------------------------------------
(***************************************************************************)
(* Whatever chains a caller brings, and however many, wots_pk_grouping_    *)
(* model gives every chain the value it has alone, refuses a call exactly  *)
(* for an illegal window, and counts as useful exactly the steps asked     *)
(* for.                                                                    *)
(***************************************************************************)
THEOREM GroupingCorrect == GroupingSpec => []GroupingIsScalar
<1>1. GroupingInv /\ [GroupingNext]_groupingVars => GroupingInv'
    BY AddChainKeeps, GroupChainsKeeps, RefuseGroupKeeps, CountGroupKeeps, ExecuteGroupsKeeps,
       ExecuteKeeps, CompareKeeps, NothingGrouped DEF GroupingNext
<1>2. GroupingInv => GroupingIsScalar
    <2> SUFFICES ASSUME GroupingInv PROVE GroupingIsScalar
        OBVIOUS
    <2>1. /\ chains \in Seq(Chains) /\ DOMAIN chains = 1 .. Len(chains)
          /\ \A i \in DOMAIN chains : chains[i] \in Chains
        BY LenProperties, ElementOfSeq DEF GroupingInv
    <2>2. \A i \in DOMAIN chains : ScalarReference(i) = ChainAsDefined(chains[i])
        BY <2>1, ScalarReferenceIs
    <2>3. progress = "compared" => DoneTo(Len(chains)) /\ Added(Len(chains))
        BY DEF GroupingInv
    <2>4. progress = "compared" =>
              /\ Len(grouped) = Len(chains)
              /\ \A i \in DOMAIN chains : grouped[i] = ScalarReference(i)
                                          /\ grouped[i] = ChainAsDefined(chains[i])
        BY <2>1, <2>2, <2>3 DEF DoneTo
    <2>5. progress = "compared" =>
              /\ stats.useful = StepsAsked /\ stats.useful <= stats.physical
              /\ stats.descriptors = stats.uniform + stats.mixed
              /\ stats.descriptors <= stats.baseline
        BY <2>3, StepsAskedIs DEF Added
    <2>6. progress = "refused" =>
              \E i \in DOMAIN chains : chains[i].start + chains[i].num > 16 \/ chains[i].num > 15
        <3>1. SUFFICES ASSUME progress = "refused"
                       PROVE  \E i \in DOMAIN chains : chains[i].start + chains[i].num > 16
                                                       \/ chains[i].num > 15
            OBVIOUS
        <3>2. PICK i \in DOMAIN chains : ~Legal(chains[i])
            BY <3>1 DEF GroupingInv
        <3>3. PICK s \in Nat, n \in Nat : s = chains[i].start /\ n = chains[i].num
            BY <2>1 DEF Chains
        <3>4. s + n > 16 \/ n > 15
            BY <3>2, <3>3 DEF Legal
        <3>5. QED
            BY <3>3, <3>4
    <2>7. progress \in {"executing", "compared"} =>
              \A i \in DOMAIN chains : chains[i].start + chains[i].num \in 0 .. 16
        BY <2>1 DEF GroupingInv, LegalTo, Legal
    <2>8. QED
        BY <2>4, <2>5, <2>6, <2>7 DEF GroupingIsScalar
<1>3. QED
    BY <1>1, <1>2, GroupingStarts, PTL DEF GroupingSpec

----------------------------------------------------------------------------
(***************************************************************************)
(* The Keccak rounds of the engine's core and of the software: first the   *)
(* tables of the standard, which it generates, entry by entry.             *)
(***************************************************************************)
\* The walk of rho, written out.
Walk ==
    << <<1, 0>>, <<0, 2>>, <<2, 1>>, <<1, 2>>, <<2, 3>>, <<3, 3>>, <<3, 0>>, <<0, 1>>,
       <<1, 3>>, <<3, 1>>, <<1, 4>>, <<4, 4>>, <<4, 0>>, <<0, 3>>, <<3, 4>>, <<4, 3>>,
       <<3, 2>>, <<2, 2>>, <<2, 0>>, <<0, 4>>, <<4, 2>>, <<2, 4>>, <<4, 1>>, <<1, 1>> >>

WalkStep(p) == <<p[2], (2 * p[1] + 3 * p[2]) % 5>>
WalkRun(f)  == f = [t \in 0 .. 23 |-> IF t = 0 THEN <<1, 0>> ELSE WalkStep(f[t - 1])]

LEMMA WalkSteps == \A t \in 0 .. 22 : Walk[t + 2] = WalkStep(Walk[t + 1])
    BY DEF Walk, WalkStep

LEMMA WalkIsRun == WalkRun([t \in 0 .. 23 |-> Walk[t + 1]])
<1> DEFINE f == [t \in 0 .. 23 |-> Walk[t + 1]]
<1>1. f[0] = <<1, 0>>
    BY DEF Walk
<1>2. ASSUME NEW t \in 1 .. 23 PROVE f[t] = WalkStep(f[t - 1])
    <2>1. t - 1 \in 0 .. 22 /\ (t - 1) + 2 = t + 1 /\ (t - 1) + 1 = t
        OBVIOUS
    <2>2. Walk[t + 1] = WalkStep(Walk[t])
        BY <2>1, WalkSteps
    <2> QED
        BY <2>1, <2>2
<1>3. \A t \in 0 .. 23 : f[t] = IF t = 0 THEN <<1, 0>> ELSE WalkStep(f[t - 1])
    BY <1>1, <1>2
<1> QED
    BY <1>3 DEF WalkRun

LEMMA WalkRunIs ==
    ASSUME NEW f, WalkRun(f), NEW t \in 0 .. 23
    PROVE  f[t] = Walk[t + 1]
<1> DEFINE S == {k \in Nat : k <= 23 => f[k] = Walk[k + 1]}
<1>1. 0 \in S
    BY DEF WalkRun, Walk
<1>2. ASSUME NEW k \in Nat, k \in S PROVE k + 1 \in S
    <2>1. CASE k <= 22
        <3>1. k \in 0 .. 22 /\ k + 1 \in 0 .. 23 /\ k + 1 # 0 /\ (k + 1) - 1 = k /\ (k + 1) + 1 = k + 2
            BY <2>1
        <3>2. f[k + 1] = WalkStep(f[k])
            BY <3>1 DEF WalkRun
        <3>3. f[k] = Walk[k + 1] /\ Walk[k + 2] = WalkStep(Walk[k + 1])
            BY <1>2, <3>1, WalkSteps
        <3> QED
            BY <3>1, <3>2, <3>3
    <2>2. CASE k > 22
        BY <2>2
    <2> QED
        BY <2>1, <2>2
<1> HIDE DEF S
<1>3. t \in S
    BY <1>1, <1>2, Induct
<1> QED
    BY <1>3 DEF S

LEMMA RhoWalkIs == \A t \in 0 .. 23 : RhoWalk[t] = Walk[t + 1]
<1>1. WalkRun(RhoWalk)
    BY WalkIsRun DEF RhoWalk, WalkRun, WalkStep
<1> QED
    BY <1>1, WalkRunIs

LEMMA RhoOffsetIs ==
    \A x, y \in Coordinate : RhoOffset[x][y] = keccak_rho_offset[x + 5 * y + 1]
    BY RhoWalkIs DEF RhoOffset, Walk, keccak_rho_offset, Coordinate

\* The register at the start of every round.
Starts ==
    << {0}, {7}, {3, 4, 6, 7}, {1, 3, 4},
       {0, 1, 2, 3, 4, 6, 7}, {0, 3}, {0, 2, 4, 5}, {0, 1, 2, 3, 6},
       {1, 3, 6, 7}, {4, 5, 6}, {0, 6}, {2, 3, 5, 6, 7},
       {0, 2, 4, 6, 7}, {0, 2, 3, 6, 7}, {0, 1, 5, 6}, {0, 1, 3, 5, 7},
       {1, 3, 5, 7}, {1, 3, 5}, {1, 4, 5, 6, 7}, {3, 5, 6, 7},
       {0, 1, 2, 4, 5}, {1, 2, 3, 4, 5}, {0, 1, 3}, {2, 6} >>

RegisterRun(f) == f = [t \in 0 .. 7 * NROUNDS |-> IF t = 0 THEN {0} ELSE Advance(f[t - 1])]

\* One step of the register: every bit moves up, the one that falls out
\* comes back as 0, 4, 5 and 6.
Moves(s, t) ==
    /\ t \subseteq 0 .. 7
    /\ (0 \in t) <=> (7 \in s)
    /\ \A i \in {1, 2, 3, 7} : (i \in t) <=> (i - 1 \in s)
    /\ \A i \in {4, 5, 6} : (i \in t) <=> ((i - 1 \in s) # (7 \in s))

LEMMA RegisterStep ==
    ASSUME NEW f, RegisterRun(f), NEW t \in 0 .. 167, f[t] \subseteq 0 .. 7
    PROVE  Moves(f[t], f[t + 1])
<1> DEFINE s == {i + 1 : i \in f[t]}
<1>0. t + 1 \in 0 .. 7 * NROUNDS /\ t + 1 # 0 /\ (t + 1) - 1 = t
    BY DEF NROUNDS
<1>1. f[t + 1] = IF 8 \in s THEN Xor(s \ {8}, {0, 4, 5, 6}) ELSE s
    BY <1>0 DEF RegisterRun, Advance
<1>2. /\ s \subseteq 1 .. 8
      /\ \A i \in 1 .. 8 : i \in s <=> i - 1 \in f[t]
    OBVIOUS
<1> HIDE DEF s
<1>3. CASE 8 \in s
    BY <1>1, <1>2, <1>3 DEF Xor, SymDiff, Moves
<1>4. CASE 8 \notin s
    BY <1>1, <1>2, <1>4 DEF Moves
<1> QED
    BY <1>3, <1>4

\* A round takes seven steps: the bits that leave it, and what is left.
LEMMA SevenSteps ==
    ASSUME NEW f, RegisterRun(f), NEW r \in 0 .. 23, NEW s \in SUBSET (0 .. 7), f[7 * r] = s
    PROVE  /\ f[7 * r + 7] \subseteq 0 .. 7
           /\ (0 \in f[7 * r + 7]) <=> (((1 \in s) # (3 \in s)) # (4 \in s))
           /\ (1 \in f[7 * r + 7]) <=> (((2 \in s) # (4 \in s)) # (5 \in s))
           /\ (2 \in f[7 * r + 7]) <=> (((3 \in s) # (5 \in s)) # (6 \in s))
           /\ (3 \in f[7 * r + 7]) <=> (((4 \in s) # (6 \in s)) # (7 \in s))
           /\ (4 \in f[7 * r + 7]) <=> (((((1 \in s) # (3 \in s)) # (4 \in s)) # (5 \in s)) # (7 \in s))
           /\ (5 \in f[7 * r + 7]) <=> (((((1 \in s) # (2 \in s)) # (3 \in s)) # (5 \in s)) # (6 \in s))
           /\ (6 \in f[7 * r + 7]) <=> ((((1 \in s) # (2 \in s)) # (6 \in s)) # (7 \in s))
           /\ (7 \in f[7 * r + 7]) <=> ((((0 \in s) # (2 \in s)) # (3 \in s)) # (7 \in s))
           /\ (0 \in f[7 * r + 0]) <=> (0 \in s)
           /\ (0 \in f[7 * r + 1]) <=> (7 \in s)
           /\ (0 \in f[7 * r + 2]) <=> (6 \in s)
           /\ (0 \in f[7 * r + 3]) <=> ((5 \in s) # (7 \in s))
           /\ (0 \in f[7 * r + 4]) <=> (((4 \in s) # (6 \in s)) # (7 \in s))
           /\ (0 \in f[7 * r + 5]) <=> (((3 \in s) # (5 \in s)) # (6 \in s))
           /\ (0 \in f[7 * r + 6]) <=> (((2 \in s) # (4 \in s)) # (5 \in s))
<1>0. r \in 0 .. 23
    OBVIOUS
<1>8. /\ 7 * r \in 0 .. 167 /\ 7 * r + 1 \in 0 .. 167 /\ 7 * r + 2 \in 0 .. 167 /\ 7 * r + 3 \in 0 .. 167
      /\ 7 * r + 4 \in 0 .. 167 /\ 7 * r + 5 \in 0 .. 167 /\ 7 * r + 6 \in 0 .. 167
    BY ONLY <1>0
<1>9. /\ (7 * r + 1) + 1 = 7 * r + 2 /\ (7 * r + 2) + 1 = 7 * r + 3 /\ (7 * r + 3) + 1 = 7 * r + 4
      /\ (7 * r + 4) + 1 = 7 * r + 5 /\ (7 * r + 5) + 1 = 7 * r + 6 /\ (7 * r + 6) + 1 = 7 * r + 7
    BY ONLY <1>0
<1>10. \A t \in 0 .. 167 : f[t] \subseteq 0 .. 7 => Moves(f[t], f[t + 1])
    BY RegisterStep
<1>1. Moves(s, f[7 * r + 1])
    BY <1>8, <1>10
<1>2. Moves(f[7 * r + 1], f[7 * r + 2])
    <2>1. f[7 * r + 1] \subseteq 0 .. 7
        BY ONLY <1>1 DEF Moves
    <2> QED
        BY ONLY <2>1, <1>8, <1>9, <1>10
<1>3. Moves(f[7 * r + 2], f[7 * r + 3])
    <2>1. f[7 * r + 2] \subseteq 0 .. 7
        BY ONLY <1>2 DEF Moves
    <2> QED
        BY ONLY <2>1, <1>8, <1>9, <1>10
<1>4. Moves(f[7 * r + 3], f[7 * r + 4])
    <2>1. f[7 * r + 3] \subseteq 0 .. 7
        BY ONLY <1>3 DEF Moves
    <2> QED
        BY ONLY <2>1, <1>8, <1>9, <1>10
<1>5. Moves(f[7 * r + 4], f[7 * r + 5])
    <2>1. f[7 * r + 4] \subseteq 0 .. 7
        BY ONLY <1>4 DEF Moves
    <2> QED
        BY ONLY <2>1, <1>8, <1>9, <1>10
<1>6. Moves(f[7 * r + 5], f[7 * r + 6])
    <2>1. f[7 * r + 5] \subseteq 0 .. 7
        BY ONLY <1>5 DEF Moves
    <2> QED
        BY ONLY <2>1, <1>8, <1>9, <1>10
<1>7. Moves(f[7 * r + 6], f[7 * r + 7])
    <2>1. f[7 * r + 6] \subseteq 0 .. 7
        BY ONLY <1>6 DEF Moves
    <2> QED
        BY ONLY <2>1, <1>8, <1>9, <1>10
<1> QED
    BY <1>1, <1>2, <1>3, <1>4, <1>5, <1>6, <1>7 DEF Moves

LEMMA StartsAre ==
    ASSUME NEW f, RegisterRun(f), NEW r \in 0 .. 23
    PROVE  f[7 * r] = Starts[r + 1]
<1>0. f[7 * 0] = Starts[1]
    BY DEF RegisterRun, Starts, NROUNDS
<1>1. f[7 * 1] = Starts[2]
    BY <1>0, SevenSteps DEF Starts
<1>2. f[7 * 2] = Starts[3]
    BY <1>1, SevenSteps DEF Starts
<1>3. f[7 * 3] = Starts[4]
    BY <1>2, SevenSteps DEF Starts
<1>4. f[7 * 4] = Starts[5]
    BY <1>3, SevenSteps DEF Starts
<1>5. f[7 * 5] = Starts[6]
    BY <1>4, SevenSteps DEF Starts
<1>6. f[7 * 6] = Starts[7]
    BY <1>5, SevenSteps DEF Starts
<1>7. f[7 * 7] = Starts[8]
    BY <1>6, SevenSteps DEF Starts
<1>8. f[7 * 8] = Starts[9]
    BY <1>7, SevenSteps DEF Starts
<1>9. f[7 * 9] = Starts[10]
    BY <1>8, SevenSteps DEF Starts
<1>10. f[7 * 10] = Starts[11]
    BY <1>9, SevenSteps DEF Starts
<1>11. f[7 * 11] = Starts[12]
    BY <1>10, SevenSteps DEF Starts
<1>12. f[7 * 12] = Starts[13]
    BY <1>11, SevenSteps DEF Starts
<1>13. f[7 * 13] = Starts[14]
    BY <1>12, SevenSteps DEF Starts
<1>14. f[7 * 14] = Starts[15]
    BY <1>13, SevenSteps DEF Starts
<1>15. f[7 * 15] = Starts[16]
    BY <1>14, SevenSteps DEF Starts
<1>16. f[7 * 16] = Starts[17]
    BY <1>15, SevenSteps DEF Starts
<1>17. f[7 * 17] = Starts[18]
    BY <1>16, SevenSteps DEF Starts
<1>18. f[7 * 18] = Starts[19]
    BY <1>17, SevenSteps DEF Starts
<1>19. f[7 * 19] = Starts[20]
    BY <1>18, SevenSteps DEF Starts
<1>20. f[7 * 20] = Starts[21]
    BY <1>19, SevenSteps DEF Starts
<1>21. f[7 * 21] = Starts[22]
    BY <1>20, SevenSteps DEF Starts
<1>22. f[7 * 22] = Starts[23]
    BY <1>21, SevenSteps DEF Starts
<1>23. f[7 * 23] = Starts[24]
    BY <1>22, SevenSteps DEF Starts
<1> QED
    BY <1>0, <1>1, <1>2, <1>3, <1>4, <1>5, <1>6, <1>7, <1>8, <1>9, <1>10, <1>11,
       <1>12, <1>13, <1>14, <1>15, <1>16, <1>17, <1>18, <1>19, <1>20, <1>21, <1>22, <1>23

RunTo(f, n) == f = [i \in 0 .. n |-> f[i]] /\ f[0] = {0} /\ \A i \in 0 .. n - 1 : f[i + 1] = Advance(f[i])

LEMMA RunsExist ==
    ASSUME NEW n \in Nat
    PROVE  \E f : RunTo(f, n)
<1> DEFINE S == {k \in Nat : \E f : RunTo(f, k)}
<1>1. 0 \in S
    <2> DEFINE f == [i \in 0 .. 0 |-> {0}]
    <2>1. RunTo(f, 0)
        BY DEF RunTo
    <2> QED
        BY <2>1
<1>2. ASSUME NEW k \in Nat, k \in S PROVE k + 1 \in S
    <2>1. PICK f : RunTo(f, k)
        BY <1>2
    <2>2. PICK next : next = Advance(f[k])
        OBVIOUS
    <2> DEFINE g == [i \in 0 .. k + 1 |-> IF i = k + 1 THEN next ELSE f[i]]
    <2>3. g = [i \in 0 .. k + 1 |-> g[i]] /\ g[0] = {0} /\ g[k + 1] = next /\ \A i \in 0 .. k : g[i] = f[i]
        BY <2>1 DEF RunTo
    <2> HIDE DEF g
    <2>4. ASSUME NEW i \in 0 .. (k + 1) - 1 PROVE g[i + 1] = Advance(g[i])
        <3>1. CASE i = k
            BY <2>2, <2>3, <3>1
        <3>2. CASE i \in 0 .. k - 1
            <4>1. i + 1 \in 0 .. k /\ i \in 0 .. k
                BY <3>2
            <4>2. f[i + 1] = Advance(f[i])
                BY <2>1, <3>2 DEF RunTo
            <4>3. g[i + 1] = f[i + 1] /\ g[i] = f[i]
                BY <2>3, <4>1
            <4> QED
                BY <4>2, <4>3
        <3> QED
            BY <3>1, <3>2
    <2>5. RunTo(g, k + 1)
        BY <2>3, <2>4 DEF RunTo
    <2> QED
        BY <2>5
<1> HIDE DEF S
<1>3. n \in S
    BY <1>1, <1>2, Induct
<1> QED
    BY <1>3 DEF S

LEMMA RegisterIs == RegisterRun(Register)
<1>1. PICK f : RunTo(f, 168)
    BY RunsExist
<1>2. \A t \in 0 .. 168 : f[t] = IF t = 0 THEN {0} ELSE Advance(f[t - 1])
    <2> TAKE t \in 0 .. 168
    <2>1. CASE t = 0
        BY <1>1, <2>1 DEF RunTo
    <2>2. CASE t \in 1 .. 168
        <3>1. t - 1 \in 0 .. 168 - 1 /\ (t - 1) + 1 = t /\ t # 0
            BY <2>2
        <3> QED
            BY <1>1, <3>1 DEF RunTo
    <2> QED
        BY <2>1, <2>2
<1>3. f = [t \in 0 .. 168 |-> f[t]]
    BY <1>1 DEF RunTo
<1>4. RegisterRun(f)
    BY <1>2, <1>3, 7 * NROUNDS = 168 DEF RegisterRun, NROUNDS
<1> QED
    BY <1>4 DEF Register, RegisterRun

LEMMA PowersOfTwo ==
    /\ 2 ^ 0 - 1 = 0 /\ 2 ^ 1 - 1 = 1 /\ 2 ^ 2 - 1 = 3 /\ 2 ^ 3 - 1 = 7
    /\ 2 ^ 4 - 1 = 15 /\ 2 ^ 5 - 1 = 31 /\ 2 ^ 6 - 1 = 63
    OBVIOUS

LEMMA ConstantsAre ==
    ASSUME NEW r \in 0 .. 23
    PROVE  StandardConstant[r] = RoundConstant(r)
<1> DEFINE out == {j \in 0 .. 6 : 0 \in Register[j + 7 * r]}
<1>1. StandardConstant[r] = {2 ^ j - 1 : j \in out}
    BY DEF StandardConstant, NROUNDS
<1>a. Starts[r + 1] \in SUBSET (0 .. 7)
    BY DEF Starts
<1>2. PICK s \in SUBSET (0 .. 7) : s = Starts[r + 1] /\ Register[7 * r] = s
    BY <1>a, StartsAre, RegisterIs
<1>b. \A j \in 0 .. 6 : j \in out <=> 0 \in Register[7 * r + j]
    BY \A j \in 0 .. 6 : j + 7 * r = 7 * r + j
<1>3. /\ (0 \in out) <=> (0 \in s)
      /\ (1 \in out) <=> (7 \in s)
      /\ (2 \in out) <=> (6 \in s)
      /\ (3 \in out) <=> ((5 \in s) # (7 \in s))
      /\ (4 \in out) <=> (((4 \in s) # (6 \in s)) # (7 \in s))
      /\ (5 \in out) <=> (((3 \in s) # (5 \in s)) # (6 \in s))
      /\ (6 \in out) <=> (((2 \in s) # (4 \in s)) # (5 \in s))
    <2> HIDE DEF out
    <2>1. /\ (0 \in Register[7 * r + 0]) <=> (0 \in s)
          /\ (0 \in Register[7 * r + 1]) <=> (7 \in s)
          /\ (0 \in Register[7 * r + 2]) <=> (6 \in s)
          /\ (0 \in Register[7 * r + 3]) <=> ((5 \in s) # (7 \in s))
          /\ (0 \in Register[7 * r + 4]) <=> (((4 \in s) # (6 \in s)) # (7 \in s))
          /\ (0 \in Register[7 * r + 5]) <=> (((3 \in s) # (5 \in s)) # (6 \in s))
          /\ (0 \in Register[7 * r + 6]) <=> (((2 \in s) # (4 \in s)) # (5 \in s))
        BY SevenSteps, RegisterIs, <1>2
    <2>2. /\ (0 \in out) <=> (0 \in Register[7 * r + 0])
          /\ (1 \in out) <=> (0 \in Register[7 * r + 1])
          /\ (2 \in out) <=> (0 \in Register[7 * r + 2])
          /\ (3 \in out) <=> (0 \in Register[7 * r + 3])
          /\ (4 \in out) <=> (0 \in Register[7 * r + 4])
          /\ (5 \in out) <=> (0 \in Register[7 * r + 5])
          /\ (6 \in out) <=> (0 \in Register[7 * r + 6])
        BY <1>b
    <2> QED
        BY <2>1, <2>2
<1> DEFINE power == [j \in 0 .. 6 |-> 2 ^ j - 1]
<1>c. /\ power[0] = 0 /\ power[1] = 1 /\ power[2] = 3 /\ power[3] = 7
      /\ power[4] = 15 /\ power[5] = 31 /\ power[6] = 63
    BY PowersOfTwo
<1>d. StandardConstant[r] = {power[j] : j \in out} /\ out \subseteq 0 .. 6
    BY <1>1
<1> HIDE DEF power, out
<1>4. /\ StandardConstant[r] \subseteq {0, 1, 3, 7, 15, 31, 63}
      /\ (0 \in StandardConstant[r]) <=> (0 \in out)
      /\ (1 \in StandardConstant[r]) <=> (1 \in out)
      /\ (3 \in StandardConstant[r]) <=> (2 \in out)
      /\ (7 \in StandardConstant[r]) <=> (3 \in out)
      /\ (15 \in StandardConstant[r]) <=> (4 \in out)
      /\ (31 \in StandardConstant[r]) <=> (5 \in out)
      /\ (63 \in StandardConstant[r]) <=> (6 \in out)
    BY <1>c, <1>d
<1>r0. CASE r = 0
    <2>1. s = {0}
        BY <1>2, <1>r0 DEF Starts
    <2>2. RoundConstant(r) = {0}
        BY <1>r0 DEF RoundConstant, KeccakF_RoundConstants
    <2> QED
        BY <1>3, <1>4, <2>1, <2>2
<1>r1. CASE r = 1
    <2>1. s = {7}
        BY <1>2, <1>r1 DEF Starts
    <2>2. RoundConstant(r) = {1, 7, 15}
        BY <1>r1 DEF RoundConstant, KeccakF_RoundConstants
    <2> QED
        BY <1>3, <1>4, <2>1, <2>2
<1>r2. CASE r = 2
    <2>1. s = {3, 4, 6, 7}
        BY <1>2, <1>r2 DEF Starts
    <2>2. RoundConstant(r) = {1, 3, 7, 15, 63}
        BY <1>r2 DEF RoundConstant, KeccakF_RoundConstants
    <2> QED
        BY <1>3, <1>4, <2>1, <2>2
<1>r3. CASE r = 3
    <2>1. s = {1, 3, 4}
        BY <1>2, <1>r3 DEF Starts
    <2>2. RoundConstant(r) = {15, 31, 63}
        BY <1>r3 DEF RoundConstant, KeccakF_RoundConstants
    <2> QED
        BY <1>3, <1>4, <2>1, <2>2
<1>r4. CASE r = 4
    <2>1. s = {0, 1, 2, 3, 4, 6, 7}
        BY <1>2, <1>r4 DEF Starts
    <2>2. RoundConstant(r) = {0, 1, 3, 7, 15}
        BY <1>r4 DEF RoundConstant, KeccakF_RoundConstants
    <2> QED
        BY <1>3, <1>4, <2>1, <2>2
<1>r5. CASE r = 5
    <2>1. s = {0, 3}
        BY <1>2, <1>r5 DEF Starts
    <2>2. RoundConstant(r) = {0, 31}
        BY <1>r5 DEF RoundConstant, KeccakF_RoundConstants
    <2> QED
        BY <1>3, <1>4, <2>1, <2>2
<1>r6. CASE r = 6
    <2>1. s = {0, 2, 4, 5}
        BY <1>2, <1>r6 DEF Starts
    <2>2. RoundConstant(r) = {0, 7, 15, 31, 63}
        BY <1>r6 DEF RoundConstant, KeccakF_RoundConstants
    <2> QED
        BY <1>3, <1>4, <2>1, <2>2
<1>r7. CASE r = 7
    <2>1. s = {0, 1, 2, 3, 6}
        BY <1>2, <1>r7 DEF Starts
    <2>2. RoundConstant(r) = {0, 3, 15, 63}
        BY <1>r7 DEF RoundConstant, KeccakF_RoundConstants
    <2> QED
        BY <1>3, <1>4, <2>1, <2>2
<1>r8. CASE r = 8
    <2>1. s = {1, 3, 6, 7}
        BY <1>2, <1>r8 DEF Starts
    <2>2. RoundConstant(r) = {1, 3, 7}
        BY <1>r8 DEF RoundConstant, KeccakF_RoundConstants
    <2> QED
        BY <1>3, <1>4, <2>1, <2>2
<1>r9. CASE r = 9
    <2>1. s = {4, 5, 6}
        BY <1>2, <1>r9 DEF Starts
    <2>2. RoundConstant(r) = {3, 7}
        BY <1>r9 DEF RoundConstant, KeccakF_RoundConstants
    <2> QED
        BY <1>3, <1>4, <2>1, <2>2
<1>r10. CASE r = 10
    <2>1. s = {0, 6}
        BY <1>2, <1>r10 DEF Starts
    <2>2. RoundConstant(r) = {0, 3, 15, 31}
        BY <1>r10 DEF RoundConstant, KeccakF_RoundConstants
    <2> QED
        BY <1>3, <1>4, <2>1, <2>2
<1>r11. CASE r = 11
    <2>1. s = {2, 3, 5, 6, 7}
        BY <1>2, <1>r11 DEF Starts
    <2>2. RoundConstant(r) = {1, 3, 31}
        BY <1>r11 DEF RoundConstant, KeccakF_RoundConstants
    <2> QED
        BY <1>3, <1>4, <2>1, <2>2
<1>r12. CASE r = 12
    <2>1. s = {0, 2, 4, 6, 7}
        BY <1>2, <1>r12 DEF Starts
    <2>2. RoundConstant(r) = {0, 1, 3, 7, 15, 31}
        BY <1>r12 DEF RoundConstant, KeccakF_RoundConstants
    <2> QED
        BY <1>3, <1>4, <2>1, <2>2
<1>r13. CASE r = 13
    <2>1. s = {0, 2, 3, 6, 7}
        BY <1>2, <1>r13 DEF Starts
    <2>2. RoundConstant(r) = {0, 1, 3, 7, 63}
        BY <1>r13 DEF RoundConstant, KeccakF_RoundConstants
    <2> QED
        BY <1>3, <1>4, <2>1, <2>2
<1>r14. CASE r = 14
    <2>1. s = {0, 1, 5, 6}
        BY <1>2, <1>r14 DEF Starts
    <2>2. RoundConstant(r) = {0, 3, 7, 15, 63}
        BY <1>r14 DEF RoundConstant, KeccakF_RoundConstants
    <2> QED
        BY <1>3, <1>4, <2>1, <2>2
<1>r15. CASE r = 15
    <2>1. s = {0, 1, 3, 5, 7}
        BY <1>2, <1>r15 DEF Starts
    <2>2. RoundConstant(r) = {0, 1, 15, 63}
        BY <1>r15 DEF RoundConstant, KeccakF_RoundConstants
    <2> QED
        BY <1>3, <1>4, <2>1, <2>2
<1>r16. CASE r = 16
    <2>1. s = {1, 3, 5, 7}
        BY <1>2, <1>r16 DEF Starts
    <2>2. RoundConstant(r) = {1, 15, 63}
        BY <1>r16 DEF RoundConstant, KeccakF_RoundConstants
    <2> QED
        BY <1>3, <1>4, <2>1, <2>2
<1>r17. CASE r = 17
    <2>1. s = {1, 3, 5}
        BY <1>2, <1>r17 DEF Starts
    <2>2. RoundConstant(r) = {7, 63}
        BY <1>r17 DEF RoundConstant, KeccakF_RoundConstants
    <2> QED
        BY <1>3, <1>4, <2>1, <2>2
<1>r18. CASE r = 18
    <2>1. s = {1, 4, 5, 6, 7}
        BY <1>2, <1>r18 DEF Starts
    <2>2. RoundConstant(r) = {1, 3, 15}
        BY <1>r18 DEF RoundConstant, KeccakF_RoundConstants
    <2> QED
        BY <1>3, <1>4, <2>1, <2>2
<1>r19. CASE r = 19
    <2>1. s = {3, 5, 6, 7}
        BY <1>2, <1>r19 DEF Starts
    <2>2. RoundConstant(r) = {1, 3, 31, 63}
        BY <1>r19 DEF RoundConstant, KeccakF_RoundConstants
    <2> QED
        BY <1>3, <1>4, <2>1, <2>2
<1>r20. CASE r = 20
    <2>1. s = {0, 1, 2, 4, 5}
        BY <1>2, <1>r20 DEF Starts
    <2>2. RoundConstant(r) = {0, 7, 15, 31, 63}
        BY <1>r20 DEF RoundConstant, KeccakF_RoundConstants
    <2> QED
        BY <1>3, <1>4, <2>1, <2>2
<1>r21. CASE r = 21
    <2>1. s = {1, 2, 3, 4, 5}
        BY <1>2, <1>r21 DEF Starts
    <2>2. RoundConstant(r) = {7, 15, 63}
        BY <1>r21 DEF RoundConstant, KeccakF_RoundConstants
    <2> QED
        BY <1>3, <1>4, <2>1, <2>2
<1>r22. CASE r = 22
    <2>1. s = {0, 1, 3}
        BY <1>2, <1>r22 DEF Starts
    <2>2. RoundConstant(r) = {0, 31}
        BY <1>r22 DEF RoundConstant, KeccakF_RoundConstants
    <2> QED
        BY <1>3, <1>4, <2>1, <2>2
<1>r23. CASE r = 23
    <2>1. s = {2, 6}
        BY <1>2, <1>r23 DEF Starts
    <2>2. RoundConstant(r) = {3, 15, 31, 63}
        BY <1>r23 DEF RoundConstant, KeccakF_RoundConstants
    <2> QED
        BY <1>3, <1>4, <2>1, <2>2
<1> QED
    BY <1>r0, <1>r1, <1>r2, <1>r3, <1>r4, <1>r5, <1>r6, <1>r7, <1>r8, <1>r9, <1>r10, <1>r11,
       <1>r12, <1>r13, <1>r14, <1>r15, <1>r16, <1>r17, <1>r18, <1>r19, <1>r20, <1>r21, <1>r22, <1>r23

----------------------------------------------------------------------------
(***************************************************************************)
(* Where the lane that ends at w comes from, and how far it is turned.     *)
(***************************************************************************)
From(w) == (((w % 5) + 3 * (w \div 5)) % 5) + 5 * (w % 5)
LaneTurn(w) == keccak_rho_offset[From(w) + 1]

LEMMA WordForm ==
    \A w \in KeccakWord : w % 5 \in Coordinate /\ w \div 5 \in Coordinate /\ w = (w % 5) + 5 * (w \div 5)
    BY DEF KeccakWord, Coordinate

LEMMA FromForm ==
    \A w \in KeccakWord : /\ From(w) \in KeccakWord
                          /\ From(w) % 5 = ((w % 5) + 3 * (w \div 5)) % 5
                          /\ From(w) \div 5 = w % 5
    BY DEF KeccakWord, From

LEMMA TurnForm ==
    \A w \in KeccakWord : LaneTurn(w) \in 0 .. 63
    BY FromForm DEF LaneTurn, KeccakWord, keccak_rho_offset

LEMMA SourceIs ==
    ASSUME NEW w \in KeccakWord
    PROVE  Source[w] = From(w)
<1>1. \A s \in KeccakWord : From(Destination(s % 5, s \div 5)) = s
    BY DEF KeccakWord, From, Destination
<1>2. Destination(From(w) % 5, From(w) \div 5) = w
    BY DEF KeccakWord, From, Destination
<1>3. Source[w] = CHOOSE s \in KeccakWord : Destination(s % 5, s \div 5) = w
    BY DEF Source
<1>4. From(w) \in KeccakWord
    BY FromForm
<1> QED
    BY <1>1, <1>2, <1>3, <1>4

\* The three tables of offsets, and the rows of the unrolled codes.
LEMMA RtlOffsetIs ==
    ASSUME NEW w \in KeccakWord
    PROVE  RtlOffset(From(w) % 5, From(w) \div 5) = LaneTurn(w)
<1>1. From(w) \in KeccakWord
    BY FromForm
<1>2. From(w) = (From(w) % 5) + 5 * (From(w) \div 5)
    BY <1>1, WordForm
<1> QED
    BY <1>2 DEF RtlOffset, LaneTurn

LEMMA ModelOffsetIs ==
    ASSUME NEW w \in KeccakWord
    PROVE  ModelOffset(From(w) % 5, From(w) \div 5) = LaneTurn(w)
<1>1. \A x, y \in Coordinate : ModelOffset(x, y) = RtlOffset(x, y)
    BY DEF ModelOffset, RtlOffset, KeccakF_RotationConstants, keccak_rho_offset, Coordinate
<1>2. From(w) % 5 \in Coordinate /\ From(w) \div 5 \in Coordinate
    BY FromForm, WordForm
<1> QED
    BY <1>1, <1>2, RtlOffsetIs

LEMMA RowsAre ==
    ASSUME NEW w \in KeccakWord
    PROVE  LET from == UnrolledRows[(w \div 5) + 1][(w % 5) + 1]
           IN  from[1] = From(w) /\ from[2] = LaneTurn(w)
<1>1. ASSUME NEW y \in Coordinate, NEW x \in Coordinate
      PROVE  LET from == UnrolledRows[y + 1][x + 1]
             IN  from[1] = ((x + 3 * y) % 5) + 5 * x /\ from[2] = keccak_rho_offset[from[1] + 1]
    <2>2. CASE y = 0
        <3>1. UnrolledRows[y + 1] = << <<0, 0>>, <<6, 44>>, <<12, 43>>, <<18, 21>>, <<24, 14>> >>
            BY <2>2 DEF UnrolledRows, N
        <3> QED
            BY <3>1, <2>2 DEF keccak_rho_offset, Coordinate
    <2>3. CASE y = 1
        <3>1. UnrolledRows[y + 1] = << <<3, 28>>, <<9, 20>>, <<10, 3>>, <<16, 45>>, <<22, 61>> >>
            BY <2>3 DEF UnrolledRows, N
        <3> QED
            BY <3>1, <2>3 DEF keccak_rho_offset, Coordinate
    <2>4. CASE y = 2
        <3>1. UnrolledRows[y + 1] = << <<1, 1>>, <<7, 6>>, <<13, 25>>, <<19, 8>>, <<20, 18>> >>
            BY <2>4 DEF UnrolledRows, N
        <3> QED
            BY <3>1, <2>4 DEF keccak_rho_offset, Coordinate
    <2>5. CASE y = 3
        <3>1. UnrolledRows[y + 1] = << <<4, 27>>, <<5, 36>>, <<11, 10>>, <<17, 15>>, <<23, 56>> >>
            BY <2>5 DEF UnrolledRows, N
        <3> QED
            BY <3>1, <2>5 DEF keccak_rho_offset, Coordinate
    <2>6. CASE y = 4
        <3>1. UnrolledRows[y + 1] = << <<2, 62>>, <<8, 55>>, <<14, 39>>, <<15, 41>>, <<21, 2>> >>
            BY <2>6 DEF UnrolledRows, N
        <3> QED
            BY <3>1, <2>6 DEF keccak_rho_offset, Coordinate
    <2> QED
        BY <2>2, <2>3, <2>4, <2>5, <2>6 DEF Coordinate
<1>2. w % 5 \in Coordinate /\ w \div 5 \in Coordinate
    BY WordForm
<1> QED
    BY <1>1, <1>2 DEF From, LaneTurn

----------------------------------------------------------------------------
(***************************************************************************)
(* A shuffle of bytes is a turn by whole bytes.                            *)
(***************************************************************************)
LEMMA ShuffleTurns ==
    ASSUME NEW a \in SUBSET (0 .. 63)
    PROVE  Shuffle(a, rho8) = Rol(a, 8) /\ Shuffle(a, rho56) = Rol(a, 56)
<1>1. \A i \in 0 .. 63 : i \div 8 \in 0 .. 7 /\ i % 8 \in 0 .. 7 /\ i = 8 * (i \div 8) + (i % 8)
    OBVIOUS
<1>2. \A i \in 0 .. 63 : /\ 8 * rho8[(i \div 8) + 1] + (i % 8) = (i + 56) % 64
                         /\ 8 * rho56[(i \div 8) + 1] + (i % 8) = (i + 8) % 64
    BY <1>1 DEF rho8, rho56
<1>3. /\ Shuffle(a, rho8) = {i \in 0 .. 63 : (i + 56) % 64 \in a}
      /\ Shuffle(a, rho56) = {i \in 0 .. 63 : (i + 8) % 64 \in a}
    BY <1>2 DEF Shuffle
<1>4. \A i \in 0 .. 63 : /\ (((i + 56) % 64) + 8) % 64 = i /\ (((i + 8) % 64) + 56) % 64 = i
                         /\ (i + 56) % 64 \in 0 .. 63 /\ (i + 8) % 64 \in 0 .. 63
    OBVIOUS
<1> QED
    BY <1>3, <1>4 DEF Rol

LEMMA VectorRolIs ==
    ASSUME NEW a \in SUBSET (0 .. 63), NEW n \in 0 .. 63
    PROVE  VectorRol(a, n) = Rol(a, n)
<1>1. CASE n = 8
    BY <1>1, ShuffleTurns DEF VectorRol
<1>2. CASE n = 56
    BY <1>2, ShuffleTurns DEF VectorRol
<1>3. CASE n # 8 /\ n # 56
    BY <1>3 DEF VectorRol
<1> QED
    BY <1>1, <1>2, <1>3

----------------------------------------------------------------------------
(***************************************************************************)
(* One round, in one form for all.                                         *)
(***************************************************************************)
Moved(a, c) == [w \in KeccakWord |-> Rol(Xor(a[From(w)], ThetaEffect(c)[From(w) % 5]), LaneTurn(w))]
OneRound(r, a, c) == Iota([w \in KeccakWord |-> Chi(Moved(a, c), w % 5, w \div 5)], RoundConstant(r))

LEMMA StandardIsOne ==
    ASSUME NEW r \in 0 .. 23, NEW a
    PROVE  StandardRound(r, a) = OneRound(r, a, Parity(a))
<1> DEFINE d == ThetaEffect(Parity(a))
           b == [w \in KeccakWord |->
                 LET x == w % 5   y == w \div 5   from == (x + 3 * y) % 5
                 IN  Rol(Xor(a[from + 5 * x], d[from]), RhoOffset[from][x])]
<1>1. ASSUME NEW w \in KeccakWord
      PROVE  b[w] = Rol(Xor(a[From(w)], d[From(w) % 5]), LaneTurn(w))
    <2> DEFINE x == w % 5
               from == (x + 3 * (w \div 5)) % 5
    <2>1. From(w) = from + 5 * x /\ From(w) % 5 = from
        BY FromForm DEF From
    <2>2. from \in Coordinate /\ x \in Coordinate
        BY WordForm DEF Coordinate
    <2>3. RhoOffset[from][x] = LaneTurn(w)
        BY RhoOffsetIs, <2>1, <2>2 DEF LaneTurn
    <2> QED
        BY <2>1, <2>3
<1>2. b = Moved(a, Parity(a))
    BY <1>1 DEF Moved
<1> HIDE DEF b
<1>3. StandardRound(r, a) = Iota([w \in KeccakWord |-> Chi(b, w % 5, w \div 5)], StandardConstant[r])
    BY DEF StandardRound, b
<1> QED
    BY <1>2, <1>3, ConstantsAre DEF OneRound

LEMMA RtlIsOne ==
    ASSUME NEW r, NEW a
    PROVE  RtlRound(r, a) = OneRound(r, a, Parity(a))
<1> DEFINE d == ThetaEffect(Parity(a))
           b == [w \in KeccakWord |->
                 LET x == Source[w] % 5   y == Source[w] \div 5
                 IN  Rol(Xor(a[Source[w]], d[x]), RtlOffset(x, y))]
<1>1. ASSUME NEW w \in KeccakWord
      PROVE  b[w] = Rol(Xor(a[From(w)], d[From(w) % 5]), LaneTurn(w))
    BY SourceIs, RtlOffsetIs
<1>2. b = Moved(a, Parity(a))
    BY <1>1 DEF Moved
<1> HIDE DEF b
<1>3. RtlRound(r, a) = Iota([w \in KeccakWord |-> Chi(b, w % 5, w \div 5)], RoundConstant(r))
    BY DEF RtlRound, LoopRound, b
<1> QED
    BY <1>2, <1>3 DEF OneRound

LEMMA ModelIsOne ==
    ASSUME NEW r, NEW a
    PROVE  ModelRound(r, a) = OneRound(r, a, Parity(a))
<1> DEFINE d == ThetaEffect(Parity(a))
           b == [w \in KeccakWord |->
                 LET x == Source[w] % 5   y == Source[w] \div 5
                 IN  Rol(Xor(a[Source[w]], d[x]), ModelOffset(x, y))]
<1>1. ASSUME NEW w \in KeccakWord
      PROVE  b[w] = Rol(Xor(a[From(w)], d[From(w) % 5]), LaneTurn(w))
    BY SourceIs, ModelOffsetIs
<1>2. b = Moved(a, Parity(a))
    BY <1>1 DEF Moved
<1> HIDE DEF b
<1>3. ModelRound(r, a) = Iota([w \in KeccakWord |-> Chi(b, w % 5, w \div 5)], RoundConstant(r))
    BY DEF ModelRound, LoopRound, b
<1> QED
    BY <1>2, <1>3 DEF OneRound

LEMMA UnrolledIsOne ==
    ASSUME NEW r, NEW a, NEW c
    PROVE  UnrolledRound(r, a, c, Rol) = OneRound(r, a, c)
<1> DEFINE d == ThetaEffect(c)
           b == [w \in KeccakWord |->
                 LET from == UnrolledRows[(w \div 5) + 1][(w % 5) + 1]
                 IN  Rol(Xor(a[from[1]], d[from[1] % 5]), from[2])]
<1>1. ASSUME NEW w \in KeccakWord
      PROVE  b[w] = Rol(Xor(a[From(w)], d[From(w) % 5]), LaneTurn(w))
    BY RowsAre
<1>2. b = Moved(a, c)
    BY <1>1 DEF Moved
<1> HIDE DEF b
<1>3. UnrolledRound(r, a, c, Rol) = Iota([w \in KeccakWord |-> Chi(b, w % 5, w \div 5)], RoundConstant(r))
    BY DEF UnrolledRound, b
<1> QED
    BY <1>2, <1>3 DEF OneRound

----------------------------------------------------------------------------
(***************************************************************************)
(* Lanes have 64 bits.                                                     *)
(***************************************************************************)
LEMMA BitsStay ==
    ASSUME NEW a \in SUBSET (0 .. 63), NEW b \in SUBSET (0 .. 63)
    PROVE  /\ Xor(a, b) \in SUBSET (0 .. 63) /\ AndNot(a, b) \in SUBSET (0 .. 63)
           /\ \A n \in 0 .. 63 : Rol(a, n) \in SUBSET (0 .. 63)
<1>1. Xor(a, b) \in SUBSET (0 .. 63) /\ AndNot(a, b) \in SUBSET (0 .. 63)
    BY DEF Xor, SymDiff, AndNot
<1>2. ASSUME NEW n \in 0 .. 63 PROVE Rol(a, n) \in SUBSET (0 .. 63)
    BY DEF Rol
<1> QED
    BY <1>1, <1>2

LEMMA ConstantType == \A r \in 0 .. 23 : RoundConstant(r) \in SUBSET (0 .. 63)
    BY DEF RoundConstant, KeccakF_RoundConstants

LEMMA ParityType ==
    ASSUME NEW a \in KeccakState
    PROVE  Parity(a) \in [Coordinate -> SUBSET (0 .. 63)]
<1>1. \A x \in Coordinate : Column(a, x) \in SUBSET (0 .. 63)
    <2> TAKE x \in Coordinate
    <2>1. /\ a[x] \in SUBSET (0 .. 63) /\ a[x + 5] \in SUBSET (0 .. 63) /\ a[x + 10] \in SUBSET (0 .. 63)
          /\ a[x + 15] \in SUBSET (0 .. 63) /\ a[x + 20] \in SUBSET (0 .. 63)
        BY DEF KeccakState, KeccakWord, Coordinate
    <2> QED
        BY <2>1, BitsStay DEF Column
<1> QED
    BY <1>1 DEF Parity

LEMMA EffectType ==
    ASSUME NEW c \in [Coordinate -> SUBSET (0 .. 63)]
    PROVE  ThetaEffect(c) \in [Coordinate -> SUBSET (0 .. 63)]
<1>1. \A x \in Coordinate : (x + 4) % 5 \in Coordinate /\ (x + 1) % 5 \in Coordinate
    BY DEF Coordinate
<1>2. ASSUME NEW x \in Coordinate
      PROVE  Xor(c[(x + 4) % 5], Rol(c[(x + 1) % 5], 1)) \in SUBSET (0 .. 63)
    <2>1. c[(x + 4) % 5] \in SUBSET (0 .. 63) /\ c[(x + 1) % 5] \in SUBSET (0 .. 63)
        BY <1>1
    <2>2. Rol(c[(x + 1) % 5], 1) \in SUBSET (0 .. 63)
        BY <2>1, BitsStay
    <2> QED
        BY <2>1, <2>2, BitsStay
<1> QED
    BY <1>2 DEF ThetaEffect

\* What is turned, and what it becomes.
LEMMA MovedType ==
    ASSUME NEW a \in KeccakState, NEW c \in [Coordinate -> SUBSET (0 .. 63)]
    PROVE  /\ \A w \in KeccakWord : Xor(a[From(w)], ThetaEffect(c)[From(w) % 5]) \in SUBSET (0 .. 63)
           /\ Moved(a, c) \in KeccakState
<1>1. ASSUME NEW w \in KeccakWord
      PROVE  Xor(a[From(w)], ThetaEffect(c)[From(w) % 5]) \in SUBSET (0 .. 63)
    <2>1. From(w) \in KeccakWord /\ From(w) % 5 \in Coordinate
        BY FromForm, WordForm
    <2>2. a[From(w)] \in SUBSET (0 .. 63) /\ ThetaEffect(c)[From(w) % 5] \in SUBSET (0 .. 63)
        BY <2>1, EffectType DEF KeccakState
    <2> QED
        BY <2>2, BitsStay
<1>2. \A w \in KeccakWord :
         Rol(Xor(a[From(w)], ThetaEffect(c)[From(w) % 5]), LaneTurn(w)) \in SUBSET (0 .. 63)
    BY <1>1, TurnForm, BitsStay
<1> QED
    BY <1>1, <1>2 DEF Moved, KeccakState

LEMMA RoundType ==
    ASSUME NEW r \in 0 .. 23, NEW a \in KeccakState, NEW c \in [Coordinate -> SUBSET (0 .. 63)]
    PROVE  OneRound(r, a, c) \in KeccakState
<1> DEFINE b == Moved(a, c)
           e == [w \in KeccakWord |-> Chi(b, w % 5, w \div 5)]
<1>1. b \in KeccakState
    BY MovedType
<1> HIDE DEF b
<1>2. ASSUME NEW w \in KeccakWord PROVE Chi(b, w % 5, w \div 5) \in SUBSET (0 .. 63)
    <2>1. \A i \in Nat : b[(i % 5) + 5 * (w \div 5)] \in SUBSET (0 .. 63)
        <3>1. \A i \in Nat : (i % 5) + 5 * (w \div 5) \in KeccakWord
            BY DEF KeccakWord
        <3> QED
            BY <1>1, <3>1 DEF KeccakState
    <2>2. w % 5 \in Nat /\ (w % 5) + 1 \in Nat /\ (w % 5) + 2 \in Nat
        BY DEF KeccakWord
    <2> QED
        BY <2>1, <2>2, BitsStay DEF Chi
<1>3. e \in KeccakState
    BY <1>2 DEF KeccakState
<1> HIDE DEF e
<1>a. e[0] \in SUBSET (0 .. 63) /\ RoundConstant(r) \in SUBSET (0 .. 63)
    BY <1>3, ConstantType DEF KeccakState, KeccakWord
<1>4. Xor(e[0], RoundConstant(r)) \in SUBSET (0 .. 63)
    BY <1>a, BitsStay
<1>5. Iota(e, RoundConstant(r)) \in KeccakState
    BY <1>3, <1>4 DEF Iota, KeccakState
<1> QED
    BY <1>5 DEF OneRound, e, b

LEMMA VectorIsOne ==
    ASSUME NEW r, NEW a \in KeccakState, NEW c \in [Coordinate -> SUBSET (0 .. 63)]
    PROVE  UnrolledRound(r, a, c, VectorRol) = OneRound(r, a, c)
<1> DEFINE d == ThetaEffect(c)
           b == [w \in KeccakWord |->
                 LET from == UnrolledRows[(w \div 5) + 1][(w % 5) + 1]
                 IN  VectorRol(Xor(a[from[1]], d[from[1] % 5]), from[2])]
<1>1. ASSUME NEW w \in KeccakWord
      PROVE  b[w] = Rol(Xor(a[From(w)], d[From(w) % 5]), LaneTurn(w))
    <2>1. b[w] = VectorRol(Xor(a[From(w)], d[From(w) % 5]), LaneTurn(w))
        BY RowsAre
    <2> QED
        BY <2>1, MovedType, TurnForm, VectorRolIs
<1>2. b = Moved(a, c)
    BY <1>1 DEF Moved
<1> HIDE DEF b
<1>3. UnrolledRound(r, a, c, VectorRol) = Iota([w \in KeccakWord |-> Chi(b, w % 5, w \div 5)], RoundConstant(r))
    BY DEF UnrolledRound, b
<1> QED
    BY <1>2, <1>3 DEF OneRound

----------------------------------------------------------------------------
\* The state is that of the standard, and the parities the vectorised code
\* carries are those of its state as long as a round is left to use them.
RoundsInv ==
    /\ kround \in 0 .. NROUNDS
    /\ kcode = "fips202" => kround % 2 = 0
    /\ kstate \in KeccakState
    /\ kcode = "KeccakP1600times4" /\ kround < NROUNDS => kparity = Parity(kstate)
    /\ KeccakAgrees

LEMMA RoundsInitInv == RoundsInit => RoundsInv
    BY KeccakInputsAssumption DEF RoundsInit, RoundsInv, KeccakAgrees, NROUNDS

LEMMA RtlPassKeeps ==
    ASSUME RoundsInv, RoundsNext, RtlPass
    PROVE  RoundsInv'
<1>1. kround \in 0 .. 23 /\ kround + 1 \in 0 .. 24 /\ kcode' = "spx_keccak_round"
    BY DEF RoundsInv, RoundsNext, RtlPass, NROUNDS
<1>2. kstate' = OneRound(kround, kstate, Parity(kstate)) /\ kref' = kstate'
    BY <1>1, RtlIsOne, StandardIsOne DEF RtlPass, RoundsInv, KeccakAgrees
<1>3. kstate' \in KeccakState
    BY <1>1, <1>2, ParityType, RoundType DEF RoundsInv
<1> QED
    BY <1>1, <1>2, <1>3 DEF RoundsInv, KeccakAgrees, RtlPass, NROUNDS

LEMMA ModelPassKeeps ==
    ASSUME RoundsInv, RoundsNext, ModelPass
    PROVE  RoundsInv'
<1>1. kround \in 0 .. 23 /\ kround + 1 \in 0 .. 24 /\ kcode' = "keccakx4"
    BY DEF RoundsInv, RoundsNext, ModelPass, NROUNDS
<1>2. kstate' = OneRound(kround, kstate, Parity(kstate)) /\ kref' = kstate'
    BY <1>1, ModelIsOne, StandardIsOne DEF ModelPass, RoundsInv, KeccakAgrees
<1>3. kstate' \in KeccakState
    BY <1>1, <1>2, ParityType, RoundType DEF RoundsInv
<1> QED
    BY <1>1, <1>2, <1>3 DEF RoundsInv, KeccakAgrees, ModelPass, NROUNDS

LEMMA FipsPassKeeps ==
    ASSUME RoundsInv, RoundsNext, FipsPass
    PROVE  RoundsInv'
<1>1. /\ kround \in 0 .. 23 /\ kround + 1 \in 0 .. 23 /\ kround + 2 \in 0 .. 24
      /\ (kround + 2) % 2 = 0 /\ kcode' = "fips202"
    BY DEF RoundsInv, RoundsNext, FipsPass, NROUNDS
<1> DEFINE e == OneRound(kround, kstate, Parity(kstate))
<1>2. e \in KeccakState
    BY <1>1, ParityType, RoundType DEF RoundsInv
<1>3. e = StandardRound(kround, kstate)
    BY <1>1, StandardIsOne
<1>4. UnrolledRound(kround, kstate, Parity(kstate), Rol) = e
    BY UnrolledIsOne
<1> HIDE DEF e
<1>5. OneRound(kround + 1, e, Parity(e)) = StandardRound(kround + 1, e)
    BY <1>1, StandardIsOne
<1>6. kstate' = OneRound(kround + 1, e, Parity(e)) /\ kref' = kstate'
    BY <1>3, <1>4, <1>5, UnrolledIsOne DEF FipsPass, KeccakF1600_TwoRounds, RoundsInv, KeccakAgrees
<1>7. kstate' \in KeccakState
    BY <1>1, <1>2, <1>6, ParityType, RoundType
<1> QED
    BY <1>1, <1>6, <1>7 DEF RoundsInv, KeccakAgrees, FipsPass, NROUNDS

LEMMA VectorPassKeeps ==
    ASSUME RoundsInv, RoundsNext, VectorPass
    PROVE  RoundsInv'
<1>1. /\ kround \in 0 .. 23 /\ kround + 1 \in 0 .. 24 /\ kcode' = "KeccakP1600times4"
      /\ kcode = "KeccakP1600times4" /\ kparity = Parity(kstate) /\ kstate \in KeccakState
    BY DEF RoundsInv, RoundsNext, VectorPass, NROUNDS
<1> DEFINE e == OneRound(kround, kstate, Parity(kstate))
<1>2. e \in KeccakState
    BY <1>1, ParityType, RoundType
<1>3. e = StandardRound(kround, kstate)
    BY <1>1, StandardIsOne
<1>4. UnrolledRound(kround, kstate, kparity, VectorRol) = e
    BY <1>1, ParityType, VectorIsOne
<1> HIDE DEF e
<1>5. kstate' = e /\ (kround < 23 => kparity' = Parity(e))
    BY <1>1, <1>4 DEF VectorPass, thetaRhoPiChiIotaPrepareTheta, thetaRhoPiChiIota, NROUNDS
<1>6. kref' = e /\ kround' = kround + 1
    BY <1>3 DEF VectorPass, RoundsInv, KeccakAgrees
<1> QED
    BY <1>1, <1>2, <1>5, <1>6 DEF RoundsInv, KeccakAgrees, NROUNDS

----------------------------------------------------------------------------
(***************************************************************************)
(* For any input the RTL round, the C model, fips202 and the vectorised    *)
(* library have after every pass the state that the round of FIPS 202      *)
(* makes, with its constants and offsets as the standard generates them.   *)
(***************************************************************************)
THEOREM KeccakCorrect == RoundsSpec => []KeccakAgrees
<1>1. RoundsInv /\ [RoundsNext]_roundsVars => RoundsInv'
    <2>1. CASE RoundsNext
        BY <2>1, RtlPassKeeps, ModelPassKeeps, FipsPassKeeps, VectorPassKeeps DEF RoundsNext
    <2>2. CASE UNCHANGED roundsVars
        BY <2>2 DEF roundsVars, RoundsInv, KeccakAgrees
    <2> QED
        BY <2>1, <2>2
<1>2. RoundsInv => KeccakAgrees
    BY DEF RoundsInv
<1> QED
    BY <1>1, <1>2, RoundsInitInv, PTL DEF RoundsSpec

----------------------------------------------------------------------------
(***************************************************************************)
(* The digits of WOTS+: first the loop that adds the checksum up.          *)
(***************************************************************************)
Adds(f, d, n) ==
    f = [i \in 0 .. n |-> IF i = 0 THEN 0 ELSE f[i - 1] + (SPX_WOTS_W - 1 - d[i])]

LEMMA AddsExists ==
    ASSUME NEW d, NEW n \in Nat
    PROVE  \E f : Adds(f, d, n)
<1> DEFINE Step(x, i) == x + (SPX_WOTS_W - 1 - d[i])
           S == {k \in Nat : \E f : Adds(f, d, k)}
<1>1. 0 \in S
    <2> DEFINE f == [i \in 0 .. 0 |-> 0]
    <2>1. Adds(f, d, 0)
        BY DEF Adds
    <2> QED
        BY <2>1
<1>2. ASSUME NEW k \in Nat, k \in S PROVE k + 1 \in S
    <2>1. PICK f : Adds(f, d, k)
        BY <1>2
    <2>2. PICK next : next = Step(f[k], k + 1)
        OBVIOUS
    <2> DEFINE g == [i \in 0 .. k + 1 |-> IF i = k + 1 THEN next ELSE f[i]]
    <2>3. /\ g = [i \in 0 .. k + 1 |-> g[i]] /\ g[k + 1] = next
          /\ \A i \in 0 .. k : g[i] = f[i]
        OBVIOUS
    <2> HIDE DEF g
    <2>4. ASSUME NEW i \in 0 .. k + 1
          PROVE  g[i] = IF i = 0 THEN 0 ELSE Step(g[i - 1], i)
        <3>1. CASE i = 0
            <4>1. 0 \in 0 .. k
                OBVIOUS
            <4>2. f[0] = 0
                BY <2>1, <4>1 DEF Adds
            <4> QED
                BY <4>1, <4>2, <2>3, <3>1
        <3>2. CASE i = k + 1
            <4>0. i - 1 = k /\ k \in 0 .. k /\ i # 0
                BY <3>2
            <4>1. g[i] = next /\ i - 1 = k /\ g[i - 1] = f[k] /\ i # 0
                BY <2>3, <3>2, <4>0
            <4> QED
                BY <4>1, <2>2, <3>2
        <3>3. CASE i \in 1 .. k
            <4>1. i - 1 \in 0 .. k /\ i \in 0 .. k /\ i # 0
                BY <3>3
            <4>2. f[i] = Step(f[i - 1], i)
                BY <2>1, <4>1 DEF Adds
            <4>3. g[i] = f[i] /\ g[i - 1] = f[i - 1]
                BY <2>3, <4>1
            <4> QED
                BY <4>1, <4>2, <4>3
        <3> QED
            BY <3>1, <3>2, <3>3
    <2>5. Adds(g, d, k + 1)
        BY <2>3, <2>4 DEF Adds
    <2> QED
        BY <2>5
<1> HIDE DEF S
<1>3. n \in S
    BY <1>1, <1>2, Induct
<1> QED
    BY <1>3 DEF S

LEMMA CsumAdds ==
    ASSUME NEW b, NEW d, NEW n \in Nat, b.wots_len1 = n
    PROVE  \E f : /\ f[0] = 0
                  /\ \A i \in 1 .. n : f[i] = f[i - 1] + (15 - d[i])
                  /\ Csum(b, d) = f[n]
<1> DEFINE F == CHOOSE f : Adds(f, d, n)
<1>1. Csum(b, d) = F[n]
    BY DEF Csum, Adds
<1>2. Adds(F, d, n)
    BY AddsExists
<1> HIDE DEF F
<1>3. F[0] = 0
    BY <1>2 DEF Adds
<1>4. \A i \in 1 .. n : F[i] = F[i - 1] + (15 - d[i])
    BY <1>2 DEF Adds, SPX_WOTS_W
<1> QED
    BY <1>1, <1>3, <1>4

MessageDigits(n) == [1 .. n -> 0 .. 15]

LEMMA CsumRange ==
    ASSUME NEW b, NEW n \in Nat, b.wots_len1 = n, NEW d \in MessageDigits(n)
    PROVE  Csum(b, d) \in 0 .. 15 * n
<1>1. PICK f : /\ f[0] = 0
               /\ \A i \in 1 .. n : f[i] = f[i - 1] + (15 - d[i])
               /\ Csum(b, d) = f[n]
    BY CsumAdds
<1> DEFINE S == {k \in Nat : k <= n => f[k] \in 0 .. 15 * k}
<1>2. 0 \in S
    BY <1>1
<1>3. ASSUME NEW k \in Nat, k \in S PROVE k + 1 \in S
    <2>1. CASE k + 1 <= n
        <3>1. f[k] \in 0 .. 15 * k
            BY <1>3, <2>1
        <3>2. k + 1 \in 1 .. n /\ (k + 1) - 1 = k
            BY <2>1
        <3>3. PICK x \in 0 .. 15 : x = d[k + 1]
            BY <3>2 DEF MessageDigits
        <3>4. f[k + 1] = f[k] + (15 - x)
            BY <1>1, <3>2, <3>3
        <3>5. f[k + 1] \in 0 .. 15 * (k + 1)
            BY <3>1, <3>4
        <3> QED
            BY <3>5
    <2>2. CASE ~(k + 1 <= n)
        BY <2>2
    <2> QED
        BY <2>1, <2>2
<1> HIDE DEF S
<1>4. n \in S
    BY <1>2, <1>3, Induct
<1> QED
    BY <1>1, <1>4 DEF S

\* Digits that are nowhere smaller and somewhere larger leave less.
LEMMA CsumFalls ==
    ASSUME NEW b, NEW n \in Nat, b.wots_len1 = n,
           NEW d \in MessageDigits(n), NEW e \in MessageDigits(n),
           \A i \in 1 .. n : d[i] <= e[i], NEW j \in 1 .. n, d[j] < e[j]
    PROVE  Csum(b, e) < Csum(b, d)
<1>1. PICK f : /\ f[0] = 0
               /\ \A i \in 1 .. n : f[i] = f[i - 1] + (15 - d[i])
               /\ Csum(b, d) = f[n]
    BY CsumAdds
<1>2. PICK g : /\ g[0] = 0
               /\ \A i \in 1 .. n : g[i] = g[i - 1] + (15 - e[i])
               /\ Csum(b, e) = g[n]
    BY CsumAdds
<1> DEFINE S == {k \in Nat : k <= n => /\ f[k] \in Int /\ g[k] \in Int /\ g[k] <= f[k]
                                       /\ j <= k => g[k] < f[k]}
<1>3. 0 \in S
    BY <1>1, <1>2
<1>4. ASSUME NEW k \in Nat, k \in S PROVE k + 1 \in S
    <2>1. CASE k + 1 <= n
        <3>1. f[k] \in Int /\ g[k] \in Int /\ g[k] <= f[k] /\ (j <= k => g[k] < f[k])
            BY <1>4, <2>1
        <3>2. k + 1 \in 1 .. n /\ (k + 1) - 1 = k
            BY <2>1
        <3>3. PICK x \in 0 .. 15, y \in 0 .. 15 : x = d[k + 1] /\ y = e[k + 1]
            BY <3>2 DEF MessageDigits
        <3>4. f[k + 1] = f[k] + (15 - x) /\ g[k + 1] = g[k] + (15 - y)
            BY <1>1, <1>2, <3>2, <3>3
        <3>5. x <= y /\ (j = k + 1 => x < y)
            BY <3>2, <3>3
        <3>6. /\ f[k + 1] \in Int /\ g[k + 1] \in Int /\ g[k + 1] <= f[k + 1]
              /\ j <= k + 1 => g[k + 1] < f[k + 1]
            BY <3>1, <3>4, <3>5
        <3> QED
            BY <3>6
    <2>2. CASE ~(k + 1 <= n)
        BY <2>2
    <2> QED
        BY <2>1, <2>2
<1> HIDE DEF S
<1>5. n \in S
    BY <1>3, <1>4, Induct
<1> QED
    BY <1>1, <1>2, <1>5 DEF S

----------------------------------------------------------------------------
(***************************************************************************)
(* The checksum's digits: however many there are, they are the number's,   *)
(* and none is lost.                                                       *)
(***************************************************************************)
LEMMA Literals == 2 ^ 0 = 1 /\ 2 ^ 4 = 16 /\ 256 ^ 0 = 1 /\ 256 ^ 1 = 256
    OBVIOUS

LEMMA BytesAre == \A v \in Nat : ByteOf(v, 0) = v % 256 /\ ByteOf(v, 1) = (v \div 256) % 256
    BY Literals DEF ByteOf

\* What the digits c, most significant first, are worth.
Worth(c, len) == CASE len = 2 -> 16 * c[1] + c[2]
                   [] len = 3 -> 256 * c[1] + 16 * c[2] + c[3]
                   [] len = 4 -> 4096 * c[1] + 256 * c[2] + 16 * c[3] + c[4]

LEMMA ChecksumOfTwo ==
    ASSUME NEW b, NEW d, b.wots_len2 = 2, NEW v \in Nat, v < 256, Csum(b, d) = v
    PROVE  /\ wots_checksum(b, d) \in [1 .. 2 -> 0 .. 15]
           /\ Worth(wots_checksum(b, d), 2) = v
<1>1. (8 - ((2 * 4) % 8)) % 8 = 0 /\ ((2 * 4) + 7) \div 8 = 1 /\ v * 1 = v
    OBVIOUS
<1> DEFINE s == [k \in 1 .. 1 |-> ByteOf(v, 1 - k)]
<1>2. wots_checksum(b, d) = base_w(2, s)
    BY <1>1, Literals DEF wots_checksum
<1>3. s[1] = v
    BY BytesAre
<1> HIDE DEF s
<1>4. base_w(2, s) = [i \in 1 .. 2 |-> IF i = 1 THEN v \div 16 ELSE v % 16]
    BY <1>3 DEF base_w
<1>5. v \div 16 \in 0 .. 15 /\ v % 16 \in 0 .. 15 /\ (16 * (v \div 16)) + (v % 16) = v
    OBVIOUS
<1> QED
    BY <1>2, <1>4, <1>5 DEF Worth

LEMMA ChecksumOfThree ==
    ASSUME NEW b, NEW d, b.wots_len2 = 3, NEW v \in Nat, v < 4096, Csum(b, d) = v
    PROVE  /\ wots_checksum(b, d) \in [1 .. 3 -> 0 .. 15]
           /\ Worth(wots_checksum(b, d), 3) = v
<1>1. (8 - ((3 * 4) % 8)) % 8 = 4 /\ ((3 * 4) + 7) \div 8 = 2
    OBVIOUS
<1> DEFINE s == [k \in 1 .. 2 |-> ByteOf(v * 16, 2 - k)]
<1>2. wots_checksum(b, d) = base_w(3, s)
    BY <1>1, Literals DEF wots_checksum
<1>3. s[1] = v \div 16 /\ s[2] = 16 * (v % 16)
    <2>1. v * 16 \in Nat /\ 2 - 1 = 1 /\ 2 - 2 = 0
        OBVIOUS
    <2>2. s[1] = ((v * 16) \div 256) % 256 /\ s[2] = (v * 16) % 256
        BY <2>1, BytesAre
    <2> QED
        BY <2>2
<1> HIDE DEF s
<1>4. base_w(3, s) = [i \in 1 .. 3 |-> IF i = 1 THEN s[1] \div 16 ELSE IF i = 2 THEN s[1] % 16
                                       ELSE s[2] \div 16]
    BY DEF base_w
<1>5. s[1] \div 16 = v \div 256 /\ s[1] % 16 = (v \div 16) % 16 /\ s[2] \div 16 = v % 16
    BY <1>3
<1> QED
    BY <1>2, <1>4, <1>5 DEF Worth

LEMMA Nibbles ==
    ASSUME NEW x \in Nat, x < 256
    PROVE  \E h \in 0 .. 15, l \in 0 .. 15 : h = x \div 16 /\ l = x % 16 /\ x = (16 * h) + l
<1>1. x \div 16 \in 0 .. 15 /\ x % 16 \in 0 .. 15 /\ x = (16 * (x \div 16)) + (x % 16)
    OBVIOUS
<1> QED
    BY <1>1

LEMMA ChecksumOfFour ==
    ASSUME NEW b, NEW d, b.wots_len2 = 4, NEW v \in Nat, v < 65536, Csum(b, d) = v
    PROVE  /\ wots_checksum(b, d) \in [1 .. 4 -> 0 .. 15]
           /\ Worth(wots_checksum(b, d), 4) = v
<1>1. (8 - ((4 * 4) % 8)) % 8 = 0 /\ ((4 * 4) + 7) \div 8 = 2 /\ v * 1 = v
    OBVIOUS
<1> DEFINE s == [k \in 1 .. 2 |-> ByteOf(v, 2 - k)]
<1>2. wots_checksum(b, d) = base_w(4, s)
    BY <1>1, Literals DEF wots_checksum
<1>3. s[1] = v \div 256 /\ s[2] = v % 256
    <2>1. v \in Nat /\ 2 - 1 = 1 /\ 2 - 2 = 0
        OBVIOUS
    <2>2. s[1] = (v \div 256) % 256 /\ s[2] = v % 256
        BY <2>1, BytesAre
    <2> HIDE DEF s
    <2> QED
        BY <2>2
<1> HIDE DEF s
<1>4. base_w(4, s) = [i \in 1 .. 4 |-> IF i = 1 THEN s[1] \div 16 ELSE IF i = 2 THEN s[1] % 16
                                       ELSE IF i = 3 THEN s[2] \div 16 ELSE s[2] % 16]
    BY DEF base_w
<1>5. /\ s[1] \in Nat /\ s[1] < 256 /\ s[2] \in Nat /\ s[2] < 256
      /\ (256 * s[1]) + s[2] = v
    BY <1>3
<1>6. PICK x1 \in 0 .. 15, x2 \in 0 .. 15 : x1 = s[1] \div 16 /\ x2 = s[1] % 16 /\ s[1] = (16 * x1) + x2
    BY <1>5, Nibbles
<1>7. PICK y1 \in 0 .. 15, y2 \in 0 .. 15 : y1 = s[2] \div 16 /\ y2 = s[2] % 16 /\ s[2] = (16 * y1) + y2
    BY <1>5, Nibbles
<1>8. base_w(4, s) = [i \in 1 .. 4 |-> IF i = 1 THEN x1 ELSE IF i = 2 THEN x2
                                       ELSE IF i = 3 THEN y1 ELSE y2]
    BY <1>4, <1>6, <1>7
<1>9. (4096 * x1) + (256 * x2) + (16 * y1) + y2 = v
    BY <1>5, <1>6, <1>7
<1> QED
    BY <1>2, <1>8, <1>9 DEF Worth

LEMMA ChecksumIs ==
    ASSUME NEW b, WotsLengths(b), NEW d \in MessageDigits(b.wots_len1)
    PROVE  /\ wots_checksum(b, d) \in [1 .. b.wots_len2 -> 0 .. 15]
           /\ Worth(wots_checksum(b, d), b.wots_len2) = Csum(b, d)
<1>1. PICK n \in 2 .. 256 : n = b.n /\ b.wots_len1 = 2 * n /\ b.wots_len2 = WotsLen2(n)
    BY DEF WotsLengths
<1>2. PICK len1 \in Nat : len1 = b.wots_len1 /\ len1 = 2 * n
    BY <1>1
<1>3. PICK v \in 0 .. 15 * len1 : v = Csum(b, d)
    BY <1>2, CsumRange
<1>4. CASE n <= 8
    <2>1. b.wots_len2 = 2
        BY <1>1, <1>4 DEF WotsLen2
    <2>2. v \in Nat /\ v < 256
        BY <1>2, <1>4
    <2>3. /\ wots_checksum(b, d) \in [1 .. 2 -> 0 .. 15]
          /\ Worth(wots_checksum(b, d), 2) = v
        BY <1>3, <2>1, <2>2, ChecksumOfTwo
    <2> QED
        BY <1>3, <2>1, <2>3
<1>5. CASE 8 < n /\ n <= 136
    <2>1. b.wots_len2 = 3
        BY <1>1, <1>5 DEF WotsLen2
    <2>2. v \in Nat /\ v < 4096
        BY <1>2, <1>5
    <2>3. /\ wots_checksum(b, d) \in [1 .. 3 -> 0 .. 15]
          /\ Worth(wots_checksum(b, d), 3) = v
        <3>1. Csum(b, d) = v
            BY <1>3
        <3> QED
            BY <2>1, <2>2, <3>1, ChecksumOfThree
    <2> QED
        BY <1>3, <2>1, <2>3
<1>6. CASE 136 < n
    <2>1. b.wots_len2 = 4
        BY <1>1, <1>6 DEF WotsLen2
    <2>2. v \in Nat /\ v < 65536
        <3>1. 15 * len1 <= 7680
            BY <1>2
        <3> QED
            BY <3>1
    <2>3. /\ wots_checksum(b, d) \in [1 .. 4 -> 0 .. 15]
          /\ Worth(wots_checksum(b, d), 4) = v
        <3>1. Csum(b, d) = v
            BY <1>3
        <3> QED
            BY <2>1, <2>2, <3>1, ChecksumOfFour
    <2> QED
        BY <1>3, <2>1, <2>3
<1> QED
    BY <1>4, <1>5, <1>6

\* Of a smaller number some digit is smaller.
LEMMA NoneLess ==
    ASSUME NEW x1 \in Int, NEW x2 \in Int, NEW x3 \in Int, NEW x4 \in Int,
           NEW y1 \in Int, NEW y2 \in Int, NEW y3 \in Int, NEW y4 \in Int,
           x1 <= y1, x2 <= y2, x3 <= y3, x4 <= y4
    PROVE  /\ ~((256 * y1) + (16 * y2) + y3 < (256 * x1) + (16 * x2) + x3)
           /\ ~((4096 * y1) + (256 * y2) + (16 * y3) + y4 < (4096 * x1) + (256 * x2) + (16 * x3) + x4)
    OBVIOUS

LEMMA WorthFalls ==
    ASSUME NEW len \in {2, 3, 4}, NEW c \in [1 .. len -> 0 .. 15], NEW e \in [1 .. len -> 0 .. 15],
           Worth(e, len) < Worth(c, len)
    PROVE  \E i \in 1 .. len : e[i] < c[i]
<1>1. CASE len = 2
    BY <1>1 DEF Worth
<1>2. CASE len = 3
    <2>1. PICK x1 \in Int, x2 \in Int, x3 \in Int : x1 = c[1] /\ x2 = c[2] /\ x3 = c[3]
        BY <1>2
    <2>2. PICK y1 \in Int, y2 \in Int, y3 \in Int : y1 = e[1] /\ y2 = e[2] /\ y3 = e[3]
        BY <1>2
    <2>3. (256 * y1) + (16 * y2) + y3 < (256 * x1) + (16 * x2) + x3
        BY <1>2, <2>1, <2>2 DEF Worth
    <2>4. y1 < x1 \/ y2 < x2 \/ y3 < x3
        BY <2>3, NoneLess
    <2> QED
        BY <1>2, <2>1, <2>2, <2>4
<1>3. CASE len = 4
    <2>1. PICK x1 \in Int, x2 \in Int, x3 \in Int, x4 \in Int :
              x1 = c[1] /\ x2 = c[2] /\ x3 = c[3] /\ x4 = c[4]
        <3>1. c[1] \in Int /\ c[2] \in Int /\ c[3] \in Int /\ c[4] \in Int
            BY <1>3
        <3> QED
            BY <3>1
    <2>2. PICK y1 \in Int, y2 \in Int, y3 \in Int, y4 \in Int :
              y1 = e[1] /\ y2 = e[2] /\ y3 = e[3] /\ y4 = e[4]
        <3>1. e[1] \in Int /\ e[2] \in Int /\ e[3] \in Int /\ e[4] \in Int
            BY <1>3
        <3> QED
            BY <3>1
    <2>3. (4096 * y1) + (256 * y2) + (16 * y3) + y4 < (4096 * x1) + (256 * x2) + (16 * x3) + x4
        BY <1>3, <2>1, <2>2 DEF Worth
    <2>4. y1 < x1 \/ y2 < x2 \/ y3 < x3 \/ y4 < x4
        BY <2>3, NoneLess
    <2> QED
        BY <1>3, <2>1, <2>2, <2>4
<1> QED
    BY <1>1, <1>2, <1>3

----------------------------------------------------------------------------
(***************************************************************************)
(* chain_lengths, and the digits of a message.                             *)
(***************************************************************************)
Messages(n) == [1 .. n -> 0 .. 255]

LEMMA DigitsType ==
    ASSUME NEW n \in Nat, NEW m \in Messages(n)
    PROVE  /\ base_w(2 * n, m) \in MessageDigits(2 * n)
           /\ \A k \in 1 .. n : /\ base_w(2 * n, m)[2 * k - 1] = m[k] \div 16
                                /\ base_w(2 * n, m)[2 * k] = m[k] % 16
<1>1. ASSUME NEW i \in 1 .. 2 * n
      PROVE  (IF i % 2 = 1 THEN m[(i + 1) \div 2] \div 16 ELSE m[(i + 1) \div 2] % 16) \in 0 .. 15
    <2>1. (i + 1) \div 2 \in 1 .. n
        OBVIOUS
    <2>2. PICK x \in 0 .. 255 : x = m[(i + 1) \div 2]
        BY <2>1 DEF Messages
    <2>3. x \div 16 \in 0 .. 15 /\ x % 16 \in 0 .. 15
        OBVIOUS
    <2> QED
        BY <2>2, <2>3
<1>2. base_w(2 * n, m) \in MessageDigits(2 * n)
    BY <1>1 DEF base_w, MessageDigits
<1>3. ASSUME NEW k \in 1 .. n
      PROVE  base_w(2 * n, m)[2 * k - 1] = m[k] \div 16 /\ base_w(2 * n, m)[2 * k] = m[k] % 16
    <2>1. /\ 2 * k - 1 \in 1 .. 2 * n /\ 2 * k \in 1 .. 2 * n
          /\ (2 * k - 1) % 2 = 1 /\ (2 * k) % 2 # 1
          /\ ((2 * k - 1) + 1) \div 2 = k /\ (2 * k + 1) \div 2 = k
        OBVIOUS
    <2> QED
        BY <2>1 DEF base_w
<1> QED
    BY <1>2, <1>3

LEMMA LengthsAre ==
    ASSUME NEW b, WotsLengths(b), NEW m \in Messages(b.n), NEW d, d = base_w(b.wots_len1, m)
    PROVE  /\ d \in MessageDigits(b.wots_len1)
           /\ \A i \in 1 .. b.wots_len1 : chain_lengths(b, m)[i] = d[i]
           /\ \A i \in 1 .. b.wots_len2 :
                  chain_lengths(b, m)[b.wots_len1 + i] = wots_checksum(b, d)[i]
<1>1. PICK n \in Nat, len1 \in Nat, len2 \in Nat :
          n = b.n /\ len1 = b.wots_len1 /\ len1 = 2 * n /\ len2 = b.wots_len2
    BY DEF WotsLengths, WotsLen2
<1> DEFINE c == wots_checksum(b, d)
<1>2. d \in MessageDigits(len1)
    BY <1>1, DigitsType
<1>3. c \in [1 .. len2 -> 0 .. 15]
    BY <1>1, <1>2, ChecksumIs
<1>4. chain_lengths(b, m) = d \o c
    BY <1>1 DEF chain_lengths
<1> HIDE DEF c
<1>5. d \in Seq(0 .. 15) /\ Len(d) = len1 /\ c \in Seq(0 .. 15) /\ Len(c) = len2
    BY <1>2, <1>3 DEF MessageDigits
<1>6. /\ \A i \in 1 .. len1 : (d \o c)[i] = d[i]
      /\ \A i \in 1 .. len2 : (d \o c)[len1 + i] = c[i]
    BY <1>5
<1> QED
    BY <1>1, <1>2, <1>4, <1>6 DEF c

----------------------------------------------------------------------------
(***************************************************************************)
(* Of any two digests, each has a smaller digit than the other: a          *)
(* signature of one is never that of the other, hashed further.            *)
(***************************************************************************)
THEOREM NoDigestDominates ==
    ASSUME NEW b, WotsLengths(b), NEW m \in Messages(b.n), NEW other \in Messages(b.n), m # other
    PROVE  \E i \in 1 .. b.wots_len : chain_lengths(b, other)[i] < chain_lengths(b, m)[i]
<1>1. PICK n \in Nat, len1 \in Nat, len2 \in {2, 3, 4} :
          /\ n = b.n /\ len1 = b.wots_len1 /\ len1 = 2 * n /\ len2 = b.wots_len2
          /\ b.wots_len = len1 + len2
    BY DEF WotsLengths, WotsLen2
<1>0. PICK d, e : /\ d = base_w(len1, m) /\ d = base_w(b.wots_len1, m)
                  /\ e = base_w(len1, other) /\ e = base_w(b.wots_len1, other)
    BY <1>1
<1>2. d \in MessageDigits(len1) /\ e \in MessageDigits(len1)
    BY <1>0, <1>1, DigitsType
<1>3. SUFFICES ASSUME \A i \in 1 .. len1 : d[i] <= e[i]
               PROVE  \E i \in 1 .. len2 : wots_checksum(b, e)[i] < wots_checksum(b, d)[i]
    <2>0. /\ \A i \in 1 .. len1 : chain_lengths(b, m)[i] = d[i] /\ chain_lengths(b, other)[i] = e[i]
          /\ \A i \in 1 .. len2 : /\ chain_lengths(b, m)[len1 + i] = wots_checksum(b, d)[i]
                                  /\ chain_lengths(b, other)[len1 + i] = wots_checksum(b, e)[i]
        <3>1. /\ \A i \in 1 .. b.wots_len1 : chain_lengths(b, m)[i] = d[i]
              /\ \A i \in 1 .. b.wots_len2 : chain_lengths(b, m)[b.wots_len1 + i] = wots_checksum(b, d)[i]
            BY <1>0, LengthsAre
        <3>2. /\ \A i \in 1 .. b.wots_len1 : chain_lengths(b, other)[i] = e[i]
              /\ \A i \in 1 .. b.wots_len2 :
                     chain_lengths(b, other)[b.wots_len1 + i] = wots_checksum(b, e)[i]
            BY <1>0, LengthsAre
        <3> QED
            BY <1>1, <3>1, <3>2
    <2>1. CASE \A i \in 1 .. len1 : d[i] <= e[i]
        <3>1. PICK i \in 1 .. len2 : wots_checksum(b, e)[i] < wots_checksum(b, d)[i]
            BY <1>3, <2>1
        <3>2. len1 + i \in 1 .. b.wots_len
            BY <1>1
        <3>3. chain_lengths(b, other)[len1 + i] < chain_lengths(b, m)[len1 + i]
            BY <2>0, <3>1
        <3> QED
            BY <3>2, <3>3
    <2>2. CASE \E i \in 1 .. len1 : ~(d[i] <= e[i])
        <3>1. PICK i \in 1 .. len1 : ~(d[i] <= e[i])
            BY <2>2
        <3>2. d[i] \in 0 .. 15 /\ e[i] \in 0 .. 15
            BY <1>2 DEF MessageDigits
        <3>3. chain_lengths(b, other)[i] < chain_lengths(b, m)[i]
            BY <2>0, <3>1, <3>2
        <3>4. i \in 1 .. b.wots_len
            BY <1>1
        <3> QED
            BY <3>3, <3>4
    <2> QED
        BY <2>1, <2>2
<1>4. PICK k \in 1 .. n : m[k] # other[k]
    <2>1. m \in [1 .. n -> 0 .. 255] /\ other \in [1 .. n -> 0 .. 255]
        BY <1>1 DEF Messages
    <2> QED
        BY <2>1
<1>5. PICK x \in 0 .. 255, y \in 0 .. 255 : x = m[k] /\ y = other[k]
    BY <1>1, <1>4 DEF Messages
<1>6. /\ d[2 * k - 1] = x \div 16 /\ d[2 * k] = x % 16
      /\ e[2 * k - 1] = y \div 16 /\ e[2 * k] = y % 16
    BY <1>0, <1>1, <1>5, DigitsType
<1>7. PICK j \in 1 .. len1 : d[j] < e[j]
    <2>1. 2 * k - 1 \in 1 .. len1 /\ 2 * k \in 1 .. len1
        BY <1>1
    <2>2. x \div 16 <= y \div 16 /\ x % 16 <= y % 16
        BY <1>3, <1>6, <2>1
    <2>3. x \div 16 < y \div 16 \/ x % 16 < y % 16
        BY <1>4, <1>5, <2>2
    <2> QED
        BY <1>6, <2>1, <2>3
<1>8. Csum(b, e) < Csum(b, d)
    BY <1>1, <1>2, <1>3, <1>7, CsumFalls
<1>9. /\ wots_checksum(b, d) \in [1 .. len2 -> 0 .. 15] /\ Worth(wots_checksum(b, d), len2) = Csum(b, d)
      /\ wots_checksum(b, e) \in [1 .. len2 -> 0 .. 15] /\ Worth(wots_checksum(b, e), len2) = Csum(b, e)
    BY <1>1, <1>2, ChecksumIs
<1> QED
    BY <1>8, <1>9, WorthFalls

----------------------------------------------------------------------------
(***************************************************************************)
(* The digests the run looks at, one for every sum of the digits.          *)
(***************************************************************************)
FillOf(sum, i) == IF sum <= 15 * (i - 1) THEN 0 ELSE IF sum >= 15 * i THEN 15 ELSE sum - (15 * (i - 1))

LEMMA Clamped == \A x \in Int : Max({0, Min({15, x})}) = IF x <= 0 THEN 0 ELSE IF x >= 15 THEN 15 ELSE x
<1> TAKE x \in Int
<1>1. PICK y \in Int : y = IF x >= 15 THEN 15 ELSE x
    OBVIOUS
<1>2. y \in {15, x} /\ (\A z \in {15, x} : y <= z) /\ (\A w \in {15, x} : (\A z \in {15, x} : w <= z) => w = y)
    BY <1>1
<1>3. Min({15, x}) = y
    BY <1>2 DEF Min
<1>4. PICK u \in Int : u = IF y <= 0 THEN 0 ELSE y
    OBVIOUS
<1>5. u \in {0, y} /\ (\A z \in {0, y} : u >= z) /\ (\A w \in {0, y} : (\A z \in {0, y} : w >= z) => w = u)
    BY <1>4
<1>6. Max({0, y}) = u
    BY <1>5 DEF Max
<1> QED
    BY <1>1, <1>3, <1>4, <1>6

LEMMA FillType == \A sum \in Nat, i \in Nat : FillOf(sum, i) \in 0 .. 15
    BY DEF FillOf

LEMMA DigestIs ==
    ASSUME NEW b, NEW n \in Nat, b.n = n, NEW sum \in Nat
    PROVE  /\ DigestOfSum(b, sum) \in Messages(n)
           /\ \A i \in 1 .. 2 * n : base_w(2 * n, DigestOfSum(b, sum))[i] = FillOf(sum, i)
<1> DEFINE digit(i) == Max({0, Min({SPX_WOTS_W - 1, sum - (SPX_WOTS_W - 1) * (i - 1)})})
<1>1. ASSUME NEW i \in 1 .. 2 * n PROVE digit(i) = FillOf(sum, i)
    <2>1. PICK x \in Int : x = sum - (15 * (i - 1))
        OBVIOUS
    <2>2. digit(i) = Max({0, Min({15, x})})
        BY <2>1 DEF SPX_WOTS_W
    <2>3. digit(i) = IF x <= 0 THEN 0 ELSE IF x >= 15 THEN 15 ELSE x
        BY <2>2, Clamped
    <2> HIDE DEF digit
    <2> QED
        BY <2>1, <2>3 DEF FillOf
<1>2. DigestOfSum(b, sum) = [k \in 1 .. n |-> 16 * digit(2 * k - 1) + digit(2 * k)]
    BY DEF DigestOfSum, SPX_WOTS_W
<1> HIDE DEF digit
<1>3. ASSUME NEW k \in 1 .. n
      PROVE  \E h \in 0 .. 15, l \in 0 .. 15 : /\ h = FillOf(sum, 2 * k - 1) /\ l = FillOf(sum, 2 * k)
                                               /\ DigestOfSum(b, sum)[k] = (16 * h) + l
    <2>1. 2 * k - 1 \in 1 .. 2 * n /\ 2 * k \in 1 .. 2 * n /\ 2 * k - 1 \in Nat /\ 2 * k \in Nat
        OBVIOUS
    <2>2. PICK h \in 0 .. 15, l \in 0 .. 15 : h = FillOf(sum, 2 * k - 1) /\ l = FillOf(sum, 2 * k)
        BY <2>1, FillType
    <2>3. digit(2 * k - 1) = h /\ digit(2 * k) = l
        BY <1>1, <2>1, <2>2
    <2> QED
        BY <1>2, <2>2, <2>3
<1>4. DigestOfSum(b, sum) \in Messages(n)
    <2>1. ASSUME NEW k \in 1 .. n PROVE DigestOfSum(b, sum)[k] \in 0 .. 255
        BY <1>3
    <2> QED
        BY <1>2, <2>1 DEF Messages
<1>5. ASSUME NEW i \in 1 .. 2 * n
      PROVE  base_w(2 * n, DigestOfSum(b, sum))[i] = FillOf(sum, i)
    <2>1. PICK k \in 1 .. n : i = 2 * k - 1 \/ i = 2 * k
        <3>1. (i + 1) \div 2 \in 1 .. n /\ (i = 2 * ((i + 1) \div 2) - 1 \/ i = 2 * ((i + 1) \div 2))
            OBVIOUS
        <3> QED
            BY <3>1
    <2>2. PICK h \in 0 .. 15, l \in 0 .. 15 : /\ h = FillOf(sum, 2 * k - 1) /\ l = FillOf(sum, 2 * k)
                                              /\ DigestOfSum(b, sum)[k] = (16 * h) + l
        BY <1>3
    <2>3. ((16 * h) + l) \div 16 = h /\ ((16 * h) + l) % 16 = l
        OBVIOUS
    <2>4. /\ base_w(2 * n, DigestOfSum(b, sum))[2 * k - 1] = h
          /\ base_w(2 * n, DigestOfSum(b, sum))[2 * k] = l
        BY <1>4, <2>2, <2>3, DigitsType
    <2> QED
        BY <2>1, <2>2, <2>4
<1> QED
    BY <1>4, <1>5

\* The loop leaves of the largest sum what the digits have not filled.
LEMMA CsumOfSum ==
    ASSUME NEW b, NEW n \in Nat, b.wots_len1 = n, NEW d, NEW sum \in 0 .. 15 * n,
           \A i \in 1 .. n : d[i] = FillOf(sum, i)
    PROVE  Csum(b, d) = (15 * n) - sum
<1>1. PICK f : /\ f[0] = 0
               /\ \A i \in 1 .. n : f[i] = f[i - 1] + (15 - d[i])
               /\ Csum(b, d) = f[n]
    BY CsumAdds
<1> DEFINE S == {k \in Nat : k <= n => f[k] = IF sum <= 15 * k THEN (15 * k) - sum ELSE 0}
<1>2. 0 \in S
    BY <1>1
<1>3. ASSUME NEW k \in Nat, k \in S PROVE k + 1 \in S
    <2>1. CASE k + 1 <= n
        <3>1. f[k] = IF sum <= 15 * k THEN (15 * k) - sum ELSE 0
            BY <1>3, <2>1
        <3>2. k + 1 \in 1 .. n /\ (k + 1) - 1 = k
            BY <2>1
        <3>3. d[k + 1] = IF sum <= 15 * k THEN 0 ELSE IF sum >= 15 * (k + 1) THEN 15 ELSE sum - (15 * k)
            BY <3>2 DEF FillOf
        <3>4. f[k + 1] = f[k] + (15 - d[k + 1])
            BY <1>1, <3>2
        <3>5. f[k + 1] = IF sum <= 15 * (k + 1) THEN (15 * (k + 1)) - sum ELSE 0
            BY <3>1, <3>3, <3>4
        <3> QED
            BY <3>5
    <2>2. CASE ~(k + 1 <= n)
        BY <2>2
    <2> QED
        BY <2>1, <2>2
<1> HIDE DEF S
<1>4. n \in S
    BY <1>2, <1>3, Induct
<1> QED
    BY <1>1, <1>4 DEF S

\* The lengths of the chains of a sum: its checksum's digits.
LEMMA LengthsOfSum ==
    ASSUME NEW b \in DigitSets, NEW sum \in 0 .. MaxSum(b)
    PROVE  \E c \in [1 .. b.wots_len2 -> 0 .. 15] :
               /\ Worth(c, b.wots_len2) = MaxSum(b) - sum
               /\ \A i \in 1 .. b.wots_len2 : LengthsOf[b][sum][b.wots_len1 + i] = c[i]
<1>1. WotsLengths(b)
    BY DigitSetsAssumption
<1>2. PICK n \in Nat, len1 \in Nat : n = b.n /\ len1 = b.wots_len1 /\ len1 = 2 * n
    BY <1>1 DEF WotsLengths
<1>3. MaxSum(b) = 15 * len1
    BY <1>2 DEF MaxSum, SPX_WOTS_W
<1>4. PICK m : m = DigestOfSum(b, sum)
    OBVIOUS
<1>5. PICK d : d = base_w(b.wots_len1, m) /\ d = base_w(2 * n, m)
    BY <1>2
<1>6. sum \in Nat /\ sum \in 0 .. 15 * len1
    BY <1>3
<1>7. m \in Messages(b.n) /\ \A i \in 1 .. len1 : d[i] = FillOf(sum, i)
    BY <1>2, <1>4, <1>5, <1>6, DigestIs
<1>8. /\ d \in MessageDigits(b.wots_len1)
      /\ \A i \in 1 .. b.wots_len2 : chain_lengths(b, m)[b.wots_len1 + i] = wots_checksum(b, d)[i]
    BY <1>1, <1>5, <1>7, LengthsAre
<1>9. Csum(b, d) = (15 * len1) - sum
    <2>1. b.wots_len1 = len1
        BY <1>2
    <2> QED
        BY <1>6, <1>7, <2>1, CsumOfSum
<1>10. /\ wots_checksum(b, d) \in [1 .. b.wots_len2 -> 0 .. 15]
       /\ Worth(wots_checksum(b, d), b.wots_len2) = Csum(b, d)
    BY <1>1, <1>8, ChecksumIs
<1>11. LengthsOf[b][sum] = chain_lengths(b, m)
    BY <1>4 DEF LengthsOf
<1> QED
    BY <1>3, <1>8, <1>9, <1>10, <1>11

DigitsInv == wSet \in DigitSets /\ wSum \in 0 .. MaxSum(wSet)

LEMMA MaxSumType == \A b \in DigitSets : MaxSum(b) \in Nat
    BY DigitSetsAssumption DEF WotsLengths, MaxSum, SPX_WOTS_W

LEMMA DigitsInvIs == DigitsSpec => []DigitsInv
<1>1. DigitsInit => DigitsInv
    BY MaxSumType DEF DigitsInit, DigitsInv
<1>2. DigitsInv /\ [NextSum]_digitsVars => DigitsInv'
    <2> SUFFICES ASSUME DigitsInv, [NextSum]_digitsVars PROVE DigitsInv'
        OBVIOUS
    <2>1. CASE NextSum
        <3>1. MaxSum(wSet) \in Nat /\ MaxSum(wSet') = MaxSum(wSet)
            BY <2>1, MaxSumType DEF NextSum, DigitsInv
        <3> QED
            BY <2>1, <3>1 DEF NextSum, DigitsInv
    <2>2. CASE UNCHANGED digitsVars
        BY <2>2 DEF DigitsInv, digitsVars, MaxSum
    <2> QED
        BY <2>1, <2>2
<1> QED
    BY <1>1, <1>2, PTL DEF DigitsSpec

\* In every state the run's digests reach, for every set of parameters, the
\* digest of a larger sum has a smaller digit in its checksum.
THEOREM DigitsCorrect == DigitsSpec => []DigitsNeverDominate
<1>1. DigitsInv => DigitsNeverDominate
    <2> SUFFICES ASSUME DigitsInv, NEW sum \in wSum + 1 .. MaxSum(wSet)
                 PROVE  \E i \in wSet.wots_len1 + 1 .. wSet.wots_len :
                            LengthsOf[wSet][sum][i] < LengthsOf[wSet][wSum][i]
        BY DEF DigitsNeverDominate
    <2>1. PICK len1 \in Nat, len2 \in {2, 3, 4} :
              len1 = wSet.wots_len1 /\ len2 = wSet.wots_len2 /\ wSet.wots_len = len1 + len2
        BY DigitSetsAssumption DEF DigitsInv, WotsLengths, WotsLen2
    <2>2. PICK max \in Nat : max = MaxSum(wSet)
        BY MaxSumType DEF DigitsInv
    <2>3. wSum \in 0 .. MaxSum(wSet) /\ sum \in 0 .. MaxSum(wSet) /\ sum \in Nat /\ wSum \in Nat /\ wSum < sum
        BY <2>2 DEF DigitsInv
    <2>4. PICK c \in [1 .. len2 -> 0 .. 15] :
              /\ Worth(c, len2) = max - wSum
              /\ \A i \in 1 .. len2 : LengthsOf[wSet][wSum][len1 + i] = c[i]
        BY <2>1, <2>2, <2>3, LengthsOfSum DEF DigitsInv
    <2>5. PICK e \in [1 .. len2 -> 0 .. 15] :
              /\ Worth(e, len2) = max - sum
              /\ \A i \in 1 .. len2 : LengthsOf[wSet][sum][len1 + i] = e[i]
        BY <2>1, <2>2, <2>3, LengthsOfSum DEF DigitsInv
    <2>6. Worth(e, len2) < Worth(c, len2)
        BY <2>2, <2>3, <2>4, <2>5
    <2>7. PICK i \in 1 .. len2 : e[i] < c[i]
        BY <2>6, WorthFalls
    <2>8. len1 + i \in wSet.wots_len1 + 1 .. wSet.wots_len
        BY <2>1
    <2> QED
        BY <2>4, <2>5, <2>7, <2>8
<1> QED
    BY <1>1, DigitsInvIs, PTL

----------------------------------------------------------------------------
(***************************************************************************)
(* Streams: sequences of bytes.                                            *)
(***************************************************************************)
\* What a loop does is what a function with its first value does that takes
\* every step it takes.
LEMMA SameRun ==
    ASSUME NEW f, NEW g, NEW n \in Nat, f[0] = g[0],
           \A t \in 1 .. n : f[t - 1] = g[t - 1] => f[t] = g[t]
    PROVE  \A t \in 0 .. n : f[t] = g[t]
<1> DEFINE S == {k \in Nat : k <= n => f[k] = g[k]}
<1>1. 0 \in S
    OBVIOUS
<1>2. ASSUME NEW k \in Nat, k \in S PROVE k + 1 \in S
    <2>1. CASE k + 1 <= n
        <3>1. k + 1 \in 1 .. n /\ (k + 1) - 1 = k /\ f[k] = g[k]
            BY <1>2, <2>1
        <3> QED
            BY <3>1
    <2>2. CASE ~(k + 1 <= n)
        BY <2>2
    <2> QED
        BY <2>1, <2>2
<1> HIDE DEF S
<1>3. Nat \subseteq S
    BY <1>1, <1>2, Induct
<1> QED
    BY <1>3 DEF S

\* Sequences as functions: what joining, appending and cutting give.
LEMMA ListIs ==
    ASSUME NEW b, NEW n \in Nat, b = [k \in 1 .. n |-> b[k]]
    PROVE  b \in Seq({b[k] : k \in 1 .. n}) /\ Len(b) = n /\ DOMAIN b = 1 .. n
<1> DEFINE S == {b[k] : k \in 1 .. n}
<1>1. b \in [1 .. n -> S]
    OBVIOUS
<1>2. b \in Seq(S)
    BY <1>1
<1> QED
    BY <1>1, <1>2

LEMMA AppendIs ==
    ASSUME NEW b, NEW n \in Nat, b = [k \in 1 .. n |-> b[k]], NEW x
    PROVE  Append(b, x) = [k \in 1 .. n + 1 |-> IF k = n + 1 THEN x ELSE b[k]]
    BY ListIs

LEMMA JoinIs ==
    ASSUME NEW b, NEW n \in Nat, b = [k \in 1 .. n |-> b[k]],
           NEW c, NEW m \in Nat, c = [k \in 1 .. m |-> c[k]]
    PROVE  b \o c = [k \in 1 .. n + m |-> IF k <= n THEN b[k] ELSE c[k - n]]
    BY ListIs

LEMMA PartIs ==
    ASSUME NEW b, NEW n \in Nat, b = [k \in 1 .. n |-> b[k]], NEW i \in 1 .. n + 1, NEW j \in i - 1 .. n
    PROVE  SubSeq(b, i, j) = [k \in 1 .. j - i + 1 |-> b[i + k - 1]]
    BY ListIs

LEMMA MessageIs ==
    ASSUME NEW a \in Nat, NEW b \in Nat, a <= b
    PROVE  /\ Message(a, b) = [i \in 1 .. b - a |-> Message(a, b)[i]]
           /\ Len(Message(a, b)) = b - a /\ DOMAIN Message(a, b) = 1 .. b - a
           /\ \A i \in 1 .. b - a : Message(a, b)[i] = {<<"m", a + i>>}
<1>1. /\ Message(a, b) = [i \in 1 .. b - a |-> Message(a, b)[i]]
      /\ \A i \in 1 .. b - a : Message(a, b)[i] = {<<"m", a + i>>}
    BY DEF Message
<1> QED
    BY <1>1, b - a \in Nat, ListIs

\* A stretch of a message begins with a shorter one.
LEMMA TakeMessage ==
    ASSUME NEW a \in Nat, NEW b \in Nat, a <= b, NEW k \in 0 .. b - a
    PROVE  Take(Message(a, b), k) = Message(a, a + k) /\ Drop(Message(a, b), k) = Message(a + k, b)
<1>1. /\ Message(a, b) = [i \in 1 .. b - a |-> Message(a, b)[i]] /\ b - a \in Nat
      /\ Len(Message(a, b)) = b - a
      /\ \A i \in 1 .. b - a : Message(a, b)[i] = {<<"m", a + i>>}
    BY MessageIs
<1>2. Take(Message(a, b), k) = Message(a, a + k)
    <2>1. SubSeq(Message(a, b), 1, k) = [i \in 1 .. k - 1 + 1 |-> Message(a, b)[1 + i - 1]]
        BY <1>1, PartIs, 1 \in 1 .. (b - a) + 1, k \in 1 - 1 .. b - a
    <2>2. k - 1 + 1 = k /\ (a + k) - a = k
        OBVIOUS
    <2>3. \A i \in 1 .. k : Message(a, b)[1 + i - 1] = {<<"m", a + i>>}
        <3> TAKE i \in 1 .. k
        <3>1. 1 + i - 1 = i /\ i \in 1 .. b - a
            OBVIOUS
        <3> QED
            BY <1>1, <3>1
    <2> QED
        BY <2>1, <2>2, <2>3 DEF Take, Message
<1>3. Drop(Message(a, b), k) = Message(a + k, b)
    <2>1. SubSeq(Message(a, b), k + 1, b - a) = [i \in 1 .. (b - a) - (k + 1) + 1 |-> Message(a, b)[(k + 1) + i - 1]]
        <3>1. PICK n \in Nat : n = b - a
            BY <1>1
        <3>2. k + 1 \in 1 .. n + 1 /\ n \in (k + 1) - 1 .. n
            BY <3>1
        <3>3. Message(a, b) = [i \in 1 .. n |-> Message(a, b)[i]]
            BY <1>1, <3>1
        <3>4. SubSeq(Message(a, b), k + 1, n) = [i \in 1 .. n - (k + 1) + 1 |-> Message(a, b)[(k + 1) + i - 1]]
            BY <3>2, <3>3, PartIs
        <3> QED
            BY <3>1, <3>4
    <2>2. (b - a) - (k + 1) + 1 = b - (a + k)
        OBVIOUS
    <2>3. \A i \in 1 .. b - (a + k) : Message(a, b)[(k + 1) + i - 1] = {<<"m", (a + k) + i>>}
        <3> TAKE i \in 1 .. b - (a + k)
        <3>1. (k + 1) + i - 1 = k + i /\ k + i \in 1 .. b - a /\ a + (k + i) = (a + k) + i
            OBVIOUS
        <3> QED
            BY <1>1, <3>1
    <2> QED
        BY <1>1, <2>1, <2>2, <2>3 DEF Drop, Message
<1> QED
    BY <1>2, <1>3

----------------------------------------------------------------------------
(***************************************************************************)
(* A sponge that absorbs.  After q full blocks and n bytes:                *)
(***************************************************************************)
Full(r, k)    == Message((k - 1) * r, k * r)
Part(r, q, n) == [i \in 1 .. r |-> IF i <= n THEN {<<"m", q * r + i>>} ELSE {}]
Sponge(b, c, n) == [blocks |-> b, cur |-> c, n |-> n]
Fulls(r, q)   == [k \in 1 .. q |-> Full(r, k)]
Fed(r, q, n)  == Sponge(Fulls(r, q), Part(r, q, n), n)

LEMMA SpongeIs ==
    ASSUME NEW s, NEW b, NEW c, NEW n, s = Sponge(b, c, n)
    PROVE  s.blocks = b /\ s.cur = c /\ s.n = n
    BY DEF Sponge

WithCur(s, d)     == [s EXCEPT !.cur = d]
WithCount(s, e)   == [s EXCEPT !.n = e]
WithBoth(s, d, e) == [s EXCEPT !.cur = d, !.n = e]

\* What the assignments of the code do to a state.
LEMMA SetCur ==
    ASSUME NEW s, NEW b, NEW c, NEW n, s = Sponge(b, c, n), NEW d
    PROVE  WithCur(s, d) = Sponge(b, d, n)
    BY DEF Sponge, WithCur

LEMMA SetCount ==
    ASSUME NEW s, NEW b, NEW c, NEW n, s = Sponge(b, c, n), NEW e
    PROVE  WithCount(s, e) = Sponge(b, c, e)
    BY DEF Sponge, WithCount

LEMMA SetBoth ==
    ASSUME NEW s, NEW b, NEW c, NEW n, s = Sponge(b, c, n), NEW d, NEW e
    PROVE  WithBoth(s, d, e) = Sponge(b, d, e)
<1>1. PICK t : t = [s EXCEPT !.cur = d]
    OBVIOUS
<1>2. [s EXCEPT !.cur = d, !.n = e] = [t EXCEPT !.n = e]
    BY <1>1, Zenon
<1>3. t = Sponge(b, d, n)
    BY <1>1 DEF Sponge
<1>4. [t EXCEPT !.n = e] = Sponge(b, d, e)
    BY <1>3 DEF Sponge
<1> QED
    BY <1>2, <1>4, Zenon DEF WithBoth

LEMMA PermutedIs ==
    ASSUME NEW s, NEW b, NEW c, NEW n, s = Sponge(b, c, n)
    PROVE  Permuted(s) = Sponge(Append(b, c), Zeros(Len(c)), n)
<1>1. PICK x, y : x = Append(s.blocks, s.cur) /\ y = Zeros(Len(s.cur))
    OBVIOUS
<1>2. PICK t : t = [s EXCEPT !.blocks = x]
    OBVIOUS
<1>3. Permuted(s) = [s EXCEPT !.blocks = x, !.cur = y]
    BY <1>1, Zenon DEF Permuted
<1>4. [s EXCEPT !.blocks = x, !.cur = y] = [t EXCEPT !.cur = y]
    BY <1>2, Zenon
<1>5. t = Sponge(x, c, n)
    BY <1>2 DEF Sponge
<1>6. [t EXCEPT !.cur = y] = Sponge(x, y, n)
    BY <1>5 DEF Sponge
<1> QED
    BY <1>1, <1>3, <1>4, <1>6, SpongeIs

LEMMA Products ==
    ASSUME NEW r \in Nat, NEW q \in Nat
    PROVE  q * r \in Nat /\ (q + 1) * r = q * r + r /\ ((q + 1) - 1) * r = q * r
    OBVIOUS

LEMMA XorNone == \A x : SymDiff({}, x) = x /\ SymDiff(x, {}) = x
    BY DEF SymDiff

\* Bytes XORed in after n of a block are the next bytes of the block.
LEMMA PartGrows ==
    ASSUME NEW r \in Nat, NEW q \in Nat, NEW n \in 0 .. r, NEW k \in 0 .. r - n
    PROVE  XorAt(Part(r, q, n), n, Message(q * r + n, q * r + n + k)) = Part(r, q, n + k)
<1>1. PICK base \in Nat : base = q * r
    BY Products
<1> DEFINE m == Message(base + n, base + n + k)
<1>2. DOMAIN m = 1 .. k /\ \A i \in 1 .. k : m[i] = {<<"m", (base + n) + i>>}
    <2>1. /\ base + n \in Nat /\ base + n + k \in Nat /\ base + n <= base + n + k
          /\ (base + n + k) - (base + n) = k
        OBVIOUS
    <2> QED
        BY <2>1, MessageIs
<1>3. DOMAIN Part(r, q, n) = 1 .. r
    BY DEF Part
<1> HIDE DEF m
<1>4. ASSUME NEW i \in 1 .. r
      PROVE  (IF i - n \in DOMAIN m THEN SymDiff(Part(r, q, n)[i], m[i - n]) ELSE Part(r, q, n)[i])
                 = IF i <= n + k THEN {<<"m", base + i>>} ELSE {}
    <2>1. Part(r, q, n)[i] = IF i <= n THEN {<<"m", base + i>>} ELSE {}
        BY <1>1 DEF Part
    <2>2. CASE i - n \in 1 .. k
        <3>1. m[i - n] = {<<"m", base + i>>} /\ Part(r, q, n)[i] = {}
            BY <1>2, <2>1, <2>2, (base + n) + (i - n) = base + i
        <3> QED
            BY <1>2, <2>2, <3>1, XorNone
    <2>3. CASE i - n \notin 1 .. k
        BY <1>2, <2>1, <2>3
    <2> QED
        BY <2>2, <2>3
<1> QED
    BY <1>1, <1>3, <1>4 DEF XorAt, m, Part

LEMMA PartFull ==
    ASSUME NEW r \in Nat, NEW q \in Nat
    PROVE  Part(r, q, r) = Full(r, q + 1)
<1>1. PICK base \in Nat : base = q * r
    BY Products
<1>2. Full(r, q + 1) = Message(base, base + r)
    BY <1>1, Products DEF Full
<1>3. \A i \in 1 .. r : (IF i <= r THEN {<<"m", base + i>>} ELSE {}) = {<<"m", base + i>>}
    OBVIOUS
<1>4. (base + r) - base = r
    OBVIOUS
<1>5. Message(base, base + r) = [i \in 1 .. r |-> {<<"m", base + i>>}]
    BY <1>4 DEF Message
<1> QED
    BY <1>1, <1>2, <1>3, <1>5 DEF Part

LEMMA FullPermuted ==
    ASSUME NEW r \in Nat, NEW q \in Nat
    PROVE  Permuted(Sponge(Fulls(r, q), Part(r, q, r), 0)) = Fed(r, q + 1, 0)
<1>1. Append(Fulls(r, q), Full(r, q + 1)) = Fulls(r, q + 1)
    <2> DEFINE b == [k \in 1 .. q |-> Full(r, k)]
    <2>1. b = [k \in 1 .. q |-> b[k]]
        OBVIOUS
    <2>2. \A k \in 1 .. q + 1 : (IF k = q + 1 THEN Full(r, q + 1) ELSE b[k]) = Full(r, k)
        OBVIOUS
    <2> HIDE DEF b
    <2>3. Append(b, Full(r, q + 1)) = [k \in 1 .. q + 1 |-> IF k = q + 1 THEN Full(r, q + 1) ELSE b[k]]
        BY <2>1, AppendIs
    <2> QED
        BY <2>2, <2>3 DEF b, Fulls
<1>2. Len(Part(r, q, r)) = r
    <2>1. Part(r, q, r) = [i \in 1 .. r |-> Part(r, q, r)[i]]
        BY DEF Part
    <2> QED
        BY <2>1, ListIs
<1>3. Zeros(r) = Part(r, q + 1, 0)
    BY DEF Zeros, Part
<1>4. PICK b, c, s : b = Fulls(r, q) /\ c = Part(r, q, r) /\ s = Sponge(b, c, 0)
    OBVIOUS
<1>5. Permuted(s) = Sponge(Append(b, c), Zeros(Len(c)), 0)
    BY <1>4, PermutedIs
<1>6. Append(b, c) = Fulls(r, q + 1) /\ Zeros(Len(c)) = Part(r, q + 1, 0)
    BY <1>1, <1>2, <1>3, <1>4, PartFull
<1> QED
    BY <1>4, <1>5, <1>6 DEF Fed

\* A turn of the absorbing loop fills the block and permutes.
LEMMA FillBlockIs ==
    ASSUME NEW r \in Nat, NEW q \in Nat, NEW n \in 0 .. r, NEW to \in Nat, q * r + r <= to
    PROVE  FillBlock([s |-> Fed(r, q, n), m |-> Message(q * r + n, to)], r)
               = [s |-> Fed(r, q + 1, 0), m |-> Message((q + 1) * r, to)]
<1>1. PICK base \in Nat : base = q * r /\ (q + 1) * r = base + r
    BY Products
<1>2. /\ Take(Message(base + n, to), r - n) = Message(base + n, base + n + (r - n))
      /\ Drop(Message(base + n, to), r - n) = Message(base + r, to)
    <2>1. base + n \in Nat /\ base + n <= to /\ r - n \in 0 .. to - (base + n) /\ (base + n) + (r - n) = base + r
        BY <1>1
    <2> QED
        BY <2>1, TakeMessage
<1>3. XorAt(Part(r, q, n), n, Message(base + n, base + n + (r - n))) = Part(r, q, r)
    BY <1>1, PartGrows, r - n \in 0 .. r - n, n + (r - n) = r
<1>4. PICK b, c, s : b = Fulls(r, q) /\ c = Part(r, q, n) /\ s = Fed(r, q, n) /\ s = Sponge(b, c, n)
    BY DEF Fed
<1>5. PICK m : m = Message(base + n, to)
    OBVIOUS
<1>6. PICK x : x = [s |-> s, m |-> m]
    OBVIOUS
<1>7. x.s = s /\ x.m = m
    BY <1>6
<1>8. s.n = n /\ s.cur = c /\ WithBoth(s, Part(r, q, r), 0) = Sponge(b, Part(r, q, r), 0)
    BY <1>4, SpongeIs, SetBoth
<1>9. XorAt(s.cur, s.n, Take(m, r - s.n)) = Part(r, q, r)
    BY <1>2, <1>3, <1>4, <1>5, <1>8
<1>10. Permuted(WithBoth(s, Part(r, q, r), 0)) = Fed(r, q + 1, 0)
    BY <1>4, <1>8, FullPermuted
<1>11. FillBlock(x, r) = [s |-> Permuted(WithBoth(s, XorAt(s.cur, s.n, Take(m, r - s.n)), 0)),
                          m |-> Drop(m, r - s.n)]
    BY <1>7, Zenon DEF FillBlock, WithBoth
<1>12. FillBlock(x, r) = [s |-> Fed(r, q + 1, 0), m |-> Message(base + r, to)]
    BY <1>2, <1>5, <1>8, <1>9, <1>10, <1>11
<1> QED
    BY <1>1, <1>4, <1>5, <1>6, <1>12

LEMMA Monotone ==
    ASSUME NEW r \in Nat, NEW a \in Nat, NEW b \in Nat, a <= b
    PROVE  a * r <= b * r
<1>1. PICK d \in Nat : b = a + d
    <2>1. b - a \in Nat /\ b = a + (b - a)
        OBVIOUS
    <2> QED
        BY <2>1
<1>2. (a + d) * r = a * r + d * r /\ a * r \in Nat /\ d * r \in Nat
    OBVIOUS
<1> QED
    BY <1>1, <1>2

LEMMA Division ==
    ASSUME NEW r \in Nat \ {0}, NEW x \in Nat
    PROVE  x \div r \in Nat /\ x % r \in 0 .. r - 1 /\ x = (x \div r) * r + (x % r)
    OBVIOUS

LEMMA Quotient ==
    ASSUME NEW r \in Nat \ {0}, NEW a \in Nat, NEW b \in 0 .. r - 1
    PROVE  (a * r + b) \div r = a /\ (a * r + b) % r = b
<1>1. PICK x \in Nat : x = a * r + b
    BY Products
<1>2. PICK d \in Nat, e \in 0 .. r - 1 : d = x \div r /\ e = x % r /\ x = d * r + e
    BY Division
<1>3. ASSUME d < a PROVE FALSE
    <2>1. (d + 1) * r <= a * r /\ (d + 1) * r = d * r + r /\ d * r \in Nat /\ a * r \in Nat
        BY <1>3, Monotone, Products, d + 1 \in Nat, d + 1 <= a
    <2> QED
        BY <1>1, <1>2, <2>1
<1>4. ASSUME a < d PROVE FALSE
    <2>1. (a + 1) * r <= d * r /\ (a + 1) * r = a * r + r /\ a * r \in Nat /\ d * r \in Nat
        BY <1>4, Monotone, Products, a + 1 \in Nat, a + 1 <= d
    <2> QED
        BY <1>1, <1>2, <2>1
<1>5. d = a
    BY <1>3, <1>4
<1>6. e = b
    BY <1>1, <1>2, <1>5, Products
<1> QED
    BY <1>1, <1>2, <1>5, <1>6

\* After t turns: where the rest of the message starts.
Start(r, q, n, t) == IF t = 0 THEN q * r + n ELSE (q + t) * r
FillRun(s, r, m, turns, f) ==
    f = [t \in 0 .. turns |-> IF t = 0 THEN [s |-> s, m |-> m] ELSE FillBlock(f[t - 1], r)]
Filled(r, q, n, to, t) ==
    [s |-> Fed(r, q + t, IF t = 0 THEN n ELSE 0), m |-> Message(Start(r, q, n, t), to)]

LEMMA FilledStep ==
    ASSUME NEW r \in Nat \ {0}, NEW q \in Nat, NEW n \in 0 .. r - 1, NEW to \in Nat,
           NEW turns \in Nat, q * r + turns * r <= to, NEW t \in 1 .. turns
    PROVE  FillBlock(Filled(r, q, n, to, t - 1), r) = Filled(r, q, n, to, t)
<1>2. (q + t) * r <= to /\ (q + t) * r = (q + (t - 1)) * r + r
    <2>1. t \in Nat /\ t * r <= turns * r /\ (q + t) * r = q * r + t * r /\ t * r \in Nat /\ q * r \in Nat
        BY Monotone
    <2>2. ((q + (t - 1)) + 1) * r = (q + (t - 1)) * r + r /\ (q + (t - 1)) + 1 = q + t
        BY Products, q + (t - 1) \in Nat
    <2> QED
        BY <2>1, <2>2
<1>3. PICK p \in Nat : p = q + (t - 1) /\ p + 1 = q + t
    OBVIOUS
<1>4. PICK c \in 0 .. r : c = IF t - 1 = 0 THEN n ELSE 0
    OBVIOUS
<1>5. Start(r, q, n, t - 1) = p * r + c
    BY <1>3, <1>4, Products DEF Start
<1>6. FillBlock([s |-> Fed(r, p, c), m |-> Message(p * r + c, to)], r)
          = [s |-> Fed(r, p + 1, 0), m |-> Message((p + 1) * r, to)]
    BY <1>2, <1>3, FillBlockIs
<1> QED
    BY <1>3, <1>4, <1>5, <1>6 DEF Filled, Start

LEMMA FillRunIs ==
    ASSUME NEW r \in Nat \ {0}, NEW q \in Nat, NEW n \in 0 .. r - 1, NEW to \in Nat,
           NEW turns \in Nat, q * r + turns * r <= to,
           NEW s, s = Fed(r, q, n), NEW m, m = Message(q * r + n, to),
           NEW f, FillRun(s, r, m, turns, f)
    PROVE  f[turns] = Filled(r, q, n, to, turns)
<1>1. \A t \in 1 .. turns : FillBlock(Filled(r, q, n, to, t - 1), r) = Filled(r, q, n, to, t)
    <2>1. /\ r \in Nat \ {0} /\ q \in Nat /\ n \in 0 .. r - 1 /\ to \in Nat /\ turns \in Nat
          /\ q * r + turns * r <= to
        OBVIOUS
    <2> QED
        BY ONLY <2>1, FilledStep
<1> DEFINE g == [t \in 0 .. turns |-> Filled(r, q, n, to, t)]
<1>2. f[0] = g[0]
    BY DEF FillRun, Filled, Start
<1>3. ASSUME NEW t \in 1 .. turns, f[t - 1] = g[t - 1] PROVE f[t] = g[t]
    <2>1. f[t] = FillBlock(f[t - 1], r)
        BY DEF FillRun
    <2>2. FillBlock(Filled(r, q, n, to, t - 1), r) = Filled(r, q, n, to, t)
        BY <1>1
    <2>3. f[t - 1] = Filled(r, q, n, to, t - 1)
        BY <1>3
    <2> QED
        BY <2>1, <2>2, <2>3
<1> HIDE DEF g
<1>4. \A t \in 0 .. turns : f[t] = g[t]
    BY <1>2, <1>3, SameRun
<1> QED
    BY <1>4 DEF g

LEMMA FillRunExists ==
    ASSUME NEW r \in Nat \ {0}, NEW q \in Nat, NEW n \in 0 .. r - 1, NEW to \in Nat,
           NEW turns \in Nat, q * r + turns * r <= to,
           NEW s, s = Fed(r, q, n), NEW m, m = Message(q * r + n, to)
    PROVE  \E f : FillRun(s, r, m, turns, f)
<1> DEFINE g == [t \in 0 .. turns |-> Filled(r, q, n, to, t)]
<1>2. ASSUME NEW t \in 0 .. turns
      PROVE  Filled(r, q, n, to, t) = IF t = 0 THEN [s |-> s, m |-> m] ELSE FillBlock(g[t - 1], r)
    <2>1. CASE t = 0
        BY <2>1 DEF Filled, Start
    <2>2. CASE t \in 1 .. turns
        <3>1. g[t - 1] = Filled(r, q, n, to, t - 1)
            BY <2>2
        <3>2. FillBlock(Filled(r, q, n, to, t - 1), r) = Filled(r, q, n, to, t)
            BY <2>2, FilledStep
        <3> QED
            BY <2>2, <3>1, <3>2
    <2> QED
        BY <2>1, <2>2
<1>3. g = [t \in 0 .. turns |-> IF t = 0 THEN [s |-> s, m |-> m] ELSE FillBlock(g[t - 1], r)]
    BY <1>2
<1> HIDE DEF g
<1> QED
    BY <1>3 DEF FillRun

\* A call that absorbs leaves as much absorbed as one call with all would.
LEMMA AbsorbIs ==
    ASSUME NEW r \in Nat \ {0}, NEW q \in Nat, NEW n \in 0 .. r - 1, NEW k \in Nat
    PROVE  keccak_inc_absorb(Fed(r, q, n), r, Message(q * r + n, q * r + n + k))
               = Fed(r, q + (k + n) \div r, (k + n) % r)
<1>1. PICK to \in Nat, turns \in Nat, rest \in 0 .. r - 1, base \in Nat :
          /\ to = q * r + n + k /\ turns = (k + n) \div r /\ rest = (k + n) % r
          /\ base = q * r /\ k + n = turns * r + rest
    <2>1. k + n \in Nat /\ q * r + n + k \in Nat /\ q * r \in Nat
        BY Products
    <2> QED
        BY <2>1, Division
<1>2. PICK s, m : s = Fed(r, q, n) /\ m = Message(q * r + n, to)
    OBVIOUS
<1>3. s.n = n /\ Len(m) = k
    <2>1. base + n \in Nat /\ base + n <= to /\ to - (base + n) = k
        BY <1>1
    <2>2. Len(Message(base + n, to)) = k
        BY <2>1, MessageIs
    <2>3. s.n = n
        BY <1>2, SpongeIs DEF Fed
    <2> QED
        BY <1>1, <1>2, <2>2, <2>3
<1>4. q * r + turns * r <= to
    BY <1>1, Products
<1> DEFINE f == CHOOSE fill : FillRun(s, r, m, turns, fill)
<1>5. FillRun(s, r, m, turns, f)
    BY <1>2, <1>4, FillRunExists
<1>6. f[turns] = Filled(r, q, n, to, turns)
    <2> HIDE DEF f
    <2> QED
        BY <1>2, <1>4, <1>5, FillRunIs
<1>7. PICK x : x = f[turns]
    OBVIOUS
<1>8. keccak_inc_absorb(s, r, m) = WithBoth(x.s, XorAt(x.s.cur, x.s.n, x.m), x.s.n + Len(x.m))
    <2>1. keccak_inc_absorb(s, r, m)
              = LET fill == CHOOSE fill : fill = [t \in 0 .. (Len(m) + s.n) \div r |->
                                                     IF t = 0 THEN [s |-> s, m |-> m] ELSE FillBlock(fill[t - 1], r)]
                    y == fill[(Len(m) + s.n) \div r]
                IN  [y.s EXCEPT !.cur = XorAt(y.s.cur, y.s.n, y.m), !.n = y.s.n + Len(y.m)]
        BY Zenon DEF keccak_inc_absorb
    <2> QED
        BY <1>1, <1>3, <1>7, <2>1, Zenon DEF FillRun, WithBoth
<1>9. PICK p \in Nat, c \in 0 .. rest : p = q + turns /\ c = IF turns = 0 THEN n ELSE 0
    <2>1. turns = 0 => n \in 0 .. rest
        BY <1>1, 0 * r = 0
    <2>2. q + turns \in Nat /\ (IF turns = 0 THEN n ELSE 0) \in 0 .. rest
        BY <1>1, <2>1
    <2> QED
        BY <2>2
<1>10. Start(r, q, n, turns) = p * r + c /\ to = p * r + rest /\ p * r \in Nat
    <2>1. (q + turns) * r = q * r + turns * r /\ turns * r \in Nat /\ q * r \in Nat
        OBVIOUS
    <2> QED
        BY <1>1, <1>9, <2>1 DEF Start
<1>11. x.s = Fed(r, p, c) /\ x.m = Message(p * r + c, to)
    BY <1>6, <1>7, <1>9, <1>10 DEF Filled
<1>12. PICK b, d : b = Fulls(r, p) /\ d = Part(r, p, c)
    OBVIOUS
<1>13. x.s = Sponge(b, d, c)
    BY <1>11, <1>12 DEF Fed
<1>14. x.s.cur = d /\ x.s.n = c
    BY <1>13, SpongeIs
<1>15. Len(x.m) = rest - c
    <2>1. PICK z \in Nat : z = p * r
        BY <1>10
    <2>2. z + c \in Nat /\ z + c <= to /\ to - (z + c) = rest - c
        BY <1>9, <1>10, <2>1
    <2> QED
        BY <1>11, <2>1, <2>2, MessageIs
<1>16. XorAt(d, c, x.m) = Part(r, p, rest)
    <2>1. rest - c \in 0 .. r - c /\ c + (rest - c) = rest /\ p * r + c + (rest - c) = to /\ c \in 0 .. r
        BY <1>9, <1>10
    <2>2. XorAt(Part(r, p, c), c, Message(p * r + c, p * r + c + (rest - c))) = Part(r, p, c + (rest - c))
        BY <2>1, PartGrows
    <2> QED
        BY <1>11, <1>12, <2>1, <2>2
<1>17. WithBoth(x.s, Part(r, p, rest), rest) = Sponge(b, Part(r, p, rest), rest)
    BY <1>13, SetBoth
<1>18. c + (rest - c) = rest
    BY <1>9
<1>19. keccak_inc_absorb(s, r, m) = Fed(r, p, rest)
    BY <1>8, <1>12, <1>14, <1>15, <1>16, <1>17, <1>18 DEF Fed
<1> QED
    BY <1>1, <1>2, <1>9, <1>19

----------------------------------------------------------------------------
(***************************************************************************)
(* A sponge that is squeezed.  q full blocks and n bytes are absorbed, p   *)
(* permutations were asked for output:                                     *)
(***************************************************************************)
Padded(r, q, n) == XorAt(XorAt(Part(r, q, n), n, <<Const(31)>>), r - 1, <<Const(128)>>)
Given(r, q, n, k) == IF k <= q THEN Full(r, k) ELSE IF k = q + 1 THEN Padded(r, q, n) ELSE Zeros(r)
Givens(r, q, n, p) == [k \in 1 .. q + p |-> Given(r, q, n, k)]
Squeezed(r, q, n, p, left) == Sponge(Givens(r, q, n, p), Given(r, q, n, q + p + 1), left)
Place(r, q, j) == <<q + 1 + ((j - 1) \div r), (j - 1) % r>>
OfBlock(q, p, a, k) == [i \in 1 .. k |-> <<q + p + 1, a + i - 1>>]
OutBytes(r, q, o, j) == [i \in 1 .. j |-> Place(r, q, o + i)]

\* The padding goes after the last byte and into the last place.
LEMMA FinalizeIs ==
    ASSUME NEW r \in Nat, NEW q \in Nat, NEW n \in Nat
    PROVE  keccak_inc_finalize(Fed(r, q, n), r, 31) = Squeezed(r, q, n, 0, 0)
<1>1. PICK s, b, c : s = Fed(r, q, n) /\ b = Fulls(r, q) /\ c = Part(r, q, n) /\ s = Sponge(b, c, n)
    BY DEF Fed
<1>2. keccak_inc_finalize(s, r, 31)
          = WithBoth(s, XorAt(XorAt(s.cur, s.n, <<Const(31)>>), r - 1, <<Const(128)>>), 0)
    BY Zenon DEF keccak_inc_finalize, WithBoth
<1>3. XorAt(XorAt(s.cur, s.n, <<Const(31)>>), r - 1, <<Const(128)>>) = Padded(r, q, n)
    BY <1>1, SpongeIs DEF Padded
<1>4. WithBoth(s, Padded(r, q, n), 0) = Sponge(b, Padded(r, q, n), 0)
    BY <1>1, SetBoth
<1>5. Givens(r, q, n, 0) = Fulls(r, q)
    BY DEF Givens, Given, Fulls
<1>6. Given(r, q, n, q + 0 + 1) = Padded(r, q, n)
    BY DEF Given
<1> QED
    BY <1>1, <1>2, <1>3, <1>4, <1>5, <1>6 DEF Squeezed

LEMMA GivenLen ==
    ASSUME NEW r \in Nat, NEW q \in Nat, NEW n \in Nat, NEW k \in Nat \ {0}
    PROVE  Given(r, q, n, k) = [i \in 1 .. r |-> Given(r, q, n, k)[i]] /\ Len(Given(r, q, n, k)) = r
<1>1. Given(r, q, n, k) = [i \in 1 .. r |-> Given(r, q, n, k)[i]]
    <2>1. CASE k <= q
        <3>1. PICK j \in Nat : k = j + 1
            <4>1. k - 1 \in Nat /\ k = (k - 1) + 1
                OBVIOUS
            <4> QED
                BY <4>1
        <3>2. Full(r, k) = Part(r, j, r)
            BY <3>1, PartFull
        <3> QED
            BY <2>1, <3>2 DEF Given, Part
    <2>2. CASE k = q + 1
        <3>1. Given(r, q, n, k) = Padded(r, q, n)
            BY <2>2 DEF Given
        <3>2. DOMAIN Part(r, q, n) = 1 .. r
            BY DEF Part
        <3> QED
            BY <3>1, <3>2 DEF Padded, XorAt
    <2>3. CASE k > q + 1
        <3>1. Given(r, q, n, k) = Zeros(r)
            BY <2>3 DEF Given
        <3> QED
            BY <3>1 DEF Zeros
    <2> QED
        BY <2>1, <2>2, <2>3
<1> QED
    BY <1>1, ListIs

\* Asking for one more block of output.
LEMMA PermutedSqueezed ==
    ASSUME NEW r \in Nat, NEW q \in Nat, NEW n \in Nat, NEW p \in Nat, NEW left
    PROVE  Permuted(Squeezed(r, q, n, p, left)) = Squeezed(r, q, n, p + 1, left)
<1>1. PICK s, b, c : /\ s = Squeezed(r, q, n, p, left) /\ b = Givens(r, q, n, p)
                     /\ c = Given(r, q, n, q + p + 1) /\ s = Sponge(b, c, left)
    BY DEF Squeezed
<1>2. Permuted(s) = Sponge(Append(b, c), Zeros(Len(c)), left)
    BY <1>1, PermutedIs
<1>3. Append(b, c) = Givens(r, q, n, p + 1)
    <2>1. b = [k \in 1 .. q + p |-> b[k]] /\ q + p \in Nat
        BY <1>1 DEF Givens
    <2>2. Append(b, c) = [k \in 1 .. (q + p) + 1 |-> IF k = (q + p) + 1 THEN c ELSE b[k]]
        BY <2>1, AppendIs
    <2>3. \A k \in 1 .. (q + p) + 1 : (IF k = (q + p) + 1 THEN c ELSE b[k]) = Given(r, q, n, k)
        BY <1>1 DEF Givens
    <2>4. (q + p) + 1 = q + (p + 1)
        OBVIOUS
    <2> QED
        BY <2>2, <2>3, <2>4 DEF Givens
<1>4. Len(c) = r
    BY <1>1, GivenLen, q + p + 1 \in Nat \ {0}
<1>5. Given(r, q, n, q + (p + 1) + 1) = Zeros(r)
    BY DEF Given
<1> QED
    BY <1>1, <1>2, <1>3, <1>4, <1>5 DEF Squeezed

LEMMA GivensLen ==
    ASSUME NEW r \in Nat, NEW q \in Nat, NEW n \in Nat, NEW p \in Nat, NEW left
    PROVE  /\ Squeezed(r, q, n, p, left).blocks = Givens(r, q, n, p)
           /\ Squeezed(r, q, n, p, left).cur = Given(r, q, n, q + p + 1)
           /\ Squeezed(r, q, n, p, left).n = left
           /\ Len(Squeezed(r, q, n, p, left).blocks) = q + p
<1>1. PICK s, b, c : /\ s = Squeezed(r, q, n, p, left) /\ b = Givens(r, q, n, p)
                     /\ c = Given(r, q, n, q + p + 1) /\ s = Sponge(b, c, left)
    BY DEF Squeezed
<1>2. s.blocks = b /\ s.cur = c /\ s.n = left
    BY <1>1, SpongeIs
<1>3. b = [k \in 1 .. q + p |-> b[k]] /\ q + p \in Nat
    BY <1>1 DEF Givens
<1>4. Len(b) = q + p
    BY <1>3, ListIs
<1> QED
    BY <1>1, <1>2, <1>4

\* The bytes of k blocks.
Whole(r, k) == k * r

LEMMA WholeIs ==
    ASSUME NEW r \in Nat, NEW k \in Nat
    PROVE  Whole(r, k) \in Nat /\ Whole(r, 0) = 0 /\ Whole(r, k + 1) = Whole(r, k) + r
    BY Products, 0 * r = 0 DEF Whole

LEMMA WholeSum ==
    ASSUME NEW r \in Nat, NEW k \in Nat, NEW l \in Nat
    PROVE  Whole(r, k + l) = Whole(r, k) + Whole(r, l)
<1>1. (k + l) * r = k * r + l * r
    OBVIOUS
<1> QED
    BY <1>1 DEF Whole

Splits(r, x, a, b) == r \in Nat \ {0} /\ a \in Nat /\ b \in 0 .. r - 1 /\ x = Whole(r, a) + b

LEMMA WholeQuotient ==
    ASSUME NEW r, NEW x, NEW a, NEW b, Splits(r, x, a, b)
    PROVE  x \div r = a /\ x % r = b
    BY Quotient DEF Whole, Splits

LEMMA WholeDivision ==
    ASSUME NEW r \in Nat \ {0}, NEW x \in Nat
    PROVE  x \div r \in Nat /\ x % r \in 0 .. r - 1 /\ x = Whole(r, x \div r) + (x % r)
    BY Division DEF Whole

LEMMA WholeMonotone ==
    ASSUME NEW r \in Nat, NEW a \in Nat, NEW b \in Nat, a <= b
    PROVE  Whole(r, a) <= Whole(r, b)
    BY Monotone DEF Whole

\* o bytes are out, j more, and the k of block p from place a come next.
Joins(r, q, o, j, p, a, k) ==
    /\ r \in Nat \ {0} /\ q \in Nat /\ o \in Nat /\ j \in Nat /\ p \in Nat /\ a \in 0 .. r /\ k \in 0 .. r - a
    /\ o + j = Whole(r, p) + a

LEMMA OutJoins ==
    ASSUME NEW r, NEW q, NEW o, NEW j, NEW p, NEW a, NEW k, Joins(r, q, o, j, p, a, k)
    PROVE  OutBytes(r, q, o, j) \o OfBlock(q, p, a, k) = OutBytes(r, q, o, j + k)
<1>0. /\ r \in Nat \ {0} /\ q \in Nat /\ o \in Nat /\ j \in Nat /\ p \in Nat /\ a \in 0 .. r /\ k \in 0 .. r - a
      /\ o + j = Whole(r, p) + a
    BY DEF Joins
<1>1. PICK c : c = OfBlock(q, p, a, k)
    OBVIOUS
<1>2. PICK b : b = OutBytes(r, q, o, j)
    OBVIOUS
<1>3. b = [i \in 1 .. j |-> b[i]] /\ c = [i \in 1 .. k |-> c[i]] /\ k \in Nat
    BY <1>0, <1>1, <1>2 DEF OutBytes, OfBlock
<1>4. b \o c = [i \in 1 .. j + k |-> IF i <= j THEN b[i] ELSE c[i - j]]
    <2>1. j \in Nat /\ k \in Nat
        BY <1>0, <1>3
    <2>2. b = [i \in 1 .. j |-> b[i]]
        BY <1>3
    <2>3. c = [i \in 1 .. k |-> c[i]]
        BY <1>3
    <2> QED
        BY ONLY <2>1, <2>2, <2>3, JoinIs
<1>5. ASSUME NEW i \in 1 .. j + k PROVE (IF i <= j THEN b[i] ELSE c[i - j]) = Place(r, q, o + i)
    <2>1. CASE i <= j
        BY <1>2, <2>1 DEF OutBytes
    <2>2. CASE i > j
        <3>1. PICK h \in 1 .. k : h = i - j
            BY <1>0, <2>2
        <3>2. c[h] = <<q + p + 1, a + h - 1>>
            BY <1>1, <3>1 DEF OfBlock
        <3>3. PICK z \in Nat : z = Whole(r, p)
            BY <1>0, WholeIs
        <3>4. o + j = z + a
            BY <1>0, <3>3
        <3>5. PICK e \in 0 .. r - 1, y \in Int : e = a + h - 1 /\ y = (o + i) - 1 /\ y = z + e
            <4>1. a + h - 1 \in 0 .. r - 1 /\ (o + i) - 1 \in Int /\ (o + i) - 1 = z + (a + h - 1)
                BY <1>0, <3>1, <3>4
            <4> QED
                BY <4>1
        <3>6. y \div r = p /\ y % r = e
            <4>1. Splits(r, y, p, e)
                BY <1>0, <3>3, <3>5 DEF Splits
            <4> QED
                BY <4>1, WholeQuotient
        <3>7. Place(r, q, o + i) = <<q + 1 + p, a + h - 1>> /\ q + 1 + p = q + p + 1
            BY <1>0, <3>5, <3>6 DEF Place
        <3>8. c[i - j] = Place(r, q, o + i) /\ ~(i <= j)
            BY <1>0, <2>2, <3>1, <3>2, <3>7
        <3> QED
            BY <3>8
    <2>3. i <= j \/ i > j
        BY <1>0
    <2> QED
        BY <2>1, <2>2, <2>3
<1> QED
    BY <1>1, <1>2, <1>4, <1>5 DEF OutBytes

SqueezeState(st, out, w) == [state |-> st, out |-> out, outlen |-> w]
Least2(a, b) == IF a < b THEN a ELSE b

\* A turn of the squeezing loop.
LEMMA SqueezeBlockIs ==
    ASSUME NEW r, NEW q, NEW n, NEW p, NEW o, NEW j, NEW w,
           r \in Nat \ {0}, q \in Nat, n \in Nat, p \in Nat, o \in Nat, j \in Nat, w \in Nat,
           o + j = Whole(r, p)
    PROVE  SqueezeBlock(SqueezeState(Squeezed(r, q, n, p, 0), OutBytes(r, q, o, j), w), r)
               = SqueezeState(Squeezed(r, q, n, p + 1, r - Least2(w, r)), OutBytes(r, q, o, j + Least2(w, r)),
                              w - Least2(w, r))
<1>1. PICK k \in 0 .. r : k = Least2(w, r)
    BY DEF Least2
<1>2. PICK x, next : x = SqueezeState(Squeezed(r, q, n, p, 0), OutBytes(r, q, o, j), w) /\ next = Permuted(x.state)
    OBVIOUS
<1>3. x.state = Squeezed(r, q, n, p, 0) /\ x.out = OutBytes(r, q, o, j) /\ x.outlen = w
    BY <1>2 DEF SqueezeState
<1>4. next = Squeezed(r, q, n, p + 1, 0)
    BY <1>2, <1>3, PermutedSqueezed
<1>5. Len(next.blocks) = q + p + 1
    BY <1>4, GivensLen, p + 1 \in Nat, q + (p + 1) = q + p + 1
<1>6. WithCount(next, r - k) = Squeezed(r, q, n, p + 1, r - k)
    BY <1>4, SetCount DEF Squeezed
<1>7. OutBytes(r, q, o, j) \o [i \in 1 .. k |-> <<q + p + 1, i - 1>>] = OutBytes(r, q, o, j + k)
    <2>1. PICK a \in 0 .. r : a = 0
        OBVIOUS
    <2>2. Joins(r, q, o, j, p, a, k)
        BY <2>1, WholeIs DEF Joins
    <2>3. OutBytes(r, q, o, j) \o OfBlock(q, p, a, k) = OutBytes(r, q, o, j + k)
        BY <2>2, OutJoins
    <2>4. \A i \in 1 .. k : a + i - 1 = i - 1
        BY <2>1
    <2>5. OfBlock(q, p, a, k) = [i \in 1 .. k |-> <<q + p + 1, i - 1>>]
        BY <2>4 DEF OfBlock
    <2> QED
        BY <2>3, <2>5
<1>8. SqueezeBlock(x, r)
          = [state |-> WithCount(next, r - k),
             out |-> x.out \o [i \in 1 .. k |-> <<Len(next.blocks), i - 1>>], outlen |-> x.outlen - k]
    BY <1>1, <1>2, <1>3, Zenon DEF SqueezeBlock, WithCount, Least2
<1> QED
    BY <1>1, <1>2, <1>3, <1>5, <1>6, <1>7, <1>8 DEF SqueezeState

\* After t turns that w bytes are wanted of.
TurnedTo(r, q, n, p, left, o, j, w, t) ==
    SqueezeState(Squeezed(r, q, n, p + t, IF t = 0 THEN left ELSE Whole(r, t) - Least2(w, Whole(r, t))),
                 OutBytes(r, q, o, j + Least2(w, Whole(r, t))), w - Least2(w, Whole(r, t)))
SqueezeRun(r, x, turns, f) ==
    f = [t \in 0 .. turns |-> IF t = 0 THEN x ELSE SqueezeBlock(f[t - 1], r)]

\* Before a turn no byte is left over, and the turns suffice for w bytes.
Wanted(r, q, n, p, left, o, j, w, turns) ==
    /\ r \in Nat \ {0} /\ q \in Nat /\ n \in Nat /\ p \in Nat /\ o \in Nat /\ j \in Nat
    /\ w \in Nat /\ turns \in Nat /\ Whole(r, turns) < w + r
    /\ turns # 0 => left = 0 /\ o + j = Whole(r, p)

Turns(turns, s, t) == s \in Nat /\ t \in 1 .. turns /\ s = t - 1

LEMMA TurnedStep ==
    ASSUME NEW r, NEW q, NEW n, NEW p, NEW left, NEW o, NEW j, NEW w, NEW turns, NEW s, NEW t,
           Wanted(r, q, n, p, left, o, j, w, turns), Turns(turns, s, t)
    PROVE  SqueezeBlock(TurnedTo(r, q, n, p, left, o, j, w, s), r) = TurnedTo(r, q, n, p, left, o, j, w, t)
<1>0. /\ r \in Nat \ {0} /\ q \in Nat /\ n \in Nat /\ p \in Nat /\ o \in Nat /\ j \in Nat
      /\ w \in Nat /\ turns \in Nat /\ Whole(r, turns) < w + r
      /\ left = 0 /\ o + j = Whole(r, p) /\ t \in 1 .. turns /\ s \in Nat /\ s = t - 1 /\ t = s + 1
    BY DEF Wanted, Turns
<1>1. PICK a \in Nat : a = Whole(r, s)
    BY <1>0, WholeIs
<1>2. Whole(r, t) = a + r /\ a < w
    <2>1. Whole(r, t) = a + r
        BY <1>0, <1>1, WholeIs
    <2>2. Whole(r, t) <= Whole(r, turns) /\ Whole(r, turns) \in Nat
        BY <1>0, WholeMonotone, WholeIs
    <2> QED
        BY <1>0, <1>1, <2>1, <2>2
<1>3. Least2(w, Whole(r, s)) = a
    BY <1>0, <1>1, <1>2 DEF Least2
<1>4. (IF s = 0 THEN left ELSE a - a) = 0
    BY <1>0, <1>1
<1>5. PICK p1 \in Nat, v \in Nat, h \in Nat : p1 = p + s /\ v = w - a /\ p1 + 1 = p + t /\ h = j + a
    <2>1. p + s \in Nat /\ w - a \in Nat /\ j + a \in Nat /\ (p + s) + 1 = p + t
        BY <1>0, <1>1, <1>2
    <2> QED
        BY <2>1
<1>6. TurnedTo(r, q, n, p, left, o, j, w, s) = SqueezeState(Squeezed(r, q, n, p1, 0), OutBytes(r, q, o, h), v)
    BY <1>0, <1>1, <1>3, <1>4, <1>5 DEF TurnedTo
<1>7. o + h = Whole(r, p1)
    <2>1. Whole(r, p + s) = Whole(r, p) + Whole(r, s) /\ Whole(r, p) \in Nat
        BY <1>0, WholeSum, WholeIs
    <2>2. PICK z \in Nat : z = Whole(r, p)
        BY <2>1
    <2>3. o + j = z /\ Whole(r, p1) = z + a
        BY <1>0, <1>1, <1>5, <2>1, <2>2
    <2> QED
        BY <1>0, <1>5, <2>3
<1>8. SqueezeBlock(SqueezeState(Squeezed(r, q, n, p1, 0), OutBytes(r, q, o, h), v), r)
          = SqueezeState(Squeezed(r, q, n, p1 + 1, r - Least2(v, r)), OutBytes(r, q, o, h + Least2(v, r)),
                         v - Least2(v, r))
    BY <1>0, <1>7, SqueezeBlockIs
<1>9. /\ Least2(w, Whole(r, t)) = a + Least2(v, r)
      /\ Whole(r, t) - Least2(w, Whole(r, t)) = r - Least2(v, r)
      /\ w - Least2(w, Whole(r, t)) = v - Least2(v, r)
      /\ h + Least2(v, r) = j + Least2(w, Whole(r, t))
    <2>1. PICK y \in Nat : y = Whole(r, t) /\ y = a + r
        BY <1>0, <1>2
    <2>2. /\ Least2(w, y) = a + Least2(v, r) /\ y - Least2(w, y) = r - Least2(v, r)
          /\ w - Least2(w, y) = v - Least2(v, r) /\ h + Least2(v, r) = j + Least2(w, y)
        BY <1>0, <1>2, <1>5, <2>1 DEF Least2
    <2> QED
        BY <2>1, <2>2
<1>10. t # 0
    BY <1>0
<1> QED
    BY <1>5, <1>6, <1>8, <1>9, <1>10 DEF TurnedTo

LEMMA SqueezeRunIs ==
    ASSUME NEW r, NEW q, NEW n, NEW p, NEW left, NEW o, NEW j, NEW w, NEW turns, NEW x,
           Wanted(r, q, n, p, left, o, j, w, turns), x = TurnedTo(r, q, n, p, left, o, j, w, 0)
    PROVE  /\ \E f : SqueezeRun(r, x, turns, f)
           /\ \A f : SqueezeRun(r, x, turns, f) => f[turns] = TurnedTo(r, q, n, p, left, o, j, w, turns)
<1> DEFINE T(t) == TurnedTo(r, q, n, p, left, o, j, w, t)
<1>1. turns \in Nat
    BY DEF Wanted
<1>2. ASSUME NEW t \in 1 .. turns PROVE SqueezeBlock(T(t - 1), r) = T(t)
    <2>1. PICK s \in Nat : s = t - 1 /\ Turns(turns, s, t)
        <3>1. t - 1 \in Nat
            BY <1>1
        <3> QED
            BY <3>1 DEF Turns
    <2>2. SqueezeBlock(T(s), r) = T(t)
        BY <2>1, TurnedStep
    <2> QED
        BY <2>1, <2>2
<1>3. T(0) = x
    OBVIOUS
<1> HIDE DEF T
<1> DEFINE g == [t \in 0 .. turns |-> T(t)]
<1>4. SqueezeRun(r, x, turns, g)
    <2>1. \A t \in 0 .. turns : T(t) = IF t = 0 THEN x ELSE SqueezeBlock(g[t - 1], r)
        BY <1>1, <1>2, <1>3
    <2>2. g = [t \in 0 .. turns |-> IF t = 0 THEN x ELSE SqueezeBlock(g[t - 1], r)]
        BY <2>1
    <2> QED
        BY <2>2 DEF SqueezeRun
<1>5. ASSUME NEW f, SqueezeRun(r, x, turns, f) PROVE f[turns] = T(turns)
    <2>1. f[0] = g[0]
        BY <1>1, <1>3, <1>5 DEF SqueezeRun
    <2>2. ASSUME NEW t \in 1 .. turns, f[t - 1] = g[t - 1] PROVE f[t] = g[t]
        <3>1. f[t] = SqueezeBlock(f[t - 1], r)
            BY <1>1, <1>5 DEF SqueezeRun
        <3>2. g[t - 1] = T(t - 1) /\ g[t] = T(t)
            BY <1>1
        <3> QED
            BY <1>2, <2>2, <3>1, <3>2
    <2>3. g[turns] = T(turns)
        BY <1>1
    <2> HIDE DEF g
    <2>4. \A t \in 0 .. turns : f[t] = g[t]
        BY <1>1, <2>1, <2>2, SameRun
    <2> QED
        BY <1>1, <2>3, <2>4
<1> HIDE DEF g
<1> QED
    BY <1>4, <1>5 DEF T

\* p permutations for output, of the last of which left bytes are not taken yet.
Taken(r, p, left, o) == p \in Nat /\ left \in 0 .. r - 1 /\ o \in Nat /\ o + left = Whole(r, p)

\* The bytes at hand come first.
LEMMA AtHand ==
    ASSUME NEW r \in Nat \ {0}, NEW q \in Nat, NEW p, NEW left, NEW o, Taken(r, p, left, o), NEW k \in 0 .. left
    PROVE  [i \in 1 .. k |-> <<q + p, r - left + i - 1>>] = OutBytes(r, q, o, k)
<1>1. p \in Nat /\ left \in 0 .. r - 1 /\ o \in Nat /\ o + left = Whole(r, p)
    BY DEF Taken
<1>2. CASE k = 0
    BY <1>2 DEF OutBytes
<1>3. CASE k # 0
    <2>1. PICK p0 \in Nat : p = p0 + 1
        <3>1. p # 0
            BY <1>1, <1>3, WholeIs
        <3>2. p - 1 \in Nat /\ p = (p - 1) + 1
            BY <1>1, <3>1
        <3> QED
            BY <3>2
    <2>2. PICK z \in Nat : z = Whole(r, p0) /\ Whole(r, p) = z + r
        BY <2>1, WholeIs
    <2>3. PICK a \in 0 .. r : a = r - left
        BY <1>1
    <2>4. Joins(r, q, o, 0, p0, a, k)
        <3>1. o + left = z + r
            BY <1>1, <2>2
        <3>2. o + 0 = z + a /\ k \in 0 .. r - a
            BY <1>1, <2>3, <3>1
        <3> QED
            BY <1>1, <2>2, <3>2 DEF Joins
    <2>5. OutBytes(r, q, o, 0) \o OfBlock(q, p0, a, k) = OutBytes(r, q, o, 0 + k)
        BY <2>4, OutJoins
    <2>6. OutBytes(r, q, o, 0) \o OfBlock(q, p0, a, k) = OfBlock(q, p0, a, k)
        <3>1. PICK b, c : b = OutBytes(r, q, o, 0) /\ c = OfBlock(q, p0, a, k)
            OBVIOUS
        <3>2. b = [i \in 1 .. 0 |-> b[i]] /\ c = [i \in 1 .. k |-> c[i]] /\ k \in Nat /\ 0 \in Nat
            BY <3>1 DEF OutBytes, OfBlock
        <3>3. b \o c = [i \in 1 .. 0 + k |-> IF i <= 0 THEN b[i] ELSE c[i - 0]]
            BY ONLY <3>2, JoinIs
        <3>4. 0 + k = k /\ \A i \in 1 .. k : (IF i <= 0 THEN b[i] ELSE c[i - 0]) = c[i]
            OBVIOUS
        <3>5. b \o c = [i \in 1 .. k |-> c[i]]
            BY <3>3, <3>4
        <3> QED
            BY <3>1, <3>2, <3>5
    <2>7. OfBlock(q, p0, a, k) = [i \in 1 .. k |-> <<q + p, r - left + i - 1>>]
        <3>1. q + p0 + 1 = q + p
            BY <2>1
        <3> QED
            BY <2>3, <3>1 DEF OfBlock
    <2> QED
        BY <2>5, <2>6, <2>7, 0 + k = k
<1> QED
    BY <1>2, <1>3

\* A call that squeezes gives the next bytes of the output.
Gives(r, q, n, p, left, o, k) ==
    \E p2, left2 :
        /\ Taken(r, p2, left2, o + k)
        /\ keccak_inc_squeeze(Squeezed(r, q, n, p, left), r, k).state = Squeezed(r, q, n, p2, left2)
        /\ keccak_inc_squeeze(Squeezed(r, q, n, p, left), r, k).out = OutBytes(r, q, o, k)

LEMMA SqueezeIs ==
    ASSUME NEW r \in Nat \ {0}, NEW q \in Nat, NEW n \in Nat, NEW p, NEW left, NEW o, Taken(r, p, left, o),
           NEW k \in Nat
    PROVE  Gives(r, q, n, p, left, o, k)
<1>1. p \in Nat /\ left \in 0 .. r - 1 /\ o \in Nat /\ o + left = Whole(r, p)
    BY DEF Taken
<1>2. PICK k0 \in 0 .. left, w \in Nat : k0 = Least2(k, left) /\ w = k - k0 /\ k = k0 + w /\ (w # 0 => k0 = left)
    <2>1. Least2(k, left) \in 0 .. left /\ k - Least2(k, left) \in Nat
        BY <1>1 DEF Least2
    <2>2. k - Least2(k, left) # 0 => Least2(k, left) = left
        BY <1>1 DEF Least2
    <2> QED
        BY <2>1, <2>2
<1>3. PICK turns \in Nat, e \in 0 .. r - 1, z \in Nat :
          turns = (w + r - 1) \div r /\ z = Whole(r, turns) /\ w + r - 1 = z + e
    <2>1. PICK v \in Nat : v = w + r - 1
        BY w + r - 1 \in Nat
    <2>2. v \div r \in Nat /\ v % r \in 0 .. r - 1 /\ v = Whole(r, v \div r) + (v % r) /\ Whole(r, v \div r) \in Nat
        BY WholeDivision, WholeIs
    <2> QED
        BY <2>1, <2>2
<1>4. z < w + r /\ w <= z /\ (turns # 0 => w # 0)
    <2>1. z < w + r /\ w <= z
        <3>1. r \in Nat \ {0} /\ w \in Nat /\ z \in Nat /\ e \in 0 .. r - 1 /\ w + r - 1 = z + e
            BY <1>3
        <3> QED
            BY ONLY <3>1
    <2>2. turns # 0 => w # 0
        <3>1. turns # 0 => r <= z
            BY <1>3, WholeMonotone, WholeIs, 1 \in Nat, 0 \in Nat, 0 + 1 = 1
        <3> QED
            BY <1>3, <3>1
    <2> QED
        BY <2>1, <2>2
<1>5. PICK l0 \in 0 .. r - 1 : l0 = left - k0
    BY <1>1
<1>6. Wanted(r, q, n, p, l0, o, k0, w, turns)
    <2>1. ASSUME turns # 0 PROVE l0 = 0 /\ o + k0 = Whole(r, p)
        <3>1. k0 = left
            BY <1>2, <1>4, <2>1
        <3> QED
            BY <1>1, <1>5, <3>1
    <2>2. Whole(r, turns) < w + r
        BY <1>3, <1>4
    <2> QED
        BY <1>1, <2>1, <2>2 DEF Wanted
<1>7. PICK s : s = Squeezed(r, q, n, p, left)
    OBVIOUS
<1>8. s.n = left /\ Len(s.blocks) = q + p
    BY <1>1, <1>7, GivensLen
<1>9. WithCount(s, left - k0) = Squeezed(r, q, n, p, l0)
    BY <1>5, <1>7, SetCount DEF Squeezed
<1>10. PICK x : x = SqueezeState(WithCount(s, left - k0), [i \in 1 .. k0 |-> <<Len(s.blocks), r - left + i - 1>>], k - k0)
    OBVIOUS
<1>11. x = TurnedTo(r, q, n, p, l0, o, k0, w, 0)
    <2>1. [i \in 1 .. k0 |-> <<q + p, r - left + i - 1>>] = OutBytes(r, q, o, k0)
        BY AtHand
    <2>2. x = SqueezeState(Squeezed(r, q, n, p, l0), OutBytes(r, q, o, k0), w)
        BY <1>2, <1>8, <1>9, <1>10, <2>1
    <2>3. Whole(r, 0) = 0 /\ Least2(w, 0) = 0 /\ p + 0 = p /\ k0 + 0 = k0 /\ w - 0 = w
        BY <1>1, WholeIs DEF Least2
    <2> QED
        BY <2>2, <2>3 DEF TurnedTo
<1> DEFINE f == CHOOSE g : SqueezeRun(r, x, turns, g)
<1>12. SqueezeRun(r, x, turns, f)
    BY <1>6, <1>11, SqueezeRunIs
<1>13. f[turns] = TurnedTo(r, q, n, p, l0, o, k0, w, turns)
    <2> HIDE DEF f
    <2> QED
        BY <1>6, <1>11, <1>12, SqueezeRunIs
<1>14. keccak_inc_squeeze(s, r, k) = f[turns]
    <2> DEFINE kk == IF k < s.n THEN k ELSE s.n
               tt == (k - kk + r - 1) \div r
               xx == SqueezeState(WithCount(s, s.n - kk), [i \in 1 .. kk |-> <<Len(s.blocks), r - s.n + i - 1>>], k - kk)
    <2>1. keccak_inc_squeeze(s, r, k) = (CHOOSE g : SqueezeRun(r, xx, tt, g))[tt]
        BY Zenon DEF keccak_inc_squeeze, SqueezeRun, SqueezeState, WithCount
    <2>2. kk = k0
        BY <1>2, <1>8 DEF Least2
    <2>3. tt = turns /\ xx = x
        BY <1>2, <1>3, <1>8, <1>10, <2>2, Zenon
    <2> HIDE DEF kk, tt, xx
    <2> QED
        BY <2>1, <2>3
<1> HIDE DEF f
<1>15. PICK l2 \in 0 .. r - 1 : l2 = IF turns = 0 THEN l0 ELSE z - w
    <2>1. z - w \in 0 .. r - 1
        BY <1>4
    <2> QED
        BY <2>1
<1>16. Taken(r, p + turns, l2, o + k)
    <2>1. PICK y \in Nat : y = Whole(r, p) /\ Whole(r, p + turns) = y + z
        <3>1. Whole(r, p) \in Nat /\ Whole(r, p + turns) = Whole(r, p) + Whole(r, turns)
            BY <1>1, WholeSum, WholeIs
        <3> QED
            BY <1>3, <3>1
    <2>2. (o + k) + l2 = y + z
        <3>1. o + left = y
            BY <1>1, <2>1
        <3>2. CASE turns = 0
            <4>1. z = 0 /\ w = 0
                <5>1. r \in Nat /\ turns \in Nat /\ z = Whole(r, turns) /\ w \in Nat /\ w <= z
                    BY <1>3, <1>4
                <5>2. Whole(r, 0) = 0
                    BY ONLY <5>1, WholeIs
                <5> QED
                    BY ONLY <5>1, <5>2, <3>2
            <4>2. k0 = k
                BY <1>2, <4>1
            <4>3. l2 = left - k
                BY <1>5, <1>15, <3>2, <4>2
            <4> QED
                BY <1>1, <3>1, <4>1, <4>3
        <3>3. CASE turns # 0
            <4>1. k0 = left /\ l2 = z - w
                BY <1>2, <1>4, <1>15, <3>3
            <4> QED
                BY <1>1, <1>2, <1>4, <3>1, <4>1
        <3> QED
            BY <3>2, <3>3
    <2> QED
        BY <1>1, <2>1, <2>2 DEF Taken
<1>17. f[turns] = SqueezeState(Squeezed(r, q, n, p + turns, l2), OutBytes(r, q, o, k), 0)
    <2>1. Least2(w, Whole(r, turns)) = w
        BY <1>3, <1>4 DEF Least2
    <2>2. k0 + w = k /\ w - w = 0
        BY <1>2
    <2> QED
        BY <1>3, <1>13, <1>15, <2>1, <2>2 DEF TurnedTo
<1>18. f[turns].state = Squeezed(r, q, n, p + turns, l2) /\ f[turns].out = OutBytes(r, q, o, k)
    BY <1>17 DEF SqueezeState
<1> QED
    BY <1>7, <1>14, <1>16, <1>18 DEF Gives

----------------------------------------------------------------------------
(***************************************************************************)
(* What the standard gives the permutation.                                *)
(***************************************************************************)
Listed(b, n) == n \in Nat /\ b = [i \in 1 .. n |-> b[i]]
Cut(b, i, j) == [k \in 1 .. j - i + 1 |-> b[i + k - 1]]
Within(i, j, n) == i \in 1 .. n + 1 /\ j \in i - 1 .. n

LEMMA CutIs ==
    ASSUME NEW b, NEW n, Listed(b, n), NEW i, NEW j, Within(i, j, n)
    PROVE  SubSeq(b, i, j) = Cut(b, i, j)
    BY PartIs DEF Listed, Cut, Within

LEMMA ListedIs ==
    ASSUME NEW b, NEW n, Listed(b, n)
    PROVE  Len(b) = n /\ DOMAIN b = 1 .. n
    BY ListIs DEF Listed

Marked(b, n, at, x) == [i \in 1 .. n |-> IF i = at + 1 THEN SymDiff(b[i], x) ELSE b[i]]

\* One byte XORed into a place.
LEMMA XorOne ==
    ASSUME NEW b, NEW n, Listed(b, n), NEW at \in Int, NEW x
    PROVE  XorAt(b, at, <<x>>) = Marked(b, n, at, x) /\ Listed(Marked(b, n, at, x), n)
<1>1. n \in Nat /\ DOMAIN b = 1 .. n
    BY DEF Listed
<1>2. DOMAIN <<x>> = {1} /\ <<x>>[1] = x
    OBVIOUS
<1>3. \A i \in 1 .. n : i - at \in {1} <=> i = at + 1
    OBVIOUS
<1>4. PICK m : m = <<x>>
    OBVIOUS
<1>5. XorAt(b, at, m) = [i \in 1 .. n |-> IF i - at \in {1} THEN SymDiff(b[i], m[i - at]) ELSE b[i]]
    BY <1>1, <1>2, <1>4 DEF XorAt
<1>6. \A i \in 1 .. n : (IF i - at \in {1} THEN SymDiff(b[i], m[i - at]) ELSE b[i])
                            = IF i = at + 1 THEN SymDiff(b[i], x) ELSE b[i]
    BY <1>2, <1>3, <1>4
<1> QED
    BY <1>1, <1>4, <1>5, <1>6 DEF Marked, Listed

LEMMA PaddedIs ==
    ASSUME NEW r \in Nat \ {0}, NEW q \in Nat, NEW n \in 0 .. r - 1
    PROVE  Padded(r, q, n) = Marked(Marked(Part(r, q, n), r, n, Const(31)), r, r - 1, Const(128))
<1>1. PICK b : b = Part(r, q, n) /\ Listed(b, r)
    BY DEF Part, Listed
<1>2. PICK c, d, y : c = Const(31) /\ d = Const(128) /\ y = Marked(b, r, n, c)
    OBVIOUS
<1>3. XorAt(b, n, <<c>>) = y /\ Listed(y, r)
    BY <1>1, <1>2, XorOne
<1>4. XorAt(y, r - 1, <<d>>) = Marked(y, r, r - 1, d)
    BY <1>3, XorOne, r - 1 \in Int
<1> QED
    BY <1>1, <1>2, <1>3, <1>4 DEF Padded

\* Block h of a sequence, from 0.
At(x, r, h) == [i \in 1 .. r |-> x[Whole(r, h) + i]]

\* The blocks of a sequence whose length they make up.
LEMMA BlocksAre ==
    ASSUME NEW r \in Nat \ {0}, NEW k \in Nat, NEW n, n = Whole(r, k), NEW x, Listed(x, n)
    PROVE  /\ Listed(BlocksOf(x, r), k)
           /\ \A h \in 0 .. k - 1 : BlocksOf(x, r)[h + 1] = At(x, r, h)
<1>1. Len(x) = n /\ n \in Nat
    BY ListedIs DEF Listed
<1>2. n \div r = k
    <2>1. Splits(r, n, k, 0)
        BY WholeIs DEF Splits
    <2> QED
        BY <2>1, WholeQuotient
<1>3. BlocksOf(x, r) = [h \in 1 .. k |-> SubSeq(x, (h - 1) * r + 1, h * r)]
    BY <1>1, <1>2 DEF BlocksOf
<1>4. ASSUME NEW h \in 0 .. k - 1
      PROVE  SubSeq(x, ((h + 1) - 1) * r + 1, (h + 1) * r) = At(x, r, h)
    <2>1. PICK z \in Nat : z = Whole(r, h) /\ z + r = Whole(r, h + 1) /\ z + r <= n
        <3>1. h \in Nat /\ h + 1 \in Nat /\ h + 1 <= k
            OBVIOUS
        <3>2. Whole(r, h) \in Nat /\ Whole(r, h + 1) = Whole(r, h) + r /\ Whole(r, h + 1) <= Whole(r, k)
            BY <3>1, WholeIs, WholeMonotone
        <3> QED
            BY <3>2
    <2>2. ((h + 1) - 1) * r + 1 = z + 1 /\ (h + 1) * r = z + r
        BY <2>1, (h + 1) - 1 = h DEF Whole
    <2>3. PICK i0, j0 : i0 = z + 1 /\ j0 = z + r /\ Within(i0, j0, n)
        <3>1. z + 1 \in 1 .. n + 1 /\ z + r \in (z + 1) - 1 .. n
            BY <1>1, <2>1
        <3> QED
            BY <3>1 DEF Within
    <2>4. SubSeq(x, i0, j0) = Cut(x, i0, j0)
        BY <2>3, CutIs
    <2>5. j0 - i0 + 1 = r /\ \A i \in 1 .. r : i0 + i - 1 = z + i
        BY <2>3
    <2>6. SubSeq(x, z + 1, z + r) = [i \in 1 .. r |-> x[z + i]]
        BY <2>3, <2>4, <2>5 DEF Cut
    <2> QED
        BY <2>1, <2>2, <2>6 DEF At
<1>5. ASSUME NEW h \in 0 .. k - 1 PROVE BlocksOf(x, r)[h + 1] = At(x, r, h)
    <2>1. h + 1 \in 1 .. k
        OBVIOUS
    <2>2. BlocksOf(x, r)[h + 1] = SubSeq(x, ((h + 1) - 1) * r + 1, (h + 1) * r)
        BY <1>3, <2>1, Zenon
    <2> QED
        BY <1>4, <2>2
<1>6. Listed(BlocksOf(x, r), k)
    BY <1>3 DEF Listed
<1> QED
    BY <1>5, <1>6

\* A message at the start of a block of zeros.
Laid(a, f, n) == [i \in 1 .. n |-> IF i <= f THEN {<<"m", a + i>>} ELSE {}]

LEMMA PutMessage ==
    ASSUME NEW a \in Nat, NEW f \in Nat, NEW n \in Nat, f <= n, NEW b \in Nat, b = a + f
    PROVE  PutAt(Zeros(n), 0, Message(a, b)) = Laid(a, f, n) /\ Listed(Laid(a, f, n), n) /\ Len(Message(a, b)) = f
<1>1. a <= b /\ b - a = f
    OBVIOUS
<1>2. PICK m : m = Message(a, b)
    OBVIOUS
<1>3. DOMAIN m = 1 .. f /\ Len(m) = f /\ \A i \in 1 .. f : m[i] = {<<"m", a + i>>}
    BY <1>1, <1>2, MessageIs
<1>4. PICK z : z = Zeros(n)
    OBVIOUS
<1>5. DOMAIN z = 1 .. n /\ \A i \in 1 .. n : z[i] = {}
    BY <1>4 DEF Zeros
<1>6. \A i \in 1 .. n : (IF i - 0 \in DOMAIN m THEN m[i - 0] ELSE z[i])
                            = IF i <= f THEN {<<"m", a + i>>} ELSE {}
    <2> TAKE i \in 1 .. n
    <2>1. i - 0 = i /\ (i \in 1 .. f <=> i <= f)
        OBVIOUS
    <2> QED
        BY <1>3, <1>5, <2>1
<1>7. PutAt(z, 0, m) = Laid(a, f, n)
    BY <1>5, <1>6 DEF PutAt, Laid
<1>8. Listed(Laid(a, f, n), n)
    BY DEF Listed, Laid
<1> QED
    BY <1>2, <1>3, <1>4, <1>7, <1>8

\* The blocks of the standard are the full ones and the padded one.
LEMMA StandardSpongeIs ==
    ASSUME NEW r \in Nat \ {0}, NEW q \in Nat, NEW n \in 0 .. r - 1, NEW f, f = Whole(r, q) + n
    PROVE  /\ Listed(StandardSponge(Message(0, f), r, 31), q + 1)
           /\ \A k \in 1 .. q + 1 : StandardSponge(Message(0, f), r, 31)[k] = Given(r, q, n, k)
<1>1. PICK base \in Nat : base = Whole(r, q) /\ Whole(r, q + 1) = base + r
    BY WholeIs
<1>2. PICK room \in Nat : room = base + r
    BY <1>1
<1>3. f \in Nat /\ f = base + n /\ f <= room
    BY <1>1, <1>2
<1>4. f \div r = q
    <2>1. Splits(r, f, q, n)
        BY DEF Splits
    <2> QED
        BY <2>1, WholeQuotient
<1>5. PICK m : m = Message(0, f)
    OBVIOUS
<1>6. Len(m) = f /\ PutAt(Zeros(room), 0, m) = Laid(0, f, room) /\ Listed(Laid(0, f, room), room)
    <2>1. PICK z \in Nat : z = 0 /\ f = z + f
        BY <1>3
    <2>2. /\ PutAt(Zeros(room), 0, Message(z, f)) = Laid(z, f, room) /\ Listed(Laid(z, f, room), room)
          /\ Len(Message(z, f)) = f
        BY <1>3, <2>1, PutMessage
    <2> QED
        BY <1>5, <2>1, <2>2
<1>7. ((Len(m) \div r) + 1) * r = room
    BY <1>1, <1>2, <1>4, <1>6 DEF Whole
<1>8. PICK u : u = Laid(0, f, room)
    OBVIOUS
<1>9. \A i \in 1 .. room : u[i] = IF i <= f THEN {<<"m", i>>} ELSE {}
    <2> TAKE i \in 1 .. room
    <2>1. 0 + i = i
        OBVIOUS
    <2> QED
        BY <1>8, <2>1 DEF Laid
<1>10. PICK c, d : c = Const(31) /\ d = Const(128)
    OBVIOUS
<1>11. PICK v : v = Marked(u, room, f, c) /\ Listed(v, room) /\ XorAt(u, f, <<c>>) = v
    BY <1>3, <1>6, <1>8, XorOne
<1>12. PICK w : w = Marked(v, room, room - 1, d) /\ Listed(w, room) /\ XorAt(v, room - 1, <<d>>) = w
    BY <1>11, XorOne, room - 1 \in Int
<1>13. StandardSponge(m, r, 31) = BlocksOf(w, r)
    <2>1. StandardSponge(m, r, 31)
              = BlocksOf(XorAt(XorAt(PutAt(Zeros(((Len(m) \div r) + 1) * r), 0, m), Len(m), <<Const(31)>>),
                         ((Len(m) \div r) + 1) * r - 1, <<Const(128)>>), r)
        BY Zenon DEF StandardSponge
    <2> QED
        BY <1>6, <1>7, <1>8, <1>10, <1>11, <1>12, <2>1
<1>14. /\ Listed(BlocksOf(w, r), q + 1)
       /\ \A h \in 0 .. (q + 1) - 1 : BlocksOf(w, r)[h + 1] = At(w, r, h)
    <2>1. room = Whole(r, q + 1) /\ q + 1 \in Nat
        BY <1>1, <1>2
    <2> QED
        BY <1>12, <2>1, BlocksAre
<1>15. ASSUME NEW h \in 0 .. q PROVE BlocksOf(w, r)[h + 1] = Given(r, q, n, h + 1)
    <2>1. BlocksOf(w, r)[h + 1] = At(w, r, h)
        BY <1>14
    <2>2. CASE h < q
        <3>1. PICK z \in Nat : z = Whole(r, h) /\ z + r <= base
            <4>1. h \in Nat /\ h + 1 \in Nat /\ h + 1 <= q
                BY <2>2
            <4>2. Whole(r, h) \in Nat /\ Whole(r, h + 1) = Whole(r, h) + r /\ Whole(r, h + 1) <= Whole(r, q)
                BY <4>1, WholeIs, WholeMonotone
            <4> QED
                BY <1>1, <4>2
        <3>2. ASSUME NEW i \in 1 .. r PROVE w[z + i] = {<<"m", z + i>>}
            <4>1. z + i \in 1 .. room /\ z + i <= f /\ z + i # f + 1 /\ z + i # (room - 1) + 1
                BY <1>2, <1>3, <3>1
            <4>2. u[z + i] = {<<"m", z + i>>}
                BY <1>9, <4>1
            <4>3. v[z + i] = u[z + i]
                BY <1>11, <4>1 DEF Marked
            <4>4. w[z + i] = v[z + i]
                BY <1>12, <4>1 DEF Marked
            <4> QED
                BY <4>2, <4>3, <4>4
        <3>3. Given(r, q, n, h + 1) = Message(z, z + r)
            BY <2>2, <3>1, (h + 1) - 1 = h, WholeIs DEF Given, Full, Whole
        <3>4. (z + r) - z = r
            OBVIOUS
        <3> QED
            BY <2>1, <3>1, <3>2, <3>3, <3>4 DEF Message, At
    <2>3. CASE h = q
        <3>1. Given(r, q, n, h + 1) = Marked(Marked(Part(r, q, n), r, n, c), r, r - 1, d)
            BY <1>10, <2>3, PaddedIs DEF Given
        <3>2. PICK b, y : b = Part(r, q, n) /\ y = Marked(b, r, n, c)
            OBVIOUS
        <3>3. ASSUME NEW i \in 1 .. r PROVE w[base + i] = IF i = (r - 1) + 1 THEN SymDiff(y[i], d) ELSE y[i]
            <4>1. /\ base + i \in 1 .. room /\ (base + i <= f <=> i <= n) /\ (base + i = f + 1 <=> i = n + 1)
                  /\ (base + i = (room - 1) + 1 <=> i = (r - 1) + 1)
                BY <1>2, <1>3
            <4>2. u[base + i] = b[i]
                BY <1>1, <1>9, <3>2, <4>1 DEF Part, Whole
            <4>3. v[base + i] = y[i]
                BY <1>11, <3>2, <4>1, <4>2 DEF Marked
            <4> QED
                BY <1>12, <4>1, <4>3 DEF Marked
        <3>4. Marked(y, r, r - 1, d) = [i \in 1 .. r |-> w[base + i]]
            BY <3>3 DEF Marked
        <3> QED
            BY <1>1, <2>1, <2>3, <3>1, <3>2, <3>4 DEF At
    <2> QED
        BY <2>2, <2>3
<1>16. \A k \in 1 .. q + 1 : BlocksOf(w, r)[k] = Given(r, q, n, k)
    <2> TAKE k \in 1 .. q + 1
    <2>1. PICK h \in 0 .. q : h + 1 = k
        <3>1. k - 1 \in 0 .. q /\ (k - 1) + 1 = k
            OBVIOUS
        <3> QED
            BY <3>1
    <2> QED
        BY <1>15, <2>1
<1> QED
    BY <1>5, <1>13, <1>14, <1>16

----------------------------------------------------------------------------
(***************************************************************************)
(* A message hashed at one go.                                             *)
(***************************************************************************)
Left(r, t, to) == [s |-> Fed(r, t, 0), m |-> Message(Whole(r, t), to)]

\* A turn of the loop takes a whole block from the message.
LEMMA AbsorbBlockIs ==
    ASSUME NEW r \in Nat, NEW t \in Nat, NEW to \in Nat, Whole(r, t) + r <= to
    PROVE  AbsorbBlock(Left(r, t, to), r) = Left(r, t + 1, to)
<1>1. PICK base \in Nat : base = Whole(r, t) /\ Whole(r, t + 1) = base + r /\ base = t * r
    BY WholeIs DEF Whole
<1>2. Take(Message(base, to), r) = Message(base, base + r) /\ Drop(Message(base, to), r) = Message(base + r, to)
    <2>1. base <= to /\ r \in 0 .. to - base
        BY <1>1
    <2> QED
        BY <2>1, TakeMessage
<1>3. XorAt(Part(r, t, 0), 0, Message(base, base + r)) = Part(r, t, r)
    <2>1. PICK z \in 0 .. r : z = 0 /\ r \in 0 .. r - z /\ base + z = base /\ base + z + r = base + r /\ z + r = r
        OBVIOUS
    <2>2. XorAt(Part(r, t, z), z, Message(t * r + z, t * r + z + r)) = Part(r, t, z + r)
        BY <2>1, PartGrows
    <2> QED
        BY <1>1, <2>1, <2>2
<1>4. PICK b, c, s, m : b = Fulls(r, t) /\ c = Part(r, t, 0) /\ s = Sponge(b, c, 0) /\ m = Message(base, to)
    OBVIOUS
<1>5. PICK x : x = [s |-> s, m |-> m]
    OBVIOUS
<1>6. x.s = s /\ x.m = m /\ s.cur = c
    BY <1>4, <1>5, SpongeIs
<1>7. AbsorbBlock(x, r) = [s |-> Permuted(WithCur(s, XorAt(s.cur, 0, Take(m, r)))), m |-> Drop(m, r)]
    BY <1>6, Zenon DEF AbsorbBlock, WithCur
<1>8. WithCur(s, Part(r, t, r)) = Sponge(b, Part(r, t, r), 0)
    BY <1>4, SetCur
<1>9. Permuted(Sponge(b, Part(r, t, r), 0)) = Fed(r, t + 1, 0)
    BY <1>4, FullPermuted
<1>10. AbsorbBlock(x, r) = [s |-> Fed(r, t + 1, 0), m |-> Message(base + r, to)]
    BY <1>2, <1>3, <1>4, <1>6, <1>7, <1>8, <1>9
<1> QED
    BY <1>1, <1>4, <1>5, <1>10 DEF Left, Fed

AbsorbRun(r, m, turns, f) ==
    f = [t \in 0 .. turns |-> IF t = 0 THEN [s |-> keccak_inc_init(r), m |-> m] ELSE AbsorbBlock(f[t - 1], r)]
Whence(r, q, n, to) == r \in Nat \ {0} /\ q \in Nat /\ n \in 0 .. r - 1 /\ to \in Nat /\ to = Whole(r, q) + n

LEMMA AbsorbRunIs ==
    ASSUME NEW r, NEW q, NEW n, NEW to, Whence(r, q, n, to), NEW m, m = Message(0, to)
    PROVE  /\ \E f : AbsorbRun(r, m, q, f)
           /\ \A f : AbsorbRun(r, m, q, f) => f[q] = Left(r, q, to)
<1>0. r \in Nat \ {0} /\ q \in Nat /\ n \in 0 .. r - 1 /\ to \in Nat /\ to = Whole(r, q) + n
    BY DEF Whence
<1> DEFINE T(t) == Left(r, t, to)
           x == [s |-> keccak_inc_init(r), m |-> m]
<1>1. ASSUME NEW t \in 1 .. q PROVE AbsorbBlock(T(t - 1), r) = T(t)
    <2>1. PICK s \in Nat : s = t - 1 /\ s + 1 = t /\ t \in Nat /\ t <= q
        <3>1. t - 1 \in Nat /\ (t - 1) + 1 = t /\ t \in Nat /\ t <= q
            BY <1>0
        <3> QED
            BY <3>1
    <2>2. Whole(r, s) + r <= to
        <3>1. /\ Whole(r, s) \in Nat /\ Whole(r, t) = Whole(r, s) + r /\ Whole(r, t) <= Whole(r, q)
              /\ Whole(r, q) \in Nat
            BY <1>0, <2>1, WholeIs, WholeMonotone
        <3> QED
            BY <1>0, <3>1
    <2> QED
        BY <1>0, <2>1, <2>2, AbsorbBlockIs
<1>2. T(0) = x
    <2>1. keccak_inc_init(r) = Fed(r, 0, 0)
        <3>1. Fulls(r, 0) = <<>>
            BY DEF Fulls
        <3>2. Part(r, 0, 0) = Zeros(r)
            <4>1. \A i \in 1 .. r : ~(i <= 0)
                BY <1>0
            <4> QED
                BY <4>1 DEF Part, Zeros
        <3> QED
            BY <3>1, <3>2 DEF keccak_inc_init, Fed, Sponge
    <2> QED
        BY <1>0, <2>1, WholeIs DEF Left
<1> HIDE DEF T
<1> DEFINE g == [t \in 0 .. q |-> T(t)]
<1>4. AbsorbRun(r, m, q, g)
    <2>1. \A t \in 0 .. q : T(t) = IF t = 0 THEN x ELSE AbsorbBlock(g[t - 1], r)
        BY <1>0, <1>1, <1>2
    <2>2. g = [t \in 0 .. q |-> IF t = 0 THEN x ELSE AbsorbBlock(g[t - 1], r)]
        BY <2>1
    <2> QED
        BY <2>2 DEF AbsorbRun
<1>5. ASSUME NEW f, AbsorbRun(r, m, q, f) PROVE f[q] = T(q)
    <2>1. f[0] = g[0]
        BY <1>0, <1>2, <1>5 DEF AbsorbRun
    <2>2. ASSUME NEW t \in 1 .. q, f[t - 1] = g[t - 1] PROVE f[t] = g[t]
        <3>1. f[t] = AbsorbBlock(f[t - 1], r)
            BY <1>0, <1>5 DEF AbsorbRun
        <3>2. g[t - 1] = T(t - 1) /\ g[t] = T(t)
            BY <1>0
        <3> QED
            BY <1>1, <2>2, <3>1, <3>2
    <2>3. g[q] = T(q)
        BY <1>0
    <2> HIDE DEF g
    <2>4. \A t \in 0 .. q : f[t] = g[t]
        BY <1>0, <2>1, <2>2, SameRun
    <2> QED
        BY <1>0, <2>3, <2>4
<1> HIDE DEF g, x
<1> QED
    BY <1>4, <1>5 DEF T

\* One byte written in a place.
LEMMA PutOne ==
    ASSUME NEW b, NEW n, Listed(b, n), NEW at \in Nat, at < n, b[at + 1] = {}, NEW x
    PROVE  PutAt(b, at, <<x>>) = Marked(b, n, at, x)
<1>1. n \in Nat /\ DOMAIN b = 1 .. n
    BY DEF Listed
<1>2. PICK m : m = <<x>>
    OBVIOUS
<1>3. DOMAIN m = {1} /\ m[1] = x
    BY <1>2
<1>4. \A i \in 1 .. n : (IF i - at \in {1} THEN m[i - at] ELSE b[i])
                            = IF i = at + 1 THEN SymDiff(b[i], x) ELSE b[i]
    <2> TAKE i \in 1 .. n
    <2>1. CASE i = at + 1
        BY <1>3, <2>1, XorNone, i - at = 1
    <2>2. CASE i # at + 1
        <3>1. i - at \notin {1}
            BY <1>1, <2>2
        <3> QED
            BY <2>2, <3>1
    <2> QED
        BY <2>1, <2>2
<1>5. PutAt(b, at, m) = [i \in 1 .. n |-> IF i - at \in {1} THEN m[i - at] ELSE b[i]]
    BY <1>1, <1>3 DEF PutAt
<1> QED
    BY <1>2, <1>4, <1>5 DEF Marked

\* The last block is built beside the state, which is zero.
LEMMA XorAll ==
    ASSUME NEW n \in Nat, NEW w, Listed(w, n)
    PROVE  XorAt(Zeros(n), 0, w) = w
<1>1. DOMAIN w = 1 .. n /\ w = [i \in 1 .. n |-> w[i]]
    BY ListedIs DEF Listed
<1>2. PICK z : z = Zeros(n)
    OBVIOUS
<1>3. DOMAIN z = 1 .. n /\ \A i \in 1 .. n : z[i] = {}
    BY <1>2 DEF Zeros
<1>4. \A i \in 1 .. n : (IF i - 0 \in DOMAIN w THEN SymDiff(z[i], w[i - 0]) ELSE z[i]) = w[i]
    <2> TAKE i \in 1 .. n
    <2>1. i - 0 = i
        OBVIOUS
    <2> QED
        BY <1>1, <1>3, <2>1, XorNone
<1>5. XorAt(z, 0, w) = [i \in 1 .. n |-> w[i]]
    BY <1>3, <1>4 DEF XorAt
<1> QED
    BY <1>1, <1>2, <1>5

LEMMA LastBlockIs ==
    ASSUME NEW r, NEW q, NEW n, NEW to, Whence(r, q, n, to)
    PROVE  /\ Len(Message(Whole(r, q), to)) = n
           /\ XorAt(PutAt(PutAt(Zeros(r), 0, Message(Whole(r, q), to)), n, <<Const(31)>>), r - 1, <<Const(128)>>)
                  = Padded(r, q, n)
           /\ Listed(Padded(r, q, n), r)
<1>0. r \in Nat \ {0} /\ q \in Nat /\ n \in 0 .. r - 1 /\ to \in Nat /\ to = Whole(r, q) + n
    BY DEF Whence
<1>1. PICK base \in Nat : base = Whole(r, q)
    BY <1>0, WholeIs
<1>2. /\ PutAt(Zeros(r), 0, Message(base, to)) = Laid(base, n, r) /\ Listed(Laid(base, n, r), r)
      /\ Len(Message(base, to)) = n
    <2>1. n \in Nat /\ r \in Nat /\ n <= r /\ to = base + n
        BY <1>0, <1>1
    <2> QED
        BY <1>0, <2>1, PutMessage
<1>3. Laid(base, n, r) = Part(r, q, n)
    BY <1>1 DEF Laid, Part, Whole
<1>4. PICK c, d, b : c = Const(31) /\ d = Const(128) /\ b = Part(r, q, n)
    OBVIOUS
<1>5. b[n + 1] = {} /\ n \in Nat /\ n < r
    BY <1>0, <1>4 DEF Part
<1>6. PutAt(b, n, <<c>>) = Marked(b, r, n, c)
    BY <1>2, <1>3, <1>4, <1>5, PutOne
<1>7. PICK y : y = Marked(b, r, n, c)
    OBVIOUS
<1>8. Listed(y, r)
    BY <1>0, <1>7 DEF Marked, Listed
<1>9. XorAt(y, r - 1, <<d>>) = Marked(y, r, r - 1, d) /\ Listed(Marked(y, r, r - 1, d), r)
    BY <1>0, <1>8, XorOne, r - 1 \in Int
<1>10. Padded(r, q, n) = Marked(y, r, r - 1, d)
    BY <1>0, <1>4, <1>7, PaddedIs
<1> QED
    BY <1>1, <1>2, <1>3, <1>4, <1>6, <1>7, <1>9, <1>10

\* All of a message at one go gives what a finalized one has.
LEMMA AbsorbedAtOnce ==
    ASSUME NEW r, NEW q, NEW n, NEW to, Whence(r, q, n, to)
    PROVE  keccak_absorb(Message(0, to), r, 31) = Squeezed(r, q, n, 0, 0)
<1>0. r \in Nat \ {0} /\ q \in Nat /\ n \in 0 .. r - 1 /\ to \in Nat /\ to = Whole(r, q) + n
    BY DEF Whence
<1>1. PICK m : m = Message(0, to)
    OBVIOUS
<1>2. Len(m) = to
    <2>1. PICK z \in Nat : z = 0 /\ z <= to /\ to - z = to
        BY <1>0
    <2>2. Len(Message(z, to)) = to - z
        BY <1>0, <2>1, MessageIs
    <2> QED
        BY <1>1, <2>1, <2>2
<1>3. to \div r = q
    <2>1. Splits(r, to, q, n)
        BY <1>0 DEF Splits
    <2> QED
        BY <2>1, WholeQuotient
<1> DEFINE f == CHOOSE g : AbsorbRun(r, m, q, g)
<1>4. AbsorbRun(r, m, q, f)
    BY <1>1, AbsorbRunIs
<1>5. f[q] = Left(r, q, to)
    <2> HIDE DEF f
    <2> QED
        BY <1>1, <1>4, AbsorbRunIs
<1>6. PICK x : x = f[q]
    OBVIOUS
<1>7. PICK b, c : b = Fulls(r, q) /\ c = Part(r, q, 0)
    OBVIOUS
<1>8. x.s = Sponge(b, c, 0) /\ x.m = Message(Whole(r, q), to) /\ x.s.cur = c
    <2>1. x.s = Sponge(b, c, 0) /\ x.m = Message(Whole(r, q), to)
        BY <1>5, <1>6, <1>7 DEF Left, Fed
    <2> QED
        BY <2>1, SpongeIs
<1>9. keccak_absorb(m, r, 31)
          = WithCur(x.s, XorAt(x.s.cur, 0, XorAt(PutAt(PutAt(Zeros(r), 0, x.m), Len(x.m), <<Const(31)>>), r - 1, <<Const(128)>>)))
    <2>1. keccak_absorb(m, r, 31)
              = LET fill == CHOOSE fill : fill = [t \in 0 .. Len(m) \div r |->
                                IF t = 0 THEN [s |-> keccak_inc_init(r), m |-> m] ELSE AbsorbBlock(fill[t - 1], r)]
                    y == fill[Len(m) \div r]
                    last == PutAt(PutAt(Zeros(r), 0, y.m), Len(y.m), <<Const(31)>>)
                IN  [y.s EXCEPT !.cur = XorAt(y.s.cur, 0, XorAt(last, r - 1, <<Const(128)>>))]
        BY Zenon DEF keccak_absorb
    <2> QED
        BY <1>2, <1>3, <1>6, <2>1, Zenon DEF AbsorbRun, WithCur
<1> HIDE DEF f
<1>10. /\ Len(x.m) = n /\ Listed(Padded(r, q, n), r)
       /\ XorAt(PutAt(PutAt(Zeros(r), 0, x.m), Len(x.m), <<Const(31)>>), r - 1, <<Const(128)>>) = Padded(r, q, n)
    BY <1>8, LastBlockIs
<1>11. c = Zeros(r)
    BY <1>0, <1>7 DEF Part, Zeros
<1>12. XorAt(c, 0, Padded(r, q, n)) = Padded(r, q, n)
    BY <1>0, <1>10, <1>11, XorAll
<1>13. WithCur(x.s, Padded(r, q, n)) = Sponge(b, Padded(r, q, n), 0)
    BY <1>8, SetCur
<1>14. b = Givens(r, q, n, 0) /\ Given(r, q, n, q + 0 + 1) = Padded(r, q, n)
    BY <1>0, <1>7 DEF Givens, Given, Fulls
<1> QED
    BY <1>1, <1>8, <1>9, <1>10, <1>12, <1>13, <1>14 DEF Squeezed

----------------------------------------------------------------------------
(***************************************************************************)
(* Output in whole blocks, and what is kept of the last.                   *)
(***************************************************************************)
Follows(o, a, b, at, all) == o \in Nat /\ a \in Nat /\ b \in Nat /\ at = o + a /\ all = a + b

LEMMA OutAppends ==
    ASSUME NEW r, NEW q, NEW o, NEW a, NEW b, NEW at, NEW all, Follows(o, a, b, at, all)
    PROVE  OutBytes(r, q, o, a) \o OutBytes(r, q, at, b) = OutBytes(r, q, o, all)
<1>1. PICK x, y : x = OutBytes(r, q, o, a) /\ y = OutBytes(r, q, at, b)
    OBVIOUS
<1>0. o \in Nat /\ a \in Nat /\ b \in Nat /\ at = o + a /\ all = a + b
    BY DEF Follows
<1>2. x = [i \in 1 .. a |-> x[i]] /\ y = [i \in 1 .. b |-> y[i]]
    BY <1>1 DEF OutBytes
<1>3. x \o y = [i \in 1 .. a + b |-> IF i <= a THEN x[i] ELSE y[i - a]]
    BY <1>0, <1>2, JoinIs
<1>4. ASSUME NEW i \in 1 .. a + b PROVE (IF i <= a THEN x[i] ELSE y[i - a]) = Place(r, q, o + i)
    <2>1. CASE i <= a
        BY <1>0, <1>1, <2>1 DEF OutBytes
    <2>2. CASE ~(i <= a)
        <3>1. i - a \in 1 .. b /\ at + (i - a) = o + i
            BY <1>0, <2>2
        <3> QED
            BY <1>1, <2>2, <3>1 DEF OutBytes
    <2> QED
        BY <2>1, <2>2
<1> QED
    BY <1>0, <1>1, <1>3, <1>4 DEF OutBytes

LEMMA OutTakes ==
    ASSUME NEW r, NEW q, NEW o \in Nat, NEW a \in Nat, NEW b \in 0 .. a
    PROVE  Take(OutBytes(r, q, o, a), b) = OutBytes(r, q, o, b)
<1>1. PICK x : x = OutBytes(r, q, o, a)
    OBVIOUS
<1>2. Listed(x, a)
    BY <1>1 DEF OutBytes, Listed
<1>3. PICK one : one = 1 /\ Within(one, b, a)
    BY DEF Within
<1>4. SubSeq(x, one, b) = Cut(x, one, b)
    BY <1>2, <1>3, CutIs
<1>5. b - one + 1 = b /\ \A i \in 1 .. b : x[one + i - 1] = Place(r, q, o + i)
    <2>1. \A i \in 1 .. b : one + i - 1 = i /\ i \in 1 .. a
        BY <1>3
    <2> QED
        BY <1>1, <1>3, <2>1 DEF OutBytes
<1>6. Cut(x, one, b) = OutBytes(r, q, o, b)
    BY <1>5 DEF Cut, OutBytes
<1> QED
    BY <1>1, <1>3, <1>4, <1>6 DEF Take

LEMMA OutNone == \A r, q, o : OutBytes(r, q, o, 0) = <<>>
    BY DEF OutBytes

Turning(st, out) == [state |-> st, out |-> out]
Given4(r, q, n, p) == r \in Nat \ {0} /\ q \in Nat /\ n \in Nat /\ p \in Nat

\* A turn of the loop gives the whole of the next block.
LEMMA WholeBlockIs ==
    ASSUME NEW r, NEW q, NEW n, NEW p, Given4(r, q, n, p), NEW o \in Nat, NEW j \in Nat, o + j = Whole(r, p)
    PROVE  WholeBlock(Turning(Squeezed(r, q, n, p, 0), OutBytes(r, q, o, j)), r)
               = Turning(Squeezed(r, q, n, p + 1, 0), OutBytes(r, q, o, j + r))
<1>0. r \in Nat \ {0} /\ q \in Nat /\ n \in Nat /\ p \in Nat
    BY DEF Given4
<1>2. PICK x, next : x = Turning(Squeezed(r, q, n, p, 0), OutBytes(r, q, o, j)) /\ next = Permuted(x.state)
    OBVIOUS
<1>3. x.state = Squeezed(r, q, n, p, 0) /\ x.out = OutBytes(r, q, o, j)
    BY <1>2 DEF Turning
<1>4. next = Squeezed(r, q, n, p + 1, 0)
    BY <1>0, <1>2, <1>3, PermutedSqueezed
<1>5. Len(next.blocks) = q + p + 1
    <2>1. PICK ph \in Nat : ph = p + 1 /\ q + ph = q + p + 1
        BY <1>0
    <2>2. next = Squeezed(r, q, n, ph, 0)
        BY <1>4, <2>1
    <2>3. Len(next.blocks) = q + ph
        BY <1>0, <2>2, GivensLen
    <2> QED
        BY <2>1, <2>3
<1>7. OutBytes(r, q, o, j) \o [i \in 1 .. r |-> <<q + p + 1, i - 1>>] = OutBytes(r, q, o, j + r)
    <2>1. PICK a, k : a = 0 /\ k = r /\ a \in 0 .. r /\ k \in 0 .. r - a
        BY <1>0
    <2>2. Joins(r, q, o, j, p, a, k)
        <3>1. PICK z \in Nat : z = Whole(r, p)
            BY <1>0, WholeIs
        <3>2. o + j = z + a
            BY <2>1, <3>1
        <3> QED
            BY <1>0, <2>1, <3>1, <3>2 DEF Joins
    <2>3. OutBytes(r, q, o, j) \o OfBlock(q, p, a, k) = OutBytes(r, q, o, j + k)
        BY <2>2, OutJoins
    <2>4. \A i \in 1 .. k : a + i - 1 = i - 1
        BY <2>1
    <2>5. OfBlock(q, p, a, k) = [i \in 1 .. k |-> <<q + p + 1, i - 1>>]
        BY <2>4 DEF OfBlock
    <2> QED
        BY <2>1, <2>3, <2>5
<1>8. WholeBlock(x, r) = [state |-> next, out |-> x.out \o [i \in 1 .. r |-> <<Len(next.blocks), i - 1>>]]
    BY <1>2, Zenon DEF WholeBlock
<1> QED
    BY <1>2, <1>3, <1>4, <1>5, <1>7, <1>8 DEF Turning

WholeRun(s, r, turns, f) ==
    f = [t \in 0 .. turns |-> IF t = 0 THEN [state |-> s, out |-> <<>>] ELSE WholeBlock(f[t - 1], r)]

LEMMA SqueezedWhole ==
    ASSUME NEW r, NEW q, NEW n, NEW p, Given4(r, q, n, p), NEW nb \in Nat
    PROVE  keccak_squeezeblocks(Squeezed(r, q, n, p, 0), r, nb)
               = Turning(Squeezed(r, q, n, p + nb, 0), OutBytes(r, q, Whole(r, p), Whole(r, nb)))
<1>0. r \in Nat \ {0} /\ q \in Nat /\ n \in Nat /\ p \in Nat
    BY DEF Given4
<1>1. PICK s, o, x : s = Squeezed(r, q, n, p, 0) /\ o = Whole(r, p) /\ x = [state |-> s, out |-> <<>>]
    OBVIOUS
<1> DEFINE T(t) == Turning(Squeezed(r, q, n, p + t, 0), OutBytes(r, q, o, Whole(r, t)))
<1>2. ASSUME NEW t \in 1 .. nb PROVE WholeBlock(T(t - 1), r) = T(t)
    <2>1. PICK h \in Nat, ph \in Nat : h = t - 1 /\ h + 1 = t /\ ph = p + h /\ ph + 1 = p + t
        <3>1. t - 1 \in Nat /\ (t - 1) + 1 = t /\ p + (t - 1) \in Nat /\ (p + (t - 1)) + 1 = p + t
            BY <1>0
        <3> QED
            BY <3>1
    <2>2. PICK j \in Nat : j = Whole(r, h) /\ Whole(r, t) = j + r
        <3>1. Whole(r, h) \in Nat /\ Whole(r, h + 1) = Whole(r, h) + r
            BY <1>0, WholeIs
        <3> QED
            BY <2>1, <3>1
    <2>3. o \in Nat /\ o + j = Whole(r, ph)
        BY <1>0, <1>1, <2>1, <2>2, WholeIs, WholeSum
    <2>4. Given4(r, q, n, ph)
        BY <1>0, <2>1 DEF Given4
    <2>5. WholeBlock(Turning(Squeezed(r, q, n, ph, 0), OutBytes(r, q, o, j)), r)
              = Turning(Squeezed(r, q, n, ph + 1, 0), OutBytes(r, q, o, j + r))
        BY <2>3, <2>4, WholeBlockIs
    <2> QED
        BY <2>1, <2>2, <2>5
<1>3. T(0) = x
    <2>1. p + 0 = p /\ Whole(r, 0) = 0
        BY <1>0, WholeIs
    <2> QED
        BY <1>1, <2>1, OutNone DEF Turning
<1>t. T(nb) = Turning(Squeezed(r, q, n, p + nb, 0), OutBytes(r, q, o, Whole(r, nb)))
    OBVIOUS
<1> HIDE DEF T
<1> DEFINE g == [t \in 0 .. nb |-> T(t)]
<1>4. WholeRun(s, r, nb, g)
    <2>1. \A t \in 0 .. nb : T(t) = IF t = 0 THEN x ELSE WholeBlock(g[t - 1], r)
        BY <1>2, <1>3
    <2>2. g = [t \in 0 .. nb |-> IF t = 0 THEN x ELSE WholeBlock(g[t - 1], r)]
        BY <2>1
    <2> QED
        BY <1>1, <2>2 DEF WholeRun
<1>5. ASSUME NEW f, WholeRun(s, r, nb, f) PROVE f[nb] = T(nb)
    <2>1. f[0] = g[0]
        BY <1>1, <1>3, <1>5 DEF WholeRun
    <2>2. ASSUME NEW t \in 1 .. nb, f[t - 1] = g[t - 1] PROVE f[t] = g[t]
        <3>1. f[t] = WholeBlock(f[t - 1], r)
            BY <1>5 DEF WholeRun
        <3>2. g[t - 1] = T(t - 1) /\ g[t] = T(t)
            OBVIOUS
        <3> QED
            BY <1>2, <2>2, <3>1, <3>2
    <2>3. g[nb] = T(nb)
        OBVIOUS
    <2> HIDE DEF g
    <2>4. \A t \in 0 .. nb : f[t] = g[t]
        BY <2>1, <2>2, SameRun
    <2> QED
        BY <2>3, <2>4
<1>6. keccak_squeezeblocks(s, r, nb) = (CHOOSE f : WholeRun(s, r, nb, f))[nb]
    BY Zenon DEF keccak_squeezeblocks, WholeRun
<1> HIDE DEF g
<1>7. WholeRun(s, r, nb, CHOOSE f : WholeRun(s, r, nb, f))
    BY <1>4, Zenon
<1> QED
    BY <1>1, <1>5, <1>6, <1>7, <1>t

\* A message hashed at one go, for k bytes of output.
LEMMA OneShotIs ==
    ASSUME NEW r, NEW q, NEW n, NEW to, Whence(r, q, n, to), NEW k \in Nat
    PROVE  \E p \in Nat :
               /\ OneShot(Message(0, to), r, k).state = Squeezed(r, q, n, p, 0)
               /\ OneShot(Message(0, to), r, k).out = OutBytes(r, q, 0, k)
<1>0. r \in Nat \ {0} /\ q \in Nat /\ n \in Nat
    BY DEF Whence
<1>1. PICK v \in Nat, e \in 0 .. r - 1, z \in Nat :
          v = k \div r /\ e = k % r /\ z = Whole(r, v) /\ k = z + e
    <2>1. k \div r \in Nat /\ k % r \in 0 .. r - 1 /\ k = Whole(r, k \div r) + (k % r)
        BY <1>0, WholeDivision
    <2>2. Whole(r, k \div r) \in Nat
        BY <1>0, <2>1, WholeIs
    <2> QED
        BY <2>1, <2>2
<1>2. PICK m, whole, last :
          /\ m = Message(0, to) /\ whole = keccak_squeezeblocks(keccak_absorb(m, r, 31), r, k \div r)
          /\ last = keccak_squeezeblocks(whole.state, r, 1)
    OBVIOUS
<1>3. OneShot(m, r, k) = IF e = 0 THEN whole ELSE [state |-> last.state, out |-> whole.out \o Take(last.out, e)]
    BY <1>1, <1>2, Zenon DEF OneShot
<1>4. whole = Turning(Squeezed(r, q, n, v, 0), OutBytes(r, q, 0, z))
    <2>1. PICK p \in Nat : p = 0 /\ p + v = v
        BY <1>1
    <2>2. Given4(r, q, n, p) /\ Whole(r, p) = 0
        BY <1>0, <2>1, WholeIs DEF Given4
    <2>3. keccak_squeezeblocks(Squeezed(r, q, n, p, 0), r, v)
              = Turning(Squeezed(r, q, n, p + v, 0), OutBytes(r, q, Whole(r, p), Whole(r, v)))
        BY <2>2, SqueezedWhole
    <2>4. keccak_absorb(m, r, 31) = Squeezed(r, q, n, 0, 0)
        BY <1>2, AbsorbedAtOnce
    <2> QED
        BY <1>1, <1>2, <2>1, <2>2, <2>3, <2>4
<1>5. whole.state = Squeezed(r, q, n, v, 0) /\ whole.out = OutBytes(r, q, 0, z)
    BY <1>4 DEF Turning
<1>6. CASE e = 0
    <2>1. k = z
        BY <1>1, <1>6
    <2> QED
        BY <1>1, <1>2, <1>3, <1>5, <1>6, <2>1
<1>7. CASE e # 0
    <2>1. PICK one \in Nat : one = 1 /\ Whole(r, one) = r
        <3>1. 0 \in Nat /\ 0 + 1 = 1 /\ 0 + r = r /\ 1 \in Nat
            BY <1>0
        <3>2. Whole(r, 0) = 0 /\ Whole(r, 0 + 1) = Whole(r, 0) + r
            BY <1>0, WholeIs
        <3> QED
            BY <3>1, <3>2
    <2>2. Given4(r, q, n, v)
        BY <1>0, <1>1 DEF Given4
    <2>3. last = Turning(Squeezed(r, q, n, v + 1, 0), OutBytes(r, q, z, r))
        BY <1>1, <1>2, <1>5, <2>1, <2>2, SqueezedWhole
    <2>4. last.state = Squeezed(r, q, n, v + 1, 0) /\ last.out = OutBytes(r, q, z, r)
        BY <2>3 DEF Turning
    <2>5. Take(last.out, e) = OutBytes(r, q, z, e)
        <3>1. z \in Nat /\ r \in Nat /\ e \in 0 .. r
            BY <1>0, <1>1
        <3>2. Take(OutBytes(r, q, z, r), e) = OutBytes(r, q, z, e)
            BY <3>1, OutTakes
        <3> QED
            BY <2>4, <3>2
    <2>6. OutBytes(r, q, 0, z) \o OutBytes(r, q, z, e) = OutBytes(r, q, 0, k)
        <3>1. PICK o \in Nat : o = 0
            OBVIOUS
        <3>2. Follows(o, z, e, z, k)
            BY <1>0, <1>1, <3>1 DEF Follows
        <3> QED
            BY <3>1, <3>2, OutAppends
    <2>7. PICK res : res = [state |-> last.state, out |-> whole.out \o Take(last.out, e)]
        OBVIOUS
    <2>8. OneShot(m, r, k) = res
        BY <1>3, <1>7, <2>7
    <2>9. res.state = Squeezed(r, q, n, v + 1, 0) /\ res.out = OutBytes(r, q, 0, k)
        BY <1>5, <2>4, <2>5, <2>6, <2>7
    <2> QED
        BY <1>1, <1>2, <2>8, <2>9, v + 1 \in Nat
<1> QED
    BY <1>6, <1>7

----------------------------------------------------------------------------
(***************************************************************************)
(* A sponge that is squeezed has had what the standard says, and gives it. *)
(***************************************************************************)
SpongeStandard(s, r, f, out) ==
    LET m    == Message(0, f)
        want == StandardSponge(m, r, 31)
        done == Len(s.blocks)
    IN  /\ \A k \in 1 .. done + 1 : Append(s.blocks, s.cur)[k] = IF k <= Len(want) THEN want[k] ELSE Zeros(r)
        /\ Len(want) <= done + 1
        /\ out = StandardOut(m, r, Len(out))

LEMMA SqueezedStandard ==
    ASSUME NEW r, NEW q, NEW n, NEW to, Whence(r, q, n, to), NEW p \in Nat, NEW left, NEW j \in Nat
    PROVE  SpongeStandard(Squeezed(r, q, n, p, left), r, to, OutBytes(r, q, 0, j))
<1>0. r \in Nat \ {0} /\ q \in Nat /\ n \in 0 .. r - 1 /\ n \in Nat /\ to \in Nat /\ to = Whole(r, q) + n
    BY DEF Whence
<1>1. PICK s, m, want, out : /\ s = Squeezed(r, q, n, p, left) /\ m = Message(0, to)
                             /\ want = StandardSponge(m, r, 31) /\ out = OutBytes(r, q, 0, j)
    OBVIOUS
<1>2. PICK b, c : b = Givens(r, q, n, p) /\ c = Given(r, q, n, q + p + 1)
    OBVIOUS
<1>3. s.blocks = b /\ s.cur = c /\ Len(s.blocks) = q + p
    BY <1>0, <1>1, <1>2, GivensLen
<1>4. Listed(want, q + 1) /\ \A k \in 1 .. q + 1 : want[k] = Given(r, q, n, k)
    BY <1>0, <1>1, StandardSpongeIs
<1>5. Len(want) = q + 1
    BY <1>4, ListedIs
<1>6. ASSUME NEW k \in 1 .. (q + p) + 1
      PROVE  Append(b, c)[k] = IF k <= q + 1 THEN want[k] ELSE Zeros(r)
    <2>1. b = [h \in 1 .. q + p |-> b[h]] /\ q + p \in Nat
        BY <1>0, <1>2 DEF Givens
    <2>2. Append(b, c) = [h \in 1 .. (q + p) + 1 |-> IF h = (q + p) + 1 THEN c ELSE b[h]]
        BY <2>1, AppendIs
    <2>3. Append(b, c)[k] = Given(r, q, n, k)
        <3>1. CASE k = (q + p) + 1
            BY <1>2, <2>2, <3>1
        <3>2. CASE k # (q + p) + 1
            <4>1. k \in 1 .. q + p
                BY <1>0, <3>2
            <4>2. b[k] = Given(r, q, n, k)
                BY <1>2, <4>1 DEF Givens
            <4> QED
                BY <2>2, <3>2, <4>2
        <3> QED
            BY <3>1, <3>2
    <2>4. CASE k <= q + 1
        BY <1>0, <1>4, <2>3, <2>4
    <2>5. CASE ~(k <= q + 1)
        <3>1. Given(r, q, n, k) = Zeros(r)
            <4>1. ~(k <= q) /\ k # q + 1
                BY <1>0, <2>5
            <4> QED
                BY <4>1 DEF Given
        <3> QED
            BY <2>3, <2>5, <3>1
    <2> QED
        BY <2>4, <2>5
<1>7. out = StandardOut(m, r, Len(out))
    <2>1. Listed(out, j)
        BY <1>1 DEF Listed, OutBytes
    <2>2. Len(out) = j
        BY <2>1, ListedIs
    <2>3. Len(m) \div r = q
        <3>1. Splits(r, to, q, n)
            BY <1>0 DEF Splits
        <3>2. PICK z \in Nat : z = 0 /\ z <= to /\ to - z = to
            BY <1>0
        <3>3. Len(Message(z, to)) = to - z
            BY <1>0, <3>2, MessageIs
        <3> QED
            BY <1>1, <3>1, <3>2, <3>3, WholeQuotient
    <2>4. \A i \in 1 .. j : <<q + 1 + (i - 1) \div r, (i - 1) % r>> = Place(r, q, 0 + i)
        <3>1. \A i \in 1 .. j : 0 + i = i
            OBVIOUS
        <3> QED
            BY <3>1 DEF Place
    <2>5. StandardOut(m, r, j) = [i \in 1 .. j |-> <<q + 1 + (i - 1) \div r, (i - 1) % r>>]
        BY <2>3 DEF StandardOut
    <2>6. StandardOut(m, r, j) = OutBytes(r, q, 0, j)
        BY <2>4, <2>5 DEF OutBytes
    <2> QED
        BY <1>1, <2>2, <2>6
<1>8. q + 1 <= (q + p) + 1
    BY <1>0
<1> QED
    BY <1>1, <1>3, <1>5, <1>6, <1>7, <1>8 DEF SpongeStandard

----------------------------------------------------------------------------
(***************************************************************************)
(* A shift, bit by bit.                                                    *)
(***************************************************************************)
ShiftRun(v, k, f) == f = [i \in 0 .. k |-> IF i = 0 THEN v ELSE f[i - 1] \div 2]

LEMMA ShiftRunExists ==
    ASSUME NEW v, NEW k \in Nat
    PROVE  \E f : ShiftRun(v, k, f)
<1> DEFINE S == {j \in Nat : \E f : ShiftRun(v, j, f)}
<1>1. 0 \in S
    <2> DEFINE f == [i \in 0 .. 0 |-> v]
    <2>1. f = [i \in 0 .. 0 |-> IF i = 0 THEN v ELSE f[i - 1] \div 2]
        OBVIOUS
    <2> HIDE DEF f
    <2>2. ShiftRun(v, 0, f)
        BY <2>1 DEF ShiftRun
    <2> QED
        BY <2>2
<1>2. ASSUME NEW j \in Nat, j \in S PROVE j + 1 \in S
    <2>1. PICK f : f = [i \in 0 .. j |-> IF i = 0 THEN v ELSE f[i - 1] \div 2]
        BY <1>2 DEF ShiftRun
    <2> DEFINE g == [i \in 0 .. j + 1 |-> IF i <= j THEN f[i] ELSE f[j] \div 2]
    <2>2. ASSUME NEW i \in 0 .. j + 1
          PROVE  (IF i <= j THEN f[i] ELSE f[j] \div 2) = IF i = 0 THEN v ELSE g[i - 1] \div 2
        <3>1. CASE i = 0
            BY <2>1, <3>1
        <3>2. CASE i \in 1 .. j
            <4>1. f[i] = f[i - 1] \div 2
                BY <2>1, <3>2
            <4>2. g[i - 1] = f[i - 1]
                BY <3>2
            <4> QED
                BY <3>2, <4>1, <4>2
        <3>3. CASE i = j + 1
            <4>1. g[j] = f[j] /\ i - 1 = j
                BY <3>3
            <4> QED
                BY <3>3, <4>1
        <3> QED
            BY <3>1, <3>2, <3>3
    <2>3. g = [i \in 0 .. j + 1 |-> IF i = 0 THEN v ELSE g[i - 1] \div 2]
        BY <2>2
    <2> HIDE DEF g
    <2>4. ShiftRun(v, j + 1, g)
        BY <2>3 DEF ShiftRun
    <2> QED
        BY <2>4
<1> HIDE DEF S
<1>3. Nat \subseteq S
    BY <1>1, <1>2, Induct
<1> QED
    BY <1>3 DEF S

LEMMA ShiftIs ==
    ASSUME NEW v
    PROVE  ShiftRight(v, 0) = v /\ \A k \in Nat : ShiftRight(v, k + 1) = ShiftRight(v, k) \div 2
<1> DEFINE F(k) == CHOOSE f : ShiftRun(v, k, f)
<1>1. ASSUME NEW k \in Nat PROVE ShiftRight(v, k) = F(k)[k] /\ ShiftRun(v, k, F(k))
    <2>1. ShiftRight(v, k) = F(k)[k]
        BY Zenon DEF ShiftRight, ShiftRun
    <2>2. \E f : ShiftRun(v, k, f)
        BY ShiftRunExists
    <2> QED
        BY <2>1, <2>2, Zenon
<1> HIDE DEF F
<1>2. ShiftRight(v, 0) = v
    BY <1>1 DEF ShiftRun
<1>3. ASSUME NEW k \in Nat PROVE ShiftRight(v, k + 1) = ShiftRight(v, k) \div 2
    <2>1. PICK f, g : f = F(k) /\ g = F(k + 1)
        OBVIOUS
    <2>2. ShiftRun(v, k, f) /\ ShiftRight(v, k) = f[k]
        BY <1>1, <2>1
    <2>3. ShiftRun(v, k + 1, g) /\ ShiftRight(v, k + 1) = g[k + 1]
        <3>1. k + 1 \in Nat
            OBVIOUS
        <3> QED
            BY <1>1, <2>1, <3>1
    <2>4. f[0] = g[0]
        BY <2>2, <2>3 DEF ShiftRun
    <2>5. ASSUME NEW t \in 1 .. k, f[t - 1] = g[t - 1] PROVE f[t] = g[t]
        <3>1. f[t] = f[t - 1] \div 2
            BY <2>2 DEF ShiftRun
        <3>2. g[t] = g[t - 1] \div 2
            BY <2>3 DEF ShiftRun
        <3> QED
            BY <2>5, <3>1, <3>2
    <2>6. \A t \in 0 .. k : f[t] = g[t]
        BY <2>4, <2>5, SameRun
    <2>7. g[k + 1] = g[k] \div 2
        BY <2>3 DEF ShiftRun
    <2> QED
        BY <2>2, <2>3, <2>6, <2>7
<1> QED
    BY <1>2, <1>3

LEMMA ShiftNat ==
    ASSUME NEW v \in Nat, NEW k \in Nat
    PROVE  ShiftRight(v, k) \in Nat
<1> DEFINE S == {j \in Nat : ShiftRight(v, j) \in Nat}
<1>1. 0 \in S
    BY ShiftIs
<1>2. ASSUME NEW j \in Nat, j \in S PROVE j + 1 \in S
    <2>1. PICK x \in Nat : x = ShiftRight(v, j) /\ x \div 2 \in Nat
        BY <1>2
    <2>2. ShiftRight(v, j + 1) = x \div 2
        BY <2>1, ShiftIs
    <2> QED
        BY <2>1, <2>2
<1> HIDE DEF S
<1>3. Nat \subseteq S
    BY <1>1, <1>2, Induct
<1> QED
    BY <1>3 DEF S

LEMMA ShiftTwice ==
    ASSUME NEW v \in Nat, NEW w, w = 2 * v, NEW k \in Nat
    PROVE  ShiftRight(w, k + 1) = ShiftRight(v, k)
<1> DEFINE S == {j \in Nat : ShiftRight(w, j + 1) = ShiftRight(v, j)}
<1>1. 0 \in S
    <2>1. ShiftRight(w, 0 + 1) = ShiftRight(w, 0) \div 2 /\ ShiftRight(w, 0) = w /\ ShiftRight(v, 0) = v
        BY ShiftIs, 0 \in Nat
    <2>2. (2 * v) \div 2 = v
        OBVIOUS
    <2> QED
        BY <2>1, <2>2
<1>2. ASSUME NEW j \in Nat, j \in S PROVE j + 1 \in S
    <2>1. PICK i \in Nat : i = j + 1
        OBVIOUS
    <2>2. ShiftRight(w, i + 1) = ShiftRight(w, i) \div 2 /\ ShiftRight(v, j + 1) = ShiftRight(v, j) \div 2
        BY ShiftIs
    <2> QED
        BY <1>2, <2>1, <2>2
<1> HIDE DEF S
<1>3. Nat \subseteq S
    BY <1>1, <1>2, Induct
<1> QED
    BY <1>3 DEF S

\* A count of bits, shifted, is the count of bytes shifted by three less.
LEMMA ShiftBits ==
    ASSUME NEW v \in Nat, NEW k \in Nat
    PROVE  ShiftRight(8 * v, k + 3) = ShiftRight(v, k)
<1>1. PICK a \in Nat, b \in Nat, c \in Nat : a = 2 * v /\ b = 2 * a /\ c = 2 * b /\ c = 8 * v
    <2>1. 2 * v \in Nat /\ 2 * (2 * v) \in Nat /\ 2 * (2 * (2 * v)) \in Nat /\ 2 * (2 * (2 * v)) = 8 * v
        OBVIOUS
    <2> QED
        BY <2>1
<1>2. PICK k1 \in Nat, k2 \in Nat : k1 = k + 1 /\ k2 = k1 + 1 /\ k2 + 1 = k + 3
    <2>1. k + 1 \in Nat /\ (k + 1) + 1 \in Nat /\ ((k + 1) + 1) + 1 = k + 3
        OBVIOUS
    <2> QED
        BY <2>1
<1>3. ShiftRight(a, k + 1) = ShiftRight(v, k)
    BY <1>1, ShiftTwice
<1>4. ShiftRight(b, k1 + 1) = ShiftRight(a, k1)
    BY <1>1, ShiftTwice
<1>5. ShiftRight(c, k2 + 1) = ShiftRight(b, k2)
    BY <1>1, ShiftTwice
<1> QED
    BY <1>1, <1>2, <1>3, <1>4, <1>5

LEMMA ShiftedOut ==
    ASSUME NEW v, NEW k \in Nat, ShiftRight(v, k) = 0, NEW d \in Nat
    PROVE  ShiftRight(v, k + d) = 0
<1> DEFINE S == {j \in Nat : ShiftRight(v, k + j) = 0}
<1>1. 0 \in S
    BY k + 0 = k
<1>2. ASSUME NEW j \in Nat, j \in S PROVE j + 1 \in S
    <2>1. PICK i \in Nat : i = k + j /\ k + (j + 1) = i + 1
        OBVIOUS
    <2>2. ShiftRight(v, i + 1) = ShiftRight(v, i) \div 2
        BY ShiftIs
    <2>3. 0 \div 2 = 0
        OBVIOUS
    <2> QED
        BY <1>2, <2>1, <2>2, <2>3
<1> HIDE DEF S
<1>3. Nat \subseteq S
    BY <1>1, <1>2, Induct
<1> QED
    BY <1>3 DEF S

\* Byte j of the bit count, from the lowest.
CountByte(f, j) == LowByte(ShiftRight(8 * f, 8 * j))

LEMMA CountByteIs ==
    ASSUME NEW f \in Nat, NEW j \in Nat
    PROVE  /\ j = 0 => CountByte(f, j) = LowByte(f * 8)
           /\ j # 0 => CountByte(f, j) = LowByte(ShiftRight(f, 8 * j - 3))
           /\ j >= 8 /\ Countable(f) => CountByte(f, j) = {}
<1>1. ASSUME j = 0 PROVE CountByte(f, j) = LowByte(f * 8)
    <2>1. 8 * j = 0 /\ 8 * f = f * 8
        BY <1>1
    <2> QED
        BY <2>1, ShiftIs DEF CountByte
<1>2. ASSUME j # 0 PROVE CountByte(f, j) = LowByte(ShiftRight(f, 8 * j - 3))
    <2>1. PICK k \in Nat : k = 8 * j - 3 /\ k + 3 = 8 * j
        BY <1>2
    <2>2. ShiftRight(8 * f, k + 3) = ShiftRight(f, k)
        BY ShiftBits
    <2> QED
        BY <2>1, <2>2 DEF CountByte
<1>3. ASSUME j >= 8, Countable(f) PROVE CountByte(f, j) = {}
    <2>1. PICK d \in Nat : d = 8 * j - 64 /\ 61 + d = 8 * j - 3
        BY <1>3
    <2>2. ShiftRight(f, 61) = 0
        BY <1>3 DEF Countable
    <2>3. ShiftRight(f, 61 + d) = 0
        BY <2>2, ShiftedOut, 61 \in Nat
    <2>4. LowByte(0) = {}
        BY 0 % 256 = 0 DEF LowByte, Const
    <2>5. j # 0
        BY <1>3
    <2> QED
        BY <1>2, <2>1, <2>3, <2>4, <2>5
<1> QED
    BY <1>1, <1>2, <1>3

AddsUp(n, m, all) == all = n + m
Joined(b, n, c, all) == [k \in 1 .. all |-> IF k <= n THEN b[k] ELSE c[k - n]]

\* Two sequences of known lengths joined.
LEMMA JoinListed ==
    ASSUME NEW b, NEW n, Listed(b, n), NEW c, NEW m, Listed(c, m), NEW all, AddsUp(n, m, all)
    PROVE  b \o c = Joined(b, n, c, all) /\ Listed(Joined(b, n, c, all), all)
<1>1. n \in Nat /\ m \in Nat /\ b = [k \in 1 .. n |-> b[k]] /\ c = [k \in 1 .. m |-> c[k]]
    BY DEF Listed
<1>3. all = n + m
    BY DEF AddsUp
<1>2. b \o c = [k \in 1 .. n + m |-> IF k <= n THEN b[k] ELSE c[k - n]]
    BY <1>1, JoinIs
<1> QED
    BY <1>1, <1>2, <1>3 DEF Joined, Listed

\* The bytes of the count as the incremental codes write them.
LEMMA CountBytesAre ==
    ASSUME NEW f \in Nat
    PROVE  /\ Listed(CountBytes(f, 53), 8) /\ \A i \in 1 .. 8 : CountBytes(f, 53)[i] = CountByte(f, 8 - i)
           /\ Listed(CountBytes(f, 61), 9) /\ \A i \in 1 .. 9 : CountBytes(f, 61)[i] = CountByte(f, 9 - i)
<1>1. ASSUME NEW h \in {7, 8}, NEW shift \in Nat, shift = 8 * h - 3
      PROVE  Listed(CountBytes(f, shift), h + 1) /\ \A i \in 1 .. h + 1 : CountBytes(f, shift)[i] = CountByte(f, (h + 1) - i)
    <2>1. (shift + 3) \div 8 = h /\ h \in Nat
        BY <1>1
    <2>2. PICK b, c : b = [k \in 1 .. h |-> LowByte(ShiftRight(f, shift - 8 * (k - 1)))] /\ c = <<LowByte(f * 8)>>
        OBVIOUS
    <2>3. CountBytes(f, shift) = b \o c
        BY <2>1, <2>2 DEF CountBytes
    <2>4. Listed(b, h) /\ Listed(c, 1) /\ c[1] = LowByte(f * 8)
        BY <2>1, <2>2 DEF Listed
    <2>5. PICK all \in Nat : all = h + 1 /\ AddsUp(h, 1, all)
        BY <2>1 DEF AddsUp
    <2>6. b \o c = Joined(b, h, c, all) /\ Listed(Joined(b, h, c, all), all)
        BY <2>4, <2>5, JoinListed
    <2>7. ASSUME NEW i \in 1 .. all PROVE Joined(b, h, c, all)[i] = CountByte(f, (h + 1) - i)
        <3>1. PICK j \in Nat : j = (h + 1) - i
            BY <2>5
        <3>2. CASE i = h + 1
            <4>1. j = 0 /\ i - h = 1 /\ ~(i <= h)
                BY <1>1, <3>1, <3>2
            <4> QED
                BY <2>4, <3>1, <4>1, CountByteIs DEF Joined
        <3>3. CASE i # h + 1
            <4>1. i \in 1 .. h /\ i <= h /\ j # 0 /\ shift - 8 * (i - 1) = 8 * j - 3
                BY <1>1, <2>5, <3>1, <3>3
            <4>2. b[i] = LowByte(ShiftRight(f, 8 * j - 3))
                BY <2>2, <4>1
            <4> QED
                BY <3>1, <4>1, <4>2, CountByteIs DEF Joined
        <3> QED
            BY <3>2, <3>3
    <2> QED
        BY <2>3, <2>5, <2>6, <2>7
<1>2. 53 = 8 * 7 - 3 /\ 61 = 8 * 8 - 3 /\ 7 + 1 = 8 /\ 8 + 1 = 9 /\ 53 \in Nat /\ 61 \in Nat
    OBVIOUS
<1>3. Listed(CountBytes(f, 53), 7 + 1) /\ \A i \in 1 .. 7 + 1 : CountBytes(f, 53)[i] = CountByte(f, (7 + 1) - i)
    BY <1>1, <1>2
<1>4. Listed(CountBytes(f, 61), 8 + 1) /\ \A i \in 1 .. 8 + 1 : CountBytes(f, 61)[i] = CountByte(f, (8 + 1) - i)
    BY <1>1, <1>2
<1> QED
    BY <1>2, <1>3, <1>4

----------------------------------------------------------------------------
(***************************************************************************)
(* SHA-2: whole blocks of a message, and the padded rest of it.            *)
(***************************************************************************)
BlocksFrom(r, q, v) == [k \in 1 .. v |-> Full(r, q + k)]
Spans(r, q, v, e, from, to) ==
    /\ r \in Nat \ {0} /\ q \in Nat /\ v \in Nat /\ e \in 0 .. r - 1
    /\ from \in Nat /\ from = Whole(r, q) /\ to \in Nat /\ to = Whole(r, q + v) + e

Stretch(r, z) == [i \in 1 .. r |-> {<<"m", z + i>>}]

LEMMA FullIs ==
    ASSUME NEW r \in Nat, NEW h \in Nat, NEW z, z = Whole(r, h)
    PROVE  Full(r, h + 1) = Stretch(r, z)
<1>1. z \in Nat /\ (h + 1) * r = z + r /\ ((h + 1) - 1) * r = z
    BY Products DEF Whole
<1>2. (z + r) - z = r
    BY <1>1
<1> QED
    BY <1>1, <1>2 DEF Full, Message, Stretch

\* A message that starts at a block: its whole blocks, and the rest.
LEMMA MessageBlocks ==
    ASSUME NEW r, NEW q, NEW v, NEW e, NEW from, NEW to, Spans(r, q, v, e, from, to)
    PROVE  /\ Len(Message(from, to)) = Whole(r, v) + e
           /\ BlocksOf(Message(from, to), r) = BlocksFrom(r, q, v)
           /\ Len(Message(from, to)) \div r = v
           /\ RestOf(Message(from, to), r) = Message(Whole(r, q + v), to)
<1>0. /\ r \in Nat \ {0} /\ q \in Nat /\ v \in Nat /\ e \in 0 .. r - 1
      /\ from \in Nat /\ from = Whole(r, q) /\ to \in Nat /\ to = Whole(r, q + v) + e
    BY DEF Spans
<1>1. PICK w \in Nat : w = Whole(r, v) /\ Whole(r, q + v) = from + w
    <2>1. r \in Nat /\ q \in Nat /\ v \in Nat
        BY <1>0
    <2>2. Whole(r, q + v) = Whole(r, q) + Whole(r, v) /\ Whole(r, v) \in Nat
        BY ONLY <2>1, WholeSum, WholeIs
    <2> QED
        BY <1>0, <2>2
<1>2. PICK m, n : m = Message(from, to) /\ n = w + e /\ n \in Nat
    BY <1>0, <1>1
<1>3. from <= to /\ to - from = n
    BY <1>0, <1>1, <1>2
<1>4. Len(m) = n /\ Listed(m, n) /\ \A i \in 1 .. n : m[i] = {<<"m", from + i>>}
    <2>1. /\ Message(from, to) = [i \in 1 .. to - from |-> Message(from, to)[i]]
          /\ Len(Message(from, to)) = to - from
          /\ \A i \in 1 .. to - from : Message(from, to)[i] = {<<"m", from + i>>}
        BY <1>0, <1>3, MessageIs
    <2>2. /\ m = [i \in 1 .. n |-> m[i]] /\ Len(m) = n
          /\ \A i \in 1 .. n : m[i] = {<<"m", from + i>>}
        BY <1>2, <1>3, <2>1
    <2> QED
        BY <1>2, <2>2 DEF Listed
<1>5. n \div r = v
    <2>1. Splits(r, n, v, e)
        BY <1>0, <1>1, <1>2 DEF Splits
    <2> QED
        BY <2>1, WholeQuotient
<1>6. BlocksOf(m, r) = [k \in 1 .. v |-> SubSeq(m, (k - 1) * r + 1, k * r)]
    BY <1>4, <1>5 DEF BlocksOf
<1>7. ASSUME NEW k \in 1 .. v PROVE SubSeq(m, (k - 1) * r + 1, k * r) = Full(r, q + k)
    <2>1. PICK h \in Nat : h + 1 = k /\ k - 1 = h
        <3>1. k - 1 \in Nat /\ (k - 1) + 1 = k
            BY <1>0
        <3> QED
            BY <3>1
    <2>2. PICK z \in Nat : z = Whole(r, h) /\ z + r <= w /\ k * r = z + r /\ h * r = z
        <3>1. Whole(r, h) \in Nat /\ Whole(r, h + 1) = Whole(r, h) + r /\ Whole(r, k) <= Whole(r, v)
            <4>1. k \in Nat /\ k <= v
                BY <1>0
            <4> QED
                BY <1>0, <2>1, <4>1, WholeIs, WholeMonotone
        <3>2. Whole(r, k) = k * r /\ Whole(r, h) = h * r
            BY DEF Whole
        <3> QED
            BY <1>1, <2>1, <3>1, <3>2
    <2>3. PICK i0, j0 : i0 = z + 1 /\ j0 = z + r /\ Within(i0, j0, n)
        <3>1. z + 1 \in 1 .. n + 1 /\ z + r \in (z + 1) - 1 .. n
            BY <1>0, <1>1, <1>2, <2>2
        <3> QED
            BY <3>1 DEF Within
    <2>4. SubSeq(m, i0, j0) = Cut(m, i0, j0)
        BY <1>4, <2>3, CutIs
    <2>5. PICK g \in Nat : g = q + h /\ Whole(r, g) = from + z /\ g + 1 = q + k
        <3>1. Whole(r, q + h) = Whole(r, q) + Whole(r, h)
            BY <1>0, WholeSum
        <3>2. q + h \in Nat /\ (q + h) + 1 = q + k
            BY <1>0, <2>1
        <3> QED
            BY <1>0, <2>2, <3>1, <3>2
    <2>6. Full(r, g + 1) = [i \in 1 .. r |-> {<<"m", (from + z) + i>>}]
        <3>1. PICK y : y = from + z
            OBVIOUS
        <3>2. Full(r, g + 1) = Stretch(r, y)
            BY <1>0, <2>5, <3>1, FullIs
        <3> QED
            BY <3>1, <3>2 DEF Stretch
    <2>7. j0 - i0 + 1 = r /\ \A i \in 1 .. r : m[i0 + i - 1] = {<<"m", (from + z) + i>>}
        <3>1. j0 - i0 + 1 = r
            BY <1>0, <2>3
        <3>2. ASSUME NEW i \in 1 .. r PROVE m[i0 + i - 1] = {<<"m", (from + z) + i>>}
            <4>1. i0 + i - 1 = z + i /\ z + i \in 1 .. n /\ from + (z + i) = (from + z) + i
                BY <1>0, <1>1, <1>2, <2>2, <2>3
            <4> QED
                BY <1>4, <4>1
        <3> QED
            BY <3>1, <3>2
    <2>8. Cut(m, i0, j0) = Full(r, g + 1)
        BY <2>6, <2>7 DEF Cut
    <2> QED
        BY <2>1, <2>2, <2>3, <2>4, <2>5, <2>8
<1>8. RestOf(m, r) = Message(from + w, to)
    <2>1. RestOf(m, r) = Drop(m, w)
        BY <1>1, <1>4, <1>5 DEF RestOf, Whole
    <2>2. w \in 0 .. to - from
        BY <1>0, <1>2, <1>3
    <2>3. Drop(Message(from, to), w) = Message(from + w, to)
        BY <1>0, <1>3, <2>2, TakeMessage
    <2> QED
        BY <1>2, <2>1, <2>3
<1>9. BlocksOf(m, r) = BlocksFrom(r, q, v)
    BY <1>6, <1>7 DEF BlocksFrom
<1> QED
    BY <1>1, <1>2, <1>4, <1>5, <1>8, <1>9

Sums(q, v, all) == q \in Nat /\ v \in Nat /\ all = q + v

\* Whole blocks after whole blocks.
LEMMA FullsJoin ==
    ASSUME NEW r, NEW q, NEW v, NEW all, Sums(q, v, all)
    PROVE  Fulls(r, q) \o BlocksFrom(r, q, v) = Fulls(r, all)
<1>0. q \in Nat /\ v \in Nat /\ all \in Nat /\ all = q + v /\ AddsUp(q, v, all)
    BY DEF Sums, AddsUp
<1>1. PICK b, c : b = Fulls(r, q) /\ c = BlocksFrom(r, q, v)
    OBVIOUS
<1>2. Listed(b, q) /\ Listed(c, v)
    BY <1>0, <1>1 DEF Listed, Fulls, BlocksFrom
<1>3. b \o c = Joined(b, q, c, all)
    BY <1>0, <1>2, JoinListed
<1>4. ASSUME NEW k \in 1 .. all PROVE (IF k <= q THEN b[k] ELSE c[k - q]) = Full(r, k)
    <2>1. CASE k <= q
        BY <1>0, <1>1, <2>1 DEF Fulls
    <2>2. CASE ~(k <= q)
        <3>1. k - q \in 1 .. v /\ q + (k - q) = k
            BY <1>0, <2>2
        <3> QED
            BY <1>1, <2>2, <3>1 DEF BlocksFrom
    <2> QED
        BY <2>1, <2>2
<1> QED
    BY <1>1, <1>3, <1>4 DEF Joined, Fulls

\* The padded rest: n bytes after q blocks, f bytes in all, to a block's end.
PadByte(B, q, n, f, end, i) ==
    IF i <= n THEN {<<"m", Whole(B, q) + i>>}
    ELSE IF i = n + 1 THEN Const(128)
    ELSE IF i <= end - B \div 8 THEN {} ELSE CountByte(f, end - i)
TailBlock(B, q, n, f, end, at) == [i \in 1 .. B |-> PadByte(B, q, n, f, end, at + i)]
Ends(B, n)       == IF n + B \div 8 < B THEN B ELSE 2 * B
PadTail(B, q, n, f) ==
    IF n + B \div 8 < B THEN <<TailBlock(B, q, n, f, B, 0)>>
    ELSE <<TailBlock(B, q, n, f, 2 * B, 0), TailBlock(B, q, n, f, 2 * B, B)>>
ShaAt(B, q, n, f) == B \in {64, 128} /\ q \in Nat /\ n \in 0 .. B - 1 /\ f \in Nat /\ f = Whole(B, q) + n

LEMMA SmallWhole ==
    ASSUME NEW B \in Nat
    PROVE  Whole(B, 0) = 0 /\ Whole(B, 1) = B /\ Whole(B, 2) = 2 * B
<1>1. 0 * B = 0 /\ 1 * B = B
    OBVIOUS
<1> QED
    BY <1>1 DEF Whole

\* One block or two: there may be no room for the count in the first.
LEMMA TailIs ==
    ASSUME NEW B, NEW q, NEW n, NEW f, ShaAt(B, q, n, f), NEW end, end = Ends(B, n),
           NEW x, Listed(x, end), \A i \in 1 .. end : x[i] = PadByte(B, q, n, f, end, i)
    PROVE  BlocksOf(x, B) = PadTail(B, q, n, f)
<1>0. B \in Nat \ {0} /\ B \in Nat
    BY DEF ShaAt
<1>1. CASE n + B \div 8 < B
    <2>1. end = B
        BY <1>1 DEF Ends
    <2>2. PICK k \in Nat : k = 1 /\ end = Whole(B, k)
        BY <1>0, <2>1, SmallWhole
    <2>3. Listed(BlocksOf(x, B), k) /\ \A h \in 0 .. k - 1 : BlocksOf(x, B)[h + 1] = At(x, B, h)
        BY <1>0, <2>2, BlocksAre
    <2>4. BlocksOf(x, B)[1] = At(x, B, 0)
        <3>1. 0 \in 0 .. k - 1 /\ 0 + 1 = 1
            BY <2>2
        <3> QED
            BY <2>3, <3>1
    <2>5. At(x, B, 0) = TailBlock(B, q, n, f, B, 0)
        <3>1. \A i \in 1 .. B : 0 + i = i
            BY <1>0
        <3> QED
            BY <1>0, <2>1, <3>1, SmallWhole DEF At, TailBlock
    <2>6. PICK y : y = BlocksOf(x, B)
        OBVIOUS
    <2>7. y = [i \in 1 .. 1 |-> y[i]] /\ y[1] = TailBlock(B, q, n, f, B, 0)
        BY <2>2, <2>3, <2>4, <2>5, <2>6 DEF Listed
    <2>8. y = <<TailBlock(B, q, n, f, B, 0)>>
        BY <2>7
    <2> QED
        BY <1>1, <2>6, <2>8 DEF PadTail
<1>2. CASE ~(n + B \div 8 < B)
    <2>1. end = 2 * B
        BY <1>2 DEF Ends
    <2>2. PICK k \in Nat : k = 2 /\ end = Whole(B, k)
        BY <1>0, <2>1, SmallWhole
    <2>3. Listed(BlocksOf(x, B), k) /\ \A h \in 0 .. k - 1 : BlocksOf(x, B)[h + 1] = At(x, B, h)
        BY <1>0, <2>2, BlocksAre
    <2>4. BlocksOf(x, B)[1] = At(x, B, 0) /\ BlocksOf(x, B)[2] = At(x, B, 1)
        <3>1. 0 \in 0 .. k - 1 /\ 0 + 1 = 1 /\ 1 \in 0 .. k - 1 /\ 1 + 1 = 2
            BY <2>2
        <3> QED
            BY <2>3, <3>1
    <2>5. At(x, B, 0) = TailBlock(B, q, n, f, 2 * B, 0) /\ At(x, B, 1) = TailBlock(B, q, n, f, 2 * B, B)
        <3>1. \A i \in 1 .. B : 0 + i = i /\ i \in 1 .. end /\ B + i \in 1 .. end
            BY <1>0, <2>1
        <3> QED
            BY <1>0, <2>1, <3>1, SmallWhole DEF At, TailBlock
    <2>6. PICK y, y1, y2 : y = BlocksOf(x, B) /\ y1 = TailBlock(B, q, n, f, 2 * B, 0) /\ y2 = TailBlock(B, q, n, f, 2 * B, B)
        OBVIOUS
    <2>7. y = [i \in 1 .. 2 |-> y[i]] /\ y[1] = y1 /\ y[2] = y2
        BY <2>2, <2>3, <2>4, <2>5, <2>6 DEF Listed
    <2>8. y = <<y1, y2>>
        BY <2>7
    <2> QED
        BY <1>2, <2>6, <2>8 DEF PadTail
<1> QED
    BY <1>1, <1>2

LEMMA TailListed ==
    ASSUME NEW B, NEW q, NEW n, NEW f, ShaAt(B, q, n, f), NEW t, t = IF n + B \div 8 < B THEN 1 ELSE 2
    PROVE  /\ Listed(PadTail(B, q, n, f), t) /\ Ends(B, n) = Whole(B, t) /\ t \in 1 .. 2
           /\ \A h \in 0 .. t - 1 : PadTail(B, q, n, f)[h + 1] = TailBlock(B, q, n, f, Ends(B, n), Whole(B, h))
<1>0. B \in Nat \ {0} /\ B \in Nat
    BY DEF ShaAt
<1>1. CASE n + B \div 8 < B
    <2>1. t = 1 /\ PadTail(B, q, n, f) = <<TailBlock(B, q, n, f, B, 0)>> /\ Ends(B, n) = B
        BY <1>1 DEF PadTail, Ends
    <2>2. \A h \in 0 .. t - 1 : h = 0
        BY <2>1
    <2> QED
        BY <1>0, <2>1, <2>2, SmallWhole DEF Listed
<1>2. CASE ~(n + B \div 8 < B)
    <2>1. PICK y, y1, y2 : y1 = TailBlock(B, q, n, f, 2 * B, 0) /\ y2 = TailBlock(B, q, n, f, 2 * B, B) /\ y = <<y1, y2>>
        OBVIOUS
    <2>2. t = 2 /\ PadTail(B, q, n, f) = y /\ Ends(B, n) = 2 * B
        BY <1>2, <2>1 DEF PadTail, Ends
    <2>3. Listed(y, 2) /\ y[1] = y1 /\ y[2] = y2
        BY <2>1 DEF Listed
    <2>4. \A h \in 0 .. t - 1 : (h = 0 /\ h + 1 = 1) \/ (h = 1 /\ h + 1 = 2)
        BY <2>2
    <2> QED
        BY <1>0, <2>1, <2>2, <2>3, <2>4, SmallWhole
<1> QED
    BY <1>1, <1>2

\* The state of a SHA-2: the blocks it was given and its counter.
ShaState(b, n) == [blocks |-> b, n |-> n]

LEMMA ShaFacts ==
    ASSUME NEW B, NEW q, NEW n, NEW f, ShaAt(B, q, n, f)
    PROVE  /\ B \in Nat \ {0} /\ B \in Nat /\ q \in Nat /\ n \in 0 .. B - 1 /\ n \in Nat
           /\ f \in Nat /\ f = Whole(B, q) + n /\ Whole(B, q) \in Nat
           /\ (B = 64 /\ B \div 8 = 8) \/ (B = 128 /\ B \div 8 = 16)
    BY WholeIs DEF ShaAt

\* What the standard has in place y after the whole blocks.
LEMMA StandardShaIs ==
    ASSUME NEW B, NEW q, NEW n, NEW f, ShaAt(B, q, n, f)
    PROVE  StandardSha(Message(0, f), B) = Fulls(B, q) \o PadTail(B, q, n, f)
<1>0. /\ B \in Nat \ {0} /\ B \in Nat /\ q \in Nat /\ n \in 0 .. B - 1 /\ n \in Nat
      /\ f \in Nat /\ f = Whole(B, q) + n
      /\ (B = 64 /\ B \div 8 = 8) \/ (B = 128 /\ B \div 8 = 16)
    BY ShaFacts
<1>n. B \in Nat /\ q \in Nat /\ n \in Nat /\ f \in Nat
    BY <1>0
<1>1. PICK base, c, t, end :
          /\ base = Whole(B, q) /\ base \in Nat /\ c = B \div 8 /\ c \in {8, 16} /\ t = IF n + c < B THEN 1 ELSE 2
          /\ end = Ends(B, n) /\ end = IF n + c < B THEN B ELSE 2 * B
    BY <1>0, ShaFacts DEF Ends
<1>2. /\ Listed(PadTail(B, q, n, f), t) /\ end = Whole(B, t) /\ t \in 1 .. 2 /\ t \in Nat
      /\ \A h \in 0 .. t - 1 : PadTail(B, q, n, f)[h + 1] = TailBlock(B, q, n, f, end, Whole(B, h))
    <2>1. t = IF n + B \div 8 < B THEN 1 ELSE 2
        BY <1>1
    <2>2. /\ Listed(PadTail(B, q, n, f), t) /\ Ends(B, n) = Whole(B, t) /\ t \in 1 .. 2
          /\ \A h \in 0 .. t - 1 : PadTail(B, q, n, f)[h + 1] = TailBlock(B, q, n, f, Ends(B, n), Whole(B, h))
        BY <2>1, TailListed
    <2> QED
        BY <1>1, <2>2
<1>3. PICK m : m = Message(0, f)
    OBVIOUS
<1>4. Len(m) = f /\ \A i \in 1 .. f : m[i] = {<<"m", i>>}
    <2>1. PICK z \in Nat : z = 0 /\ z <= f /\ f - z = f /\ \A i \in 1 .. f : z + i = i
        BY <1>0
    <2>2. Len(Message(z, f)) = f - z /\ \A i \in 1 .. f - z : Message(z, f)[i] = {<<"m", z + i>>}
        <3>1. z \in Nat /\ f \in Nat /\ z <= f
            BY <1>n, <2>1
        <3> QED
            BY ONLY <3>1, MessageIs
    <2> QED
        BY <1>3, <2>1, <2>2
<1>5. PICK all, room : all = q + t /\ room = Whole(B, all) /\ room = base + end /\ room \in Nat /\ all \in Nat
    <2>1. Whole(B, q + t) = Whole(B, q) + Whole(B, t) /\ Whole(B, t) \in Nat /\ q + t \in Nat
        BY <1>0, <1>2, WholeSum, WholeIs
    <2> QED
        BY <1>1, <1>2, <2>1
<1>6. ((Len(m) + 1 + B \div 8 + B - 1) \div B) * B = room
    <2>1. PICK u, e : u = f + 1 + c + B - 1 /\ u = room + e /\ e \in 0 .. B - 1
        <3>1. f + 1 + c + B - 1 = room + (IF n + c < B THEN n + c ELSE n + c - B)
            BY <1>0, <1>1, <1>5
        <3>2. (IF n + c < B THEN n + c ELSE n + c - B) \in 0 .. B - 1
            BY <1>0, <1>1
        <3> QED
            BY <3>1, <3>2
    <2>2. Splits(B, u, all, e)
        BY <1>0, <1>5, <2>1 DEF Splits
    <2>3. u \div B = all
        BY <2>2, WholeQuotient
    <2> QED
        BY <1>1, <1>4, <1>5, <2>1, <2>3 DEF Whole
<1>7. PICK x : x = [i \in 1 .. room |->
                     IF i <= f THEN m[i] ELSE IF i = f + 1 THEN Const(128)
                     ELSE IF i <= room - c THEN {} ELSE LowByte(ShiftRight(8 * f, 8 * (room - i)))]
    OBVIOUS
<1>8. StandardSha(m, B) = BlocksOf(x, B)
    <2>1. StandardSha(m, B) =
              LET rm == ((Len(m) + 1 + B \div 8 + B - 1) \div B) * B
                  bits == 8 * Len(m)
              IN  BlocksOf([i \in 1 .. rm |->
                     IF i <= Len(m) THEN m[i] ELSE IF i = Len(m) + 1 THEN Const(128)
                     ELSE IF i <= rm - B \div 8 THEN {} ELSE LowByte(ShiftRight(bits, 8 * (rm - i)))], B)
        BY Zenon DEF StandardSha
    <2> QED
        BY <1>1, <1>4, <1>6, <1>7, <2>1, Zenon
<1>9. Listed(BlocksOf(x, B), all) /\ \A h \in 0 .. all - 1 : BlocksOf(x, B)[h + 1] = At(x, B, h)
    <2>1. Listed(x, room)
        BY <1>5, <1>7 DEF Listed
    <2> QED
        BY <1>0, <1>5, <2>1, BlocksAre
<1>10. ASSUME NEW h \in 0 .. q - 1 PROVE At(x, B, h) = Full(B, h + 1)
    <2>1. PICK z : z = Whole(B, h) /\ z \in Nat /\ z + B <= base
        <3>1. h \in Nat /\ h + 1 \in Nat /\ h + 1 <= q
            BY <1>0
        <3>2. Whole(B, h) \in Nat /\ Whole(B, h + 1) = Whole(B, h) + B /\ Whole(B, h + 1) <= Whole(B, q)
            BY <1>n, <3>1, WholeIs, WholeMonotone
        <3> QED
            BY <1>1, <3>2
    <2>2. Full(B, h + 1) = Stretch(B, z)
        BY <1>0, <2>1, FullIs, h \in Nat
    <2>3. ASSUME NEW i \in 1 .. B PROVE x[z + i] = {<<"m", z + i>>}
        <3>1. z + i \in 1 .. room /\ z + i \in 1 .. f /\ z + i <= f
            BY <1>0, <1>1, <1>5, <2>1
        <3> QED
            BY <1>4, <1>7, <3>1
    <2> QED
        BY <2>1, <2>2, <2>3 DEF At, Stretch
<1>11. ASSUME NEW g \in 0 .. t - 1 PROVE At(x, B, q + g) = TailBlock(B, q, n, f, end, Whole(B, g))
    <2>1. PICK at : at = Whole(B, g) /\ at \in Nat /\ at + B <= end /\ Whole(B, q + g) = base + at
        <3>1. g \in Nat /\ g + 1 \in Nat /\ g + 1 <= t
            BY <1>2
        <3>2. /\ Whole(B, g) \in Nat /\ Whole(B, g + 1) = Whole(B, g) + B /\ Whole(B, g + 1) <= Whole(B, t)
              /\ Whole(B, q + g) = Whole(B, q) + Whole(B, g)
            <4>1. Whole(B, g) \in Nat /\ Whole(B, g + 1) = Whole(B, g) + B
                BY <1>n, <3>1, WholeIs
            <4>2. Whole(B, g + 1) <= Whole(B, t)
                <5>1. PICK g1 : g1 = g + 1
                    OBVIOUS
                <5>2. B \in Nat /\ g1 \in Nat /\ t \in Nat /\ g1 <= t
                    BY <1>n, <1>2, <3>1, <5>1
                <5>3. Whole(B, g1) <= Whole(B, t)
                    BY ONLY <5>2, WholeMonotone
                <5> QED
                    BY <5>1, <5>3
            <4>3. Whole(B, q + g) = Whole(B, q) + Whole(B, g)
                BY <1>n, <3>1, WholeSum
            <4> QED
                BY <4>1, <4>2, <4>3
        <3> QED
            BY <1>1, <1>2, <3>2
    <2>2. ASSUME NEW i \in 1 .. B PROVE x[(base + at) + i] = PadByte(B, q, n, f, end, at + i)
        <3>1. PICK y, j : /\ y = at + i /\ y \in 1 .. end /\ j = (base + at) + i /\ j = base + y
                          /\ j \in 1 .. room /\ (j <= f <=> y <= n) /\ (j = f + 1 <=> y = n + 1)
                          /\ (j <= room - c <=> y <= end - c) /\ room - j = end - y
            <4>1. end \in Nat
                BY <1>0, <1>1
            <4> QED
                BY <1>0, <1>1, <1>5, <2>1, <4>1
        <3>2. y <= n => j \in 1 .. f
            BY <1>0, <1>5, <3>1
        <3>3. x[j] = IF j <= f THEN m[j] ELSE IF j = f + 1 THEN Const(128)
                     ELSE IF j <= room - c THEN {} ELSE LowByte(ShiftRight(8 * f, 8 * (room - j)))
            BY <1>7, <3>1
        <3>4. PadByte(B, q, n, f, end, y)
                  = IF y <= n THEN {<<"m", base + y>>} ELSE IF y = n + 1 THEN Const(128)
                    ELSE IF y <= end - c THEN {} ELSE LowByte(ShiftRight(8 * f, 8 * (end - y)))
            BY <1>1 DEF PadByte, CountByte
        <3>5. x[j] = PadByte(B, q, n, f, end, y)
            <4>1. CASE y <= n
                <5>1. m[j] = {<<"m", base + y>>}
                    BY <1>4, <3>1, <3>2, <4>1
                <5> QED
                    BY <3>1, <3>3, <3>4, <4>1, <5>1
            <4>2. CASE ~(y <= n)
                BY <3>1, <3>3, <3>4, <4>2, Zenon
            <4> QED
                BY <4>1, <4>2
        <3> QED
            BY <3>1, <3>5
    <2> QED
        BY <2>1, <2>2 DEF At, TailBlock
<1>12. PICK b, d, y : b = Fulls(B, q) /\ d = PadTail(B, q, n, f) /\ y = BlocksOf(x, B)
    OBVIOUS
<1>13. b \o d = Joined(b, q, d, all)
    <2>1. Listed(b, q)
        BY <1>0, <1>12 DEF Listed, Fulls
    <2> QED
        BY <1>2, <1>5, <1>12, <2>1, JoinListed DEF AddsUp
<1>14. ASSUME NEW k \in 1 .. all PROVE y[k] = IF k <= q THEN b[k] ELSE d[k - q]
    <2>1. CASE k <= q
        <3>1. PICK h : h \in 0 .. q - 1 /\ h \in 0 .. all - 1 /\ h + 1 = k /\ k \in 1 .. q
            <4>1. k - 1 \in 0 .. q - 1 /\ k - 1 \in 0 .. all - 1 /\ (k - 1) + 1 = k /\ k \in 1 .. q
                BY <1>0, <1>2, <1>5, <2>1
            <4> QED
                BY <4>1
        <3> QED
            BY <1>9, <1>10, <1>12, <2>1, <3>1 DEF Fulls
    <2>2. CASE ~(k <= q)
        <3>1. PICK g, h : g \in 0 .. t - 1 /\ h = q + g /\ h \in 0 .. all - 1 /\ h + 1 = k /\ g + 1 = k - q
            <4>1. /\ k - q - 1 \in 0 .. t - 1 /\ q + (k - q - 1) \in 0 .. all - 1 /\ (q + (k - q - 1)) + 1 = k
                  /\ (k - q - 1) + 1 = k - q
                BY <1>0, <1>2, <1>5, <2>2
            <4> QED
                BY <4>1
        <3>2. y[k] = At(x, B, h)
            BY <1>9, <1>12, <3>1
        <3>3. d[k - q] = TailBlock(B, q, n, f, end, Whole(B, g))
            BY <1>2, <1>12, <3>1
        <3> QED
            BY <1>11, <2>2, <3>1, <3>2, <3>3
    <2> QED
        BY <2>1, <2>2
<1>15. y = Joined(b, q, d, all)
    <2>1. y = [k \in 1 .. all |-> y[k]]
        BY <1>9, <1>12 DEF Listed
    <2> QED
        BY <1>14, <2>1 DEF Joined
<1> QED
    BY <1>3, <1>8, <1>12, <1>13, <1>15

----------------------------------------------------------------------------
(***************************************************************************)
(* The two ways to pad.                                                    *)
(***************************************************************************)
LEMMA JoinTwo ==
    ASSUME NEW b, NEW n, Listed(b, n), NEW x, NEW y
    PROVE  /\ (b \o <<x>>) \o <<y>> = b \o <<x, y>>
           /\ b \o <<>> = b
<1>1. n \in Nat /\ b = [k \in 1 .. n |-> b[k]]
    BY DEF Listed
<1>2. PICK u, v, w, e : u = <<x>> /\ v = <<y>> /\ w = <<x, y>> /\ e = <<>>
    OBVIOUS
<1>3. /\ Listed(u, 1) /\ u[1] = x /\ Listed(v, 1) /\ v[1] = y
      /\ Listed(w, 2) /\ w[1] = x /\ w[2] = y /\ Listed(e, 0)
    BY <1>2 DEF Listed
<1>4. PICK n1, n2 : n1 = n + 1 /\ n2 = n + 2 /\ n2 = n1 + 1 /\ n1 \in Nat /\ n2 \in Nat
               /\ AddsUp(n, 1, n1) /\ AddsUp(n, 2, n2) /\ AddsUp(n1, 1, n2) /\ AddsUp(n, 0, n)
    BY <1>1 DEF AddsUp
<1>5. b \o u = Joined(b, n, u, n1) /\ Listed(Joined(b, n, u, n1), n1)
    BY <1>3, <1>4, JoinListed
<1>6. PICK c : c = Joined(b, n, u, n1)
    OBVIOUS
<1>7. c \o v = Joined(c, n1, v, n2)
    <2>1. Listed(c, n1) /\ Listed(v, 1) /\ AddsUp(n1, 1, n2)
        BY <1>3, <1>4, <1>5, <1>6
    <2>2. c \o v = Joined(c, n1, v, n2)
        BY ONLY <2>1, JoinListed
    <2> QED
        BY <2>2
<1>8. b \o w = Joined(b, n, w, n2)
    BY <1>3, <1>4, JoinListed
<1>9. b \o e = Joined(b, n, e, n)
    BY <1>3, <1>4, JoinListed
<1>10. Joined(b, n, e, n) = b
    BY <1>1 DEF Joined
<1>11. \A k \in 1 .. n2 : (IF k <= n1 THEN c[k] ELSE v[k - n1]) = IF k <= n THEN b[k] ELSE w[k - n]
    <2> TAKE k \in 1 .. n2
    <2>1. CASE k <= n
        <3>1. k <= n1 /\ k \in 1 .. n1
            BY <1>1, <1>4, <2>1
        <3> QED
            BY <1>6, <2>1, <3>1 DEF Joined
    <2>2. CASE k = n1
        <3>1. k - n = 1 /\ ~(k <= n) /\ k <= n1 /\ k \in 1 .. n1
            BY <1>1, <1>4, <2>2
        <3> QED
            BY <1>3, <1>6, <3>1 DEF Joined
    <2>3. CASE k = n2
        <3>1. k - n = 2 /\ ~(k <= n) /\ ~(k <= n1) /\ k - n1 = 1
            BY <1>1, <1>4, <2>3
        <3> QED
            BY <1>3, <3>1
    <2>4. k <= n \/ k = n1 \/ k = n2
        BY <1>1, <1>4
    <2> QED
        BY <2>1, <2>2, <2>3, <2>4
<1>12. Joined(c, n1, v, n2) = Joined(b, n, w, n2)
    BY <1>11 DEF Joined
<1> QED
    BY <1>2, <1>5, <1>6, <1>7, <1>8, <1>9, <1>10, <1>12

\* The parallel codes pad in place.
LEMMA InPlaceIs ==
    ASSUME NEW B, NEW q, NEW n, NEW f, ShaAt(B, q, n, f), Countable(f), NEW b, Listed(b, q),
           NEW s, s = ShaState(b, 8 * Whole(B, q)), NEW rest, rest = Message(Whole(B, q), f)
    PROVE  PadInPlace(s, rest, B).blocks = b \o PadTail(B, q, n, f)
<1>0. /\ B \in Nat \ {0} /\ B \in Nat /\ q \in Nat /\ n \in 0 .. B - 1 /\ n \in Nat
      /\ f \in Nat /\ f = Whole(B, q) + n
      /\ (B = 64 /\ B \div 8 = 8) \/ (B = 128 /\ B \div 8 = 16)
    BY ShaFacts
<1>1. PICK base, c : base = Whole(B, q) /\ base \in Nat /\ c = B \div 8 /\ c \in {8, 16}
    BY <1>0, ShaFacts
<1>2. s.blocks = b /\ s.n = 8 * base
    BY <1>1 DEF ShaState
<1>3. /\ PutAt(Zeros(B), 0, rest) = Laid(base, n, B) /\ Listed(Laid(base, n, B), B) /\ Len(rest) = n
    <2>1. base \in Nat /\ n \in Nat /\ B \in Nat /\ n <= B /\ f \in Nat /\ f = base + n
        BY <1>0, <1>1
    <2>2. /\ PutAt(Zeros(B), 0, Message(base, f)) = Laid(base, n, B) /\ Listed(Laid(base, n, B), B)
          /\ Len(Message(base, f)) = n
        BY ONLY <2>1, PutMessage
    <2> QED
        BY <1>1, <2>2
<1>4. PICK laid, x80, block : laid = Laid(base, n, B) /\ x80 = Const(128) /\ block = Marked(laid, B, n, x80)
    OBVIOUS
<1>5. PutAt(PutAt(Zeros(B), 0, rest), Len(rest), <<Const(128)>>) = block
    <2>1. n \in Nat /\ n < B /\ laid[n + 1] = {} /\ Listed(laid, B)
        BY <1>0, <1>3, <1>4 DEF Laid
    <2>2. PutAt(laid, n, <<x80>>) = Marked(laid, B, n, x80)
        BY <2>1, PutOne
    <2> QED
        BY <1>3, <1>4, <2>2
<1>6. \A i \in 1 .. B : block[i] = IF i <= n THEN {<<"m", base + i>>} ELSE IF i = n + 1 THEN x80 ELSE {}
    <2> TAKE i \in 1 .. B
    <2>1. laid[i] = IF i <= n THEN {<<"m", base + i>>} ELSE {}
        BY <1>4 DEF Laid
    <2>2. block[i] = IF i = n + 1 THEN SymDiff(laid[i], x80) ELSE laid[i]
        BY <1>4 DEF Marked
    <2>3. i = n + 1 => ~(i <= n)
        BY <1>0
    <2>4. SymDiff({}, x80) = x80
        BY ONLY XorNone
    <2> QED
        BY ONLY <2>1, <2>2, <2>3, <2>4
<1>7. Listed(block, B)
    BY <1>0, <1>4 DEF Listed, Marked
<1>8. s.n + 8 * Len(rest) = 8 * f
    <2>1. s.n = 8 * base /\ Len(rest) = n /\ base \in Nat /\ n \in Nat /\ f = base + n
        BY <1>0, <1>1, <1>2, <1>3
    <2> QED
        BY ONLY <2>1
<1>9. PICK count : count = [k \in 1 .. 8 |-> LowByte(ShiftRight(8 * f, 64 - 8 * k))]
    OBVIOUS
<1>10. DOMAIN count = 1 .. 8 /\ \A k \in 1 .. 8 : count[k] = CountByte(f, 8 - k)
    <2>1. \A k \in 1 .. 8 : 64 - 8 * k = 8 * (8 - k)
        OBVIOUS
    <2> QED
        BY <1>9, <2>1 DEF CountByte
<1>11. PICK under, last :
           /\ under = IF n >= B - c THEN Zeros(B) ELSE block
           /\ last = PutAt(under, B - 8, count)
    OBVIOUS
<1>12. PadInPlace(s, rest, B).blocks = (b \o (IF n >= B - c THEN <<block>> ELSE <<>>)) \o <<last>>
    <2>1. PadInPlace(s, rest, B)
              = [blocks |-> (s.blocks \o (IF n >= B - c THEN <<block>> ELSE <<>>)) \o <<last>>, n |-> 8 * f]
        BY <1>1, <1>3, <1>5, <1>8, <1>9, <1>11, Zenon DEF PadInPlace
    <2>2. PICK big : big = (s.blocks \o (IF n >= B - c THEN <<block>> ELSE <<>>)) \o <<last>>
        OBVIOUS
    <2>3. [blocks |-> big, n |-> 8 * f].blocks = big
        OBVIOUS
    <2> QED
        BY <1>2, <2>1, <2>2, <2>3, Zenon
<1>13. n >= B - c <=> ~(n + c < B)
    BY <1>0, <1>1
<1>14. ASSUME Listed(under, B)
       PROVE  last = [i \in 1 .. B |-> IF i <= B - 8 THEN under[i] ELSE CountByte(f, B - i)]
    <2>1. DOMAIN under = 1 .. B
        BY <1>14, ListedIs
    <2>2. \A i \in 1 .. B : (IF i - (B - 8) \in 1 .. 8 THEN count[i - (B - 8)] ELSE under[i])
                                = IF i <= B - 8 THEN under[i] ELSE CountByte(f, B - i)
        <3> TAKE i \in 1 .. B
        <3>1. CASE i <= B - 8
            <4>1. i - (B - 8) \notin 1 .. 8
                BY <1>0, <3>1
            <4> QED
                BY <3>1, <4>1
        <3>2. CASE ~(i <= B - 8)
            <4>1. i - (B - 8) \in 1 .. 8 /\ 8 - (i - (B - 8)) = B - i
                BY <1>0, <3>2
            <4> QED
                BY <1>10, <3>2, <4>1
        <3> QED
            BY <3>1, <3>2
    <2> QED
        BY <1>10, <1>11, <2>1, <2>2 DEF PutAt
<1>15. CASE n >= B - c
    <2>1. under = Zeros(B) /\ ~(n + B \div 8 < B) /\ n >= B - c
        BY <1>1, <1>11, <1>13, <1>15
    <2>2. Listed(under, B) /\ \A i \in 1 .. B : under[i] = {}
        BY <1>0, <2>1 DEF Zeros, Listed
    <2>3. block = TailBlock(B, q, n, f, 2 * B, 0)
        <3>1. \A i \in 1 .. B : block[i] = PadByte(B, q, n, f, 2 * B, 0 + i)
            <4> TAKE i \in 1 .. B
            <4>1. 0 + i = i /\ i <= 2 * B - c
                BY <1>0, <1>1
            <4> QED
                BY <1>1, <1>4, <1>6, <4>1 DEF PadByte
        <3> QED
            BY <1>7, <3>1 DEF TailBlock, Listed
    <2>4. last = TailBlock(B, q, n, f, 2 * B, B)
        <3>1. \A i \in 1 .. B : (IF i <= B - 8 THEN under[i] ELSE CountByte(f, B - i)) = PadByte(B, q, n, f, 2 * B, B + i)
            <4> TAKE i \in 1 .. B
            <4>1. /\ ~(B + i <= n) /\ B + i # n + 1 /\ (B + i <= 2 * B - c <=> i <= B - c)
                  /\ 2 * B - (B + i) = B - i /\ B - i \in Nat
                BY <1>0, <1>1
            <4>2. PadByte(B, q, n, f, 2 * B, B + i) = IF i <= B - c THEN {} ELSE CountByte(f, B - i)
                BY <1>1, <4>1 DEF PadByte
            <4>3. CASE i <= B - c
                <5>1. i <= B - 8
                    BY <1>0, <1>1, <4>3
                <5> QED
                    BY <2>2, <4>2, <4>3, <5>1
            <4>4. CASE ~(i <= B - c) /\ i <= B - 8
                <5>1. B - i >= 8
                    BY <1>0, <4>4
                <5>2. CountByte(f, B - i) = {}
                    BY <1>0, <4>1, <5>1, CountByteIs
                <5> QED
                    BY <2>2, <4>2, <4>4, <5>2
            <4>5. CASE ~(i <= B - c) /\ ~(i <= B - 8)
                BY <4>2, <4>5
            <4> QED
                BY <4>3, <4>4, <4>5
        <3> QED
            BY <1>14, <2>2, <3>1 DEF TailBlock
    <2>5. (b \o <<block>>) \o <<last>> = b \o <<block, last>>
        BY JoinTwo
    <2> QED
        BY <1>12, <1>15, <2>1, <2>3, <2>4, <2>5 DEF PadTail
<1>16. CASE ~(n >= B - c)
    <2>1. under = block /\ n + B \div 8 < B /\ n + c < B
        BY <1>1, <1>11, <1>13, <1>16
    <2>2. last = TailBlock(B, q, n, f, B, 0)
        <3>1. \A i \in 1 .. B : (IF i <= B - 8 THEN under[i] ELSE CountByte(f, B - i)) = PadByte(B, q, n, f, B, 0 + i)
            <4> TAKE i \in 1 .. B
            <4>1. 0 + i = i /\ B - i \in Nat
                BY <1>0
            <4>2. PadByte(B, q, n, f, B, i)
                      = IF i <= n THEN {<<"m", base + i>>} ELSE IF i = n + 1 THEN x80
                        ELSE IF i <= B - c THEN {} ELSE CountByte(f, B - i)
                BY <1>1, <1>4 DEF PadByte
            <4>3. CASE i <= n + 1
                <5>1. i <= B - 8
                    BY <1>0, <1>1, <2>1, <4>3
                <5>2. i <= n \/ i = n + 1
                    BY <1>0, <4>3
                <5> QED
                    BY <1>6, <2>1, <4>1, <4>2, <5>1, <5>2
            <4>4. CASE ~(i <= n + 1) /\ i <= B - 8
                <5>1. ~(i <= n) /\ i # n + 1
                    BY <1>0, <4>4
                <5>2. under[i] = {}
                    BY <1>6, <2>1, <5>1
                <5>3. B - i >= 8
                    BY <1>0, <4>4
                <5>4. CountByte(f, B - i) = {}
                    BY <1>0, <4>1, <5>3, CountByteIs
                <5> QED
                    BY <4>1, <4>2, <4>4, <5>1, <5>2, <5>4
            <4>5. CASE ~(i <= n + 1) /\ ~(i <= B - 8)
                <5>1. ~(i <= n) /\ i # n + 1 /\ ~(i <= B - c)
                    BY <1>0, <1>1, <4>5
                <5> QED
                    BY <4>1, <4>2, <4>5, <5>1
            <4> QED
                BY <4>3, <4>4, <4>5
        <3> QED
            BY <1>7, <1>14, <2>1, <3>1 DEF TailBlock
    <2>3. b \o <<>> = b
        BY JoinTwo
    <2> QED
        BY <1>12, <1>16, <2>1, <2>2, <2>3 DEF PadTail
<1> QED
    BY <1>15, <1>16

\* The incremental codes pad beside the state.
Space(B, n, l, space) ==
    space \in Nat /\ l \in {8, 9} /\ l <= B \div 8 /\ Ends(B, n) = n + 1 + space + l

LEMMA BesideIs ==
    ASSUME NEW B, NEW q, NEW n, NEW f, ShaAt(B, q, n, f), Countable(f),
           NEW l, NEW space, Space(B, n, l, space),
           NEW cnt, Listed(cnt, l), \A i \in 1 .. l : cnt[i] = CountByte(f, l - i)
    PROVE  BlocksOf(((Message(Whole(B, q), f) \o <<Const(128)>>) \o Zeros(space)) \o cnt, B) = PadTail(B, q, n, f)
<1>0. /\ B \in Nat \ {0} /\ B \in Nat /\ q \in Nat /\ n \in 0 .. B - 1 /\ n \in Nat
      /\ f \in Nat /\ f = Whole(B, q) + n
      /\ (B = 64 /\ B \div 8 = 8) \/ (B = 128 /\ B \div 8 = 16)
    BY ShaFacts
<1>1. PICK base, c, end :
         /\ base = Whole(B, q) /\ base \in Nat /\ c = B \div 8 /\ c \in {8, 16}
         /\ end = Ends(B, n) /\ end = n + 1 + space + l /\ space \in Nat /\ l \in {8, 9} /\ l <= c
    BY <1>0, ShaFacts DEF Space
<1>2. PICK rest, one, zeros, n1, n2 :
         /\ rest = Message(base, f) /\ one = <<Const(128)>> /\ zeros = Zeros(space)
         /\ n1 = n + 1 /\ n2 = n1 + space /\ end = n2 + l /\ n1 \in Nat /\ n2 \in Nat /\ end \in Nat
         /\ AddsUp(n, 1, n1) /\ AddsUp(n1, space, n2) /\ AddsUp(n2, l, end)
    <2>1. n + 1 + space \in Nat /\ n + 1 \in Nat /\ n + 1 + space = (n + 1) + space
        BY <1>0, <1>1
    <2>2. end = (n + 1) + space + l /\ end \in Nat
        BY <1>0, <1>1
    <2> QED
        BY <2>1, <2>2 DEF AddsUp
<1>3. Listed(rest, n) /\ \A i \in 1 .. n : rest[i] = {<<"m", base + i>>}
    <2>1. base <= f /\ f - base = n /\ base \in Nat /\ f \in Nat
        BY <1>0, <1>1
    <2>2. /\ Message(base, f) = [i \in 1 .. f - base |-> Message(base, f)[i]]
          /\ \A i \in 1 .. f - base : Message(base, f)[i] = {<<"m", base + i>>}
        BY ONLY <2>1, MessageIs
    <2> QED
        BY <1>0, <1>2, <2>1, <2>2 DEF Listed
<1>4. Listed(one, 1) /\ one[1] = Const(128) /\ Listed(zeros, space) /\ \A i \in 1 .. space : zeros[i] = {}
    BY <1>1, <1>2 DEF Listed, Zeros
<1>5. PICK x1, x2, x3 : x1 = Joined(rest, n, one, n1) /\ x2 = Joined(x1, n1, zeros, n2) /\ x3 = Joined(x2, n2, cnt, end)
    OBVIOUS
<1>6. rest \o one = x1 /\ Listed(x1, n1)
    <2>1. Listed(rest, n) /\ Listed(one, 1) /\ AddsUp(n, 1, n1)
        BY <1>2, <1>3, <1>4
    <2>2. rest \o one = Joined(rest, n, one, n1) /\ Listed(Joined(rest, n, one, n1), n1)
        BY ONLY <2>1, JoinListed
    <2> QED
        BY <1>5, <2>2
<1>7. x1 \o zeros = x2 /\ Listed(x2, n2)
    <2>1. Listed(x1, n1) /\ Listed(zeros, space) /\ AddsUp(n1, space, n2)
        BY <1>2, <1>4, <1>6
    <2>2. x1 \o zeros = Joined(x1, n1, zeros, n2) /\ Listed(Joined(x1, n1, zeros, n2), n2)
        BY ONLY <2>1, JoinListed
    <2> QED
        BY <1>5, <2>2
<1>8. x2 \o cnt = x3 /\ Listed(x3, end)
    <2>1. Listed(x2, n2) /\ Listed(cnt, l) /\ AddsUp(n2, l, end)
        BY <1>2, <1>7
    <2>2. x2 \o cnt = Joined(x2, n2, cnt, end) /\ Listed(Joined(x2, n2, cnt, end), end)
        BY ONLY <2>1, JoinListed
    <2> QED
        BY <1>5, <2>2
<1>9. ASSUME NEW i \in 1 .. end PROVE x3[i] = PadByte(B, q, n, f, end, i)
    <2>1. PadByte(B, q, n, f, end, i)
              = IF i <= n THEN {<<"m", base + i>>} ELSE IF i = n1 THEN Const(128)
                ELSE IF i <= end - c THEN {} ELSE CountByte(f, end - i)
        BY <1>1, <1>2 DEF PadByte
    <2>2. CASE i <= n
        <3>1. i <= n2 /\ i <= n1 /\ i \in 1 .. n2 /\ i \in 1 .. n1 /\ i \in 1 .. n
            BY <1>0, <1>1, <1>2, <2>2
        <3> QED
            BY <1>3, <1>5, <2>1, <2>2, <3>1 DEF Joined
    <2>3. CASE i = n1
        <3>1. i <= n2 /\ i <= n1 /\ i \in 1 .. n2 /\ i \in 1 .. n1 /\ ~(i <= n) /\ i - n = 1
            BY <1>0, <1>1, <1>2, <2>3
        <3> QED
            BY <1>4, <1>5, <2>1, <3>1, <2>3 DEF Joined
    <2>4. CASE n1 < i /\ i <= n2
        <3>1. i \in 1 .. n2 /\ ~(i <= n1) /\ i # n1 /\ ~(i <= n) /\ i - n1 \in 1 .. space
            BY <1>0, <1>1, <1>2, <2>4
        <3>2. x3[i] = {}
            BY <1>4, <1>5, <2>4, <3>1 DEF Joined
        <3>3. end - i \in Nat /\ end - i >= 8
            BY <1>1, <1>2, <2>4
        <3>4. CountByte(f, end - i) = {}
            BY <1>0, <3>3, CountByteIs
        <3> QED
            BY <2>1, <3>1, <3>2, <3>4
    <2>5. CASE n2 < i
        <3>1. /\ i - n2 \in 1 .. l /\ ~(i <= n2) /\ i # n1 /\ ~(i <= n) /\ l - (i - n2) = end - i
              /\ ~(i <= end - c)
            BY <1>0, <1>1, <1>2, <2>5
        <3>2. x3[i] = CountByte(f, end - i)
            <4>1. cnt[i - n2] = CountByte(f, l - (i - n2))
                BY <3>1
            <4> QED
                BY <1>5, <3>1, <4>1 DEF Joined
        <3> QED
            BY <2>1, <3>1, <3>2
    <2>6. i <= n \/ i = n1 \/ (n1 < i /\ i <= n2) \/ n2 < i
        BY <1>0, <1>2
    <2> QED
        BY <2>2, <2>3, <2>4, <2>5, <2>6
<1>10. BlocksOf(x3, B) = PadTail(B, q, n, f)
    BY <1>1, <1>8, <1>9, TailIs
<1> QED
    BY <1>1, <1>2, <1>6, <1>7, <1>8, <1>10

----------------------------------------------------------------------------
(***************************************************************************)
(* The SHA-2 codes, incremental and parallel.                              *)
(***************************************************************************)
LEMMA HashBlocksIs ==
    ASSUME NEW s, NEW b, NEW n, s = ShaState(b, n), NEW m, NEW B
    PROVE  /\ s.blocks = b /\ s.n = n
           /\ crypto_hashblocks(s, m, B) = ShaState(b \o BlocksOf(m, B), n)
<1>1. s.blocks = b /\ s.n = n
    BY DEF ShaState
<1>2. PICK x : x = s.blocks \o BlocksOf(m, B)
    OBVIOUS
<1>3. crypto_hashblocks(s, m, B) = [s EXCEPT !.blocks = x]
    BY <1>2, Zenon DEF crypto_hashblocks
<1>4. [s EXCEPT !.blocks = x] = ShaState(x, n)
    BY DEF ShaState
<1> QED
    BY <1>1, <1>2, <1>3, <1>4

ShaFed(B, q) == ShaState(Fulls(B, q), Whole(B, q))

\* Whole blocks, as the incremental codes take them.
LEMMA ShaBlocksIs ==
    ASSUME NEW B, NEW q, NEW v, NEW from, NEW to, Spans(B, q, v, 0, from, to)
    PROVE  /\ B = 64 => sha256_inc_blocks(ShaFed(B, q), Message(from, to)) = ShaFed(B, q + v)
           /\ B = 128 => sha512_inc_blocks(ShaFed(B, q), Message(from, to)) = ShaFed(B, q + v)
<1>0. /\ B \in Nat \ {0} /\ q \in Nat /\ v \in Nat
      /\ from \in Nat /\ from = Whole(B, q) /\ to = Whole(B, q + v) + 0
    BY DEF Spans
<1>1. PICK s, b, n, m : s = ShaState(b, n) /\ b = Fulls(B, q) /\ n = Whole(B, q) /\ m = Message(from, to) /\ s = ShaFed(B, q)
    BY DEF ShaFed
<1>2. Len(m) = Whole(B, v) + 0 /\ BlocksOf(m, B) = BlocksFrom(B, q, v)
    BY <1>1, MessageBlocks
<1>3. s.n = n /\ crypto_hashblocks(s, m, B) = ShaState(b \o BlocksOf(m, B), n)
    <2>1. s = ShaState(b, n)
        BY <1>1
    <2> QED
        BY ONLY <2>1, HashBlocksIs
<1>4. PICK all : Sums(q, v, all) /\ all = q + v /\ b \o BlocksOf(m, B) = Fulls(B, all)
    <2>1. PICK all : Sums(q, v, all) /\ all = q + v
        BY <1>0 DEF Sums
    <2>2. Fulls(B, q) \o BlocksFrom(B, q, v) = Fulls(B, all)
        BY <2>1, FullsJoin
    <2> QED
        BY <1>1, <1>2, <2>1, <2>2
<1>5. PICK x, y, z : x = Fulls(B, all) /\ y = ShaState(x, n) /\ z = crypto_hashblocks(s, m, B) /\ z = y
    BY <1>3, <1>4
<1>6. y.n = n /\ WithCount(y, n + Len(m)) = ShaState(x, n + Len(m))
    BY <1>5 DEF WithCount, ShaState
<1>7. n + Len(m) = Whole(B, q + v)
    <2>1. Whole(B, q + v) = Whole(B, q) + Whole(B, v) /\ Whole(B, q) \in Nat /\ Whole(B, v) \in Nat
        BY <1>0, WholeSum, WholeIs
    <2> QED
        BY <1>1, <1>2, <2>1
<1>8. ASSUME B = 64 PROVE sha256_inc_blocks(s, m) = WithCount(z, z.n + Len(m))
    BY <1>5, <1>8, Zenon DEF sha256_inc_blocks, WithCount
<1>9. ASSUME B = 128 PROVE sha512_inc_blocks(s, m) = WithCount(z, z.n + Len(m))
    BY <1>5, <1>9, Zenon DEF sha512_inc_blocks, WithCount
<1>10. WithCount(z, z.n + Len(m)) = ShaFed(B, q + v)
    BY <1>4, <1>5, <1>6, <1>7 DEF ShaFed
<1> QED
    BY <1>1, <1>8, <1>9, <1>10

\* What both finalizers do, for the way they fill.
LEMMA ShaFinalIs ==
    ASSUME NEW B, NEW q, NEW v, NEW n, NEW from, NEW to, Spans(B, q, v, n, from, to), B \in {64, 128}, Countable(to),
           NEW s, s = ShaFed(B, q), NEW in, in = Message(from, to),
           NEW l, NEW space, Space(B, n, l, space),
           NEW cnt, Listed(cnt, l), \A i \in 1 .. l : cnt[i] = CountByte(to, l - i)
    PROVE  crypto_hashblocks(crypto_hashblocks(s, in, B),
                             ((RestOf(in, B) \o <<Const(128)>>) \o Zeros(space)) \o cnt, B).blocks
               = StandardSha(Message(0, to), B)
<1>0. /\ B \in Nat \ {0} /\ q \in Nat /\ v \in Nat /\ n \in 0 .. B - 1 /\ q + v \in Nat
      /\ from \in Nat /\ from = Whole(B, q) /\ to \in Nat /\ to = Whole(B, q + v) + n
    BY DEF Spans
<1>1. PICK all : all = q + v /\ all \in Nat /\ Sums(q, v, all)
    BY <1>0 DEF Sums
<1>2. ShaAt(B, all, n, to)
    BY <1>0, <1>1 DEF ShaAt
<1>3. PICK b, c : b = Fulls(B, q) /\ c = Whole(B, q) /\ s = ShaState(b, c)
    BY DEF ShaFed
<1>4. BlocksOf(in, B) = BlocksFrom(B, q, v) /\ RestOf(in, B) = Message(Whole(B, all), to)
    BY <1>1, MessageBlocks
<1>5. crypto_hashblocks(s, in, B) = ShaState(Fulls(B, all), c)
    <2>1. crypto_hashblocks(s, in, B) = ShaState(b \o BlocksOf(in, B), c)
        BY <1>3, HashBlocksIs
    <2>2. Fulls(B, q) \o BlocksFrom(B, q, v) = Fulls(B, all)
        BY ONLY <1>1, FullsJoin
    <2> QED
        BY <1>3, <1>4, <2>1, <2>2
<1>6. PICK x, y, padded : /\ x = Fulls(B, all) /\ y = ShaState(x, c)
                          /\ padded = ((Message(Whole(B, all), to) \o <<Const(128)>>) \o Zeros(space)) \o cnt
    OBVIOUS
<1>7. BlocksOf(padded, B) = PadTail(B, all, n, to)
    BY <1>2, <1>6, BesideIs
<1>8. crypto_hashblocks(y, padded, B) = ShaState(x \o BlocksOf(padded, B), c)
    BY <1>6, HashBlocksIs
<1>9. StandardSha(Message(0, to), B) = Fulls(B, all) \o PadTail(B, all, n, to)
    BY <1>2, StandardShaIs
<1>10. crypto_hashblocks(y, padded, B).blocks = x \o BlocksOf(padded, B)
    BY <1>8 DEF ShaState
<1> QED
    BY <1>4, <1>5, <1>6, <1>7, <1>9, <1>10

\* The finalizers find the space the padding leaves.
LEMMA Sha256FinalIs ==
    ASSUME NEW q, NEW v, NEW n, NEW from, NEW to, Spans(64, q, v, n, from, to), Countable(to)
    PROVE  sha256_inc_finalize(ShaFed(64, q), Message(from, to)).blocks = StandardSha(Message(0, to), 64)
<1>0. /\ q \in Nat /\ v \in Nat /\ n \in 0 .. 63 /\ q + v \in Nat
      /\ from \in Nat /\ from = Whole(64, q) /\ to \in Nat /\ to = Whole(64, q + v) + n
    BY DEF Spans
<1>1. PICK s, in, rest : s = ShaFed(64, q) /\ in = Message(from, to) /\ rest = RestOf(in, 64)
    OBVIOUS
<1>2. Len(in) = Whole(64, v) + n /\ rest = Message(Whole(64, q + v), to)
    BY <1>1, MessageBlocks
<1>3. s.n + Len(in) = to
    <2>1. s.n = Whole(64, q)
        BY <1>1 DEF ShaFed, ShaState
    <2>2. Whole(64, q + v) = Whole(64, q) + Whole(64, v) /\ Whole(64, q) \in Nat /\ Whole(64, v) \in Nat
        BY <1>0, WholeSum, WholeIs, 64 \in Nat
    <2> QED
        BY <1>0, <1>2, <2>1, <2>2
<1>4. Len(rest) = n
    <2>1. PICK z \in Nat : z = Whole(64, q + v)
        BY <1>0, WholeIs, 64 \in Nat
    <2>2. z <= to /\ to - z = n
        BY <1>0, <2>1
    <2>3. Len(Message(z, to)) = to - z
        BY <1>0, <2>2, MessageIs
    <2> QED
        BY <1>2, <2>1, <2>2, <2>3
<1>5. PICK space, cnt : space = (IF n < 56 THEN 55 - n ELSE 119 - n) /\ cnt = CountBytes(to, 53)
    OBVIOUS
<1>6. Listed(cnt, 8) /\ \A i \in 1 .. 8 : cnt[i] = CountByte(to, 8 - i)
    BY <1>0, <1>5, CountBytesAre
<1>7. Space(64, n, 8, space)
    BY <1>0, <1>5 DEF Space, Ends
<1>8. sha256_inc_finalize(s, in)
          = crypto_hashblocks(crypto_hashblocks(s, in, 64), ((rest \o <<Const(128)>>) \o Zeros(space)) \o cnt, 64)
    <2>1. sha256_inc_finalize(s, in)
              = crypto_hashblocks(crypto_hashblocks(s, in, 64),
                    ((rest \o <<Const(128)>>) \o Zeros(IF Len(rest) < 56 THEN 55 - Len(rest) ELSE 119 - Len(rest)))
                        \o CountBytes(s.n + Len(in), 53), 64)
        BY <1>1, Zenon DEF sha256_inc_finalize
    <2> QED
        BY <1>3, <1>4, <1>5, <2>1, Zenon
<1> QED
    BY <1>1, <1>6, <1>7, <1>8, ShaFinalIs, 64 \in {64, 128}

LEMMA Sha512FinalIs ==
    ASSUME NEW q, NEW v, NEW n, NEW from, NEW to, Spans(128, q, v, n, from, to), Countable(to)
    PROVE  sha512_inc_finalize(ShaFed(128, q), Message(from, to)).blocks = StandardSha(Message(0, to), 128)
<1>0. /\ q \in Nat /\ v \in Nat /\ n \in 0 .. 127 /\ q + v \in Nat
      /\ from \in Nat /\ from = Whole(128, q) /\ to \in Nat /\ to = Whole(128, q + v) + n
    BY DEF Spans
<1>1. PICK s, in, rest : s = ShaFed(128, q) /\ in = Message(from, to) /\ rest = RestOf(in, 128)
    OBVIOUS
<1>2. Len(in) = Whole(128, v) + n /\ rest = Message(Whole(128, q + v), to)
    BY <1>1, MessageBlocks
<1>3. s.n + Len(in) = to
    <2>1. s.n = Whole(128, q)
        BY <1>1 DEF ShaFed, ShaState
    <2>2. Whole(128, q + v) = Whole(128, q) + Whole(128, v) /\ Whole(128, q) \in Nat /\ Whole(128, v) \in Nat
        BY <1>0, WholeSum, WholeIs, 128 \in Nat
    <2> QED
        BY <1>0, <1>2, <2>1, <2>2
<1>4. Len(rest) = n
    <2>1. PICK z \in Nat : z = Whole(128, q + v)
        BY <1>0, WholeIs, 128 \in Nat
    <2>2. z <= to /\ to - z = n
        BY <1>0, <2>1
    <2>3. Len(Message(z, to)) = to - z
        BY <1>0, <2>2, MessageIs
    <2> QED
        BY <1>2, <2>1, <2>2, <2>3
<1>5. PICK space, cnt : space = (IF n < 112 THEN 118 - n ELSE 246 - n) /\ cnt = CountBytes(to, 61)
    OBVIOUS
<1>6. Listed(cnt, 9) /\ \A i \in 1 .. 9 : cnt[i] = CountByte(to, 9 - i)
    BY <1>0, <1>5, CountBytesAre
<1>7. Space(128, n, 9, space)
    BY <1>0, <1>5 DEF Space, Ends
<1>8. sha512_inc_finalize(s, in)
          = crypto_hashblocks(crypto_hashblocks(s, in, 128), ((rest \o <<Const(128)>>) \o Zeros(space)) \o cnt, 128)
    <2>1. sha512_inc_finalize(s, in)
              = crypto_hashblocks(crypto_hashblocks(s, in, 128),
                    ((rest \o <<Const(128)>>) \o Zeros(IF Len(rest) < 112 THEN 118 - Len(rest) ELSE 246 - Len(rest)))
                        \o CountBytes(s.n + Len(in), 61), 128)
        BY <1>1, SMTT(30) DEF sha512_inc_finalize
    <2> QED
        BY <1>3, <1>4, <1>5, <2>1, Zenon
<1> QED
    BY <1>1, <1>6, <1>7, <1>8, ShaFinalIs, 128 \in {64, 128}

\* The parallel codes: whole blocks after q of them, and the rest in place.
LEMMA ShaWholeIs ==
    ASSUME NEW B, NEW q, NEW v, NEW n, NEW from, NEW to, Spans(B, q, v, n, from, to), B \in {64, 128}, Countable(to),
           NEW s, s = ShaState(Fulls(B, q), 8 * Whole(B, q)), NEW m, m = Message(from, to)
    PROVE  PadInPlace(AbsorbWhole(s, m, B), RestOf(m, B), B).blocks = StandardSha(Message(0, to), B)
<1>0. /\ B \in Nat \ {0} /\ q \in Nat /\ v \in Nat /\ n \in 0 .. B - 1 /\ q + v \in Nat
      /\ from \in Nat /\ from = Whole(B, q) /\ to \in Nat /\ to = Whole(B, q + v) + n
    BY DEF Spans
<1>1. PICK all : all = q + v /\ all \in Nat /\ Sums(q, v, all)
    BY <1>0 DEF Sums
<1>2. ShaAt(B, all, n, to)
    BY <1>0, <1>1 DEF ShaAt
<1>3. /\ BlocksOf(m, B) = BlocksFrom(B, q, v) /\ RestOf(m, B) = Message(Whole(B, all), to)
      /\ Len(m) \div B = v
    BY <1>1, MessageBlocks
<1>4. s.blocks = Fulls(B, q) /\ s.n = 8 * Whole(B, q)
    BY DEF ShaState
<1>5. s.n + 8 * B * (Len(m) \div B) = 8 * Whole(B, all)
    <2>1. Whole(B, all) = Whole(B, q) + Whole(B, v) /\ Whole(B, q) \in Nat /\ Whole(B, v) \in Nat
        BY <1>0, <1>1, WholeSum, WholeIs
    <2>2. 8 * B * v = 8 * Whole(B, v)
        <3>1. CASE B = 64
            BY <1>0, <3>1 DEF Whole
        <3>2. CASE B = 128
            BY <1>0, <3>2 DEF Whole
        <3> QED
            BY <3>1, <3>2
    <2> QED
        BY <1>3, <1>4, <2>1, <2>2
<1>6. s.blocks \o BlocksOf(m, B) = Fulls(B, all)
    <2>1. Fulls(B, q) \o BlocksFrom(B, q, v) = Fulls(B, all)
        BY <1>1, FullsJoin
    <2> QED
        BY <1>3, <1>4, <2>1
<1>7. PICK x, b, rest : x = ShaState(b, 8 * Whole(B, all)) /\ b = Fulls(B, all) /\ rest = Message(Whole(B, all), to)
    OBVIOUS
<1>8. AbsorbWhole(s, m, B) = x
    BY <1>5, <1>6, <1>7 DEF AbsorbWhole, ShaState
<1>9. Listed(b, all)
    BY <1>1, <1>7 DEF Listed, Fulls
<1>10. PadInPlace(x, rest, B).blocks = b \o PadTail(B, all, n, to)
    <2>1. /\ ShaAt(B, all, n, to) /\ Countable(to) /\ Listed(b, all) /\ x = ShaState(b, 8 * Whole(B, all))
          /\ rest = Message(Whole(B, all), to)
        BY <1>2, <1>7, <1>9
    <2> QED
        BY ONLY <2>1, InPlaceIs
<1>11. StandardSha(Message(0, to), B) = Fulls(B, all) \o PadTail(B, all, n, to)
    BY <1>2, StandardShaIs
<1> QED
    BY <1>3, <1>7, <1>8, <1>10, <1>11

----------------------------------------------------------------------------
(***************************************************************************)
(* The calls: their names, their lengths, and what is counted in 64 bits.  *)
(***************************************************************************)
LEMMA ShiftMonotone ==
    ASSUME NEW v \in Nat, NEW w \in Nat, v <= w, NEW k \in Nat
    PROVE  ShiftRight(v, k) <= ShiftRight(w, k)
<1> DEFINE S == {j \in Nat : ShiftRight(v, j) <= ShiftRight(w, j)}
<1>1. 0 \in S
    BY ShiftIs
<1>2. ASSUME NEW j \in Nat, j \in S PROVE j + 1 \in S
    <2>1. PICK x, y : x = ShiftRight(v, j) /\ y = ShiftRight(w, j) /\ x \in Nat /\ y \in Nat /\ x <= y
        BY <1>2, ShiftNat
    <2>2. x \div 2 <= y \div 2
        BY <2>1
    <2>3. ShiftRight(v, j + 1) = x \div 2 /\ ShiftRight(w, j + 1) = y \div 2
        BY <2>1, ShiftIs
    <2> QED
        BY <2>2, <2>3
<1> HIDE DEF S
<1>3. Nat \subseteq S
    BY <1>1, <1>2, Induct
<1> QED
    BY <1>3 DEF S

LEMMA CountableLess ==
    ASSUME NEW v \in Nat, NEW w \in Nat, v <= w, Countable(w)
    PROVE  Countable(v)
<1>1. ShiftRight(v, 61) <= ShiftRight(w, 61) /\ ShiftRight(v, 61) \in Nat /\ ShiftRight(w, 61) = 0
    BY ShiftMonotone, ShiftNat, 61 \in Nat DEF Countable
<1> QED
    BY <1>1 DEF Countable

Sponges == {"shake256_inc", "haraka_S_inc"}
Shas    == {"sha256_inc", "sha512_inc"}

\* Which code is of which kind.
LEMMA Names ==
    /\ OfSponge = Sponges \cup {"shake256", "shake256x4", "shake256x2", "shake128x4", "shake128x2", "haraka_S", "haraka_Sx4"}
    /\ OfSha = Shas \cup {"sha256", "sha512", "sha256x8", "sha256x8_seeded", "sha512x4_seeded"}
    /\ OfSponge \cap OfSha = {}
    /\ Sponges \cap Shas = {} /\ Incremental = Sponges \cup Shas
<1>1. OfSponge = Sponges \cup {"shake256", "shake256x4", "shake256x2", "shake128x4", "shake128x2", "haraka_S", "haraka_Sx4"}
    BY DEF OfSponge, SpongeRate, Sponges
<1>2. OfSha = Shas \cup {"sha256", "sha512", "sha256x8", "sha256x8_seeded", "sha512x4_seeded"}
    BY DEF OfSha, ShaBlock, Shas
<1> QED
    BY <1>1, <1>2 DEF Sponges, Shas, Incremental

LEMMA Sizes ==
    /\ SpongeRate["shake256_inc"] = 136 /\ SpongeRate["haraka_S_inc"] = 32
    /\ SpongeRate["shake256"] = 136 /\ SpongeRate["shake256x4"] = 136 /\ SpongeRate["shake256x2"] = 136
    /\ SpongeRate["shake128x4"] = 168 /\ SpongeRate["shake128x2"] = 168
    /\ SpongeRate["haraka_S"] = 32 /\ SpongeRate["haraka_Sx4"] = 32
    /\ ShaBlock["sha256_inc"] = 64 /\ ShaBlock["sha512_inc"] = 128
    /\ ShaBlock["sha256"] = 64 /\ ShaBlock["sha512"] = 128 /\ ShaBlock["sha256x8"] = 64
    /\ ShaBlock["sha256x8_seeded"] = 64 /\ ShaBlock["sha512x4_seeded"] = 128
    BY DEF SpongeRate, ShaBlock, SHAKE256_RATE, SHAKE128_RATE, HARAKAS_RATE

LEMMA Lengths ==
    /\ \A a \in OfSponge : /\ SpongeRate[a] \in Nat \ {0}
                           /\ \A k \in Pieces[SpongeRate[a]] : k \in Nat
                           /\ \A k \in Wholes[SpongeRate[a]] : k \in Nat
    /\ \A a \in OfSha : /\ ShaBlock[a] \in {64, 128}
                        /\ \A k \in Pieces[ShaBlock[a]] : k \in Nat
                        /\ \A k \in Wholes[ShaBlock[a]] : k \in Nat
<1>1. ASSUME NEW z \in BlockSizes
      PROVE  z \in Nat \ {0} /\ (\A k \in Pieces[z] : k \in Nat) /\ \A k \in Wholes[z] : k \in Nat
    BY LengthsAssumption DEF BlockSizes
<1>2. \A a \in OfSponge : SpongeRate[a] \in BlockSizes
    BY Names, Sizes DEF BlockSizes, Sponges
<1>3. \A a \in OfSha : ShaBlock[a] \in BlockSizes /\ ShaBlock[a] \in {64, 128}
    BY Names, Sizes DEF BlockSizes, Shas
<1> QED
    BY <1>1, <1>2, <1>3

----------------------------------------------------------------------------
(***************************************************************************)
(* The inductive invariant: what an incremental stream has in its state    *)
(* after so many bytes, and after so many bytes of output; a code that     *)
(* hashes at one go leaves what the standard says.                         *)
(***************************************************************************)
Standard(a, s, f, out) ==
    IF a \in OfSponge THEN SpongeStandard(s, SpongeRate[a], f, out)
    ELSE s.blocks = StandardSha(Message(0, f), ShaBlock[a])

Absorbs(r, s, f) == \E q, n : Whence(r, q, n, f) /\ s = Fed(r, q, n)
AbsorbsBlocks(B, s, f) == \E q \in Nat : f = Whole(B, q) /\ s = ShaFed(B, q)
Squeezes(r, s, f, out) ==
    \E q, n, p, left, o : /\ Whence(r, q, n, f) /\ Taken(r, p, left, o)
                          /\ s = Squeezed(r, q, n, p, left) /\ out = OutBytes(r, q, 0, o)

StreamsInv ==
    /\ sApi \in OfSponge \cup OfSha
    /\ sPhase \in {"absorbing", "squeezing"}
    /\ sPhase = "absorbing" /\ sApi \in Sponges => Absorbs(SpongeRate[sApi], sState, sFed) /\ sOut = <<>>
    /\ sPhase = "absorbing" /\ sApi \in Shas => AbsorbsBlocks(ShaBlock[sApi], sState, sFed)
    /\ sPhase = "squeezing" /\ sApi \in Sponges => Squeezes(SpongeRate[sApi], sState, sFed, sOut)
    /\ sPhase = "squeezing" /\ sApi \notin Sponges => Standard(sApi, sState, sFed, sOut)

\* One more call, of any length.
LEMMA AbsorbsMore ==
    ASSUME NEW r \in Nat \ {0}, NEW s, NEW f, Absorbs(r, s, f), NEW k \in Nat
    PROVE  Absorbs(r, keccak_inc_absorb(s, r, Message(f, f + k)), f + k)
<1>1. PICK q, n : Whence(r, q, n, f) /\ s = Fed(r, q, n)
    BY DEF Absorbs
<1>2. q \in Nat /\ n \in 0 .. r - 1 /\ f \in Nat /\ f = Whole(r, q) + n
    BY <1>1 DEF Whence
<1>3. PICK x, v, e : x = k + n /\ x \in Nat /\ v = x \div r /\ e = x % r /\ v \in Nat /\ e \in 0 .. r - 1 /\ x = Whole(r, v) + e
    <2>1. PICK x : x = k + n /\ x \in Nat /\ r \in Nat \ {0}
        BY <1>2
    <2>2. x \div r \in Nat /\ x % r \in 0 .. r - 1 /\ x = Whole(r, x \div r) + (x % r)
        BY ONLY <2>1, WholeDivision
    <2> QED
        BY <2>1, <2>2
<1>4. PICK p : p = q + v /\ p \in Nat /\ Whole(r, p) = Whole(r, q) + Whole(r, v)
    <2>1. r \in Nat /\ q \in Nat /\ v \in Nat
        BY <1>2, <1>3
    <2>2. Whole(r, q + v) = Whole(r, q) + Whole(r, v)
        BY ONLY <2>1, WholeSum
    <2>3. q + v \in Nat
        BY <2>1
    <2> QED
        BY <2>2, <2>3
<1>5. Whence(r, p, e, f + k)
    <2>1. PICK y, z : y = Whole(r, q) /\ z = Whole(r, v) /\ y \in Nat /\ z \in Nat
        BY <1>2, <1>3, WholeIs
    <2>2. f + k = (y + z) + e /\ f + k \in Nat
        BY <1>2, <1>3, <2>1
    <2> QED
        BY <1>3, <1>4, <2>1, <2>2 DEF Whence
<1>6. keccak_inc_absorb(Fed(r, q, n), r, Message(q * r + n, q * r + n + k)) = Fed(r, q + (k + n) \div r, (k + n) % r)
    BY <1>2, AbsorbIs
<1>7. q * r + n = f
    BY <1>2 DEF Whole
<1> QED
    BY <1>1, <1>3, <1>4, <1>5, <1>6, <1>7 DEF Absorbs

LEMMA SqueezesFinal ==
    ASSUME NEW r \in Nat \ {0}, NEW s, NEW f, Absorbs(r, s, f)
    PROVE  Squeezes(r, keccak_inc_finalize(s, r, 31), f, <<>>)
<1>1. PICK q, n : Whence(r, q, n, f) /\ s = Fed(r, q, n)
    BY DEF Absorbs
<1>2. q \in Nat /\ n \in Nat
    BY <1>1 DEF Whence
<1>3. keccak_inc_finalize(s, r, 31) = Squeezed(r, q, n, 0, 0)
    BY <1>1, <1>2, FinalizeIs
<1>4. Taken(r, 0, 0, 0)
    <2>1. Whole(r, 0) = 0
        BY WholeIs
    <2> QED
        BY <2>1 DEF Taken
<1>5. <<>> = OutBytes(r, q, 0, 0)
    BY OutNone
<1> QED
    BY <1>1, <1>3, <1>4, <1>5 DEF Squeezes

LEMMA SqueezesMore ==
    ASSUME NEW r \in Nat \ {0}, NEW s, NEW f, NEW out, Squeezes(r, s, f, out), NEW k \in Nat
    PROVE  Squeezes(r, keccak_inc_squeeze(s, r, k).state, f, out \o keccak_inc_squeeze(s, r, k).out)
<1>1. PICK q, n, p, left, o : /\ Whence(r, q, n, f) /\ Taken(r, p, left, o)
                              /\ s = Squeezed(r, q, n, p, left) /\ out = OutBytes(r, q, 0, o)
    BY DEF Squeezes
<1>2. q \in Nat /\ n \in Nat /\ o \in Nat
    BY <1>1 DEF Whence, Taken
<1>3. PICK p2, left2 : /\ Taken(r, p2, left2, o + k)
                       /\ keccak_inc_squeeze(s, r, k).state = Squeezed(r, q, n, p2, left2)
                       /\ keccak_inc_squeeze(s, r, k).out = OutBytes(r, q, o, k)
    <2>1. r \in Nat \ {0} /\ q \in Nat /\ n \in Nat /\ Taken(r, p, left, o) /\ k \in Nat
        BY <1>1, <1>2
    <2>2. Gives(r, q, n, p, left, o, k)
        BY ONLY <2>1, SqueezeIs
    <2> QED
        BY <1>1, <2>2 DEF Gives
<1>4. OutBytes(r, q, 0, o) \o OutBytes(r, q, o, k) = OutBytes(r, q, 0, o + k)
    <2>1. PICK z, all : z = 0 /\ all = o + k /\ Follows(z, o, k, o, all)
        BY <1>2 DEF Follows
    <2> QED
        BY <2>1, OutAppends
<1> QED
    BY <1>1, <1>3, <1>4 DEF Squeezes

LEMMA SqueezesStandard ==
    ASSUME NEW r, NEW s, NEW f, NEW out, Squeezes(r, s, f, out)
    PROVE  SpongeStandard(s, r, f, out)
<1>1. PICK q, n, p, left, o : /\ Whence(r, q, n, f) /\ Taken(r, p, left, o)
                              /\ s = Squeezed(r, q, n, p, left) /\ out = OutBytes(r, q, 0, o)
    BY DEF Squeezes
<1>2. p \in Nat /\ o \in Nat
    BY <1>1 DEF Taken
<1> QED
    BY <1>1, <1>2, SqueezedStandard

LEMMA WhenceIs ==
    ASSUME NEW r \in Nat \ {0}, NEW f \in Nat
    PROVE  \E q, n : Whence(r, q, n, f)
<1>1. f \div r \in Nat /\ f % r \in 0 .. r - 1 /\ f = Whole(r, f \div r) + (f % r)
    BY WholeDivision
<1> QED
    BY <1>1 DEF Whence

LEMMA OneShotStandard ==
    ASSUME NEW r \in Nat \ {0}, NEW f \in Nat, NEW k \in Nat
    PROVE  SpongeStandard(OneShot(Message(0, f), r, k).state, r, f, OneShot(Message(0, f), r, k).out)
<1>1. PICK q, n : Whence(r, q, n, f)
    BY WhenceIs
<1>2. PICK p \in Nat : /\ OneShot(Message(0, f), r, k).state = Squeezed(r, q, n, p, 0)
                       /\ OneShot(Message(0, f), r, k).out = OutBytes(r, q, 0, k)
    BY <1>1, OneShotIs
<1> QED
    BY <1>1, <1>2, SqueezedStandard

\* What is left of a message after q blocks of it, of any length.
LEMMA SpansIs ==
    ASSUME NEW B \in Nat \ {0}, NEW q \in Nat, NEW from, from = Whole(B, q), NEW k \in Nat, NEW to, to = from + k
    PROVE  \E v, n : Spans(B, q, v, n, from, to) /\ (k % B = 0 => n = 0)
<1>1. PICK v, n : v = k \div B /\ n = k % B /\ v \in Nat /\ n \in 0 .. B - 1 /\ k = Whole(B, v) + n
    <2>1. k \div B \in Nat /\ k % B \in 0 .. B - 1 /\ k = Whole(B, k \div B) + (k % B)
        BY WholeDivision
    <2> QED
        BY <2>1
<1>2. PICK y, z : /\ y = Whole(B, q) /\ z = Whole(B, v) /\ y \in Nat /\ z \in Nat /\ Whole(B, q + v) = y + z
    BY <1>1, WholeSum, WholeIs
<1>3. Spans(B, q, v, n, from, to)
    <2>1. from \in Nat /\ to = (y + z) + n /\ to \in Nat
        <3>1. /\ from = y /\ to = y + k /\ k = z + n /\ y \in Nat /\ z \in Nat /\ k \in Nat /\ n \in 0 .. B - 1
              /\ B \in Nat
            BY <1>1, <1>2
        <3> QED
            BY ONLY <3>1
    <2> QED
        BY <1>1, <1>2, <2>1 DEF Spans
<1> QED
    BY <1>1, <1>3

\* Nothing is absorbed at the start; a seed is the first block.
LEMMA SpongeStarts ==
    ASSUME NEW r \in Nat \ {0}
    PROVE  Absorbs(r, keccak_inc_init(r), 0)
<1>1. keccak_inc_init(r) = Fed(r, 0, 0)
    <2>1. Fulls(r, 0) = <<>>
        BY DEF Fulls
    <2>2. \A i \in 1 .. r : ~(i <= 0)
        OBVIOUS
    <2>3. Part(r, 0, 0) = Zeros(r)
        BY <2>2 DEF Part, Zeros
    <2> QED
        BY <2>1, <2>3 DEF keccak_inc_init, Fed, Sponge
<1>2. Whence(r, 0, 0, 0)
    <2>1. Whole(r, 0) = 0
        BY WholeIs
    <2> QED
        BY <2>1 DEF Whence
<1> QED
    BY <1>1, <1>2 DEF Absorbs

LEMMA ShaStarts ==
    ASSUME NEW B \in Nat
    PROVE  /\ sha_inc_init = ShaFed(B, 0) /\ sha_inc_init = ShaState(Fulls(B, 0), 8 * Whole(B, 0))
           /\ Whole(B, 0) = 0
<1>1. Fulls(B, 0) = <<>> /\ Whole(B, 0) = 0 /\ 8 * 0 = 0
    BY WholeIs DEF Fulls
<1> QED
    BY <1>1 DEF sha_inc_init, ShaFed, ShaState

LEMMA SeedIs ==
    ASSUME NEW B \in Nat
    PROVE  <<SeedBlock(B)>> = Fulls(B, 1) /\ Whole(B, 1) = B
<1>1. Whole(B, 1) = B /\ (1 - 1) * B = 0 /\ 1 * B = B /\ B - 0 = B
    BY SmallWhole
<1>2. \A i \in 1 .. B : 0 + i = i
    OBVIOUS
<1>3. Full(B, 1) = SeedBlock(B)
    BY <1>1, <1>2 DEF Full, Message, SeedBlock
<1>4. PICK x : x = SeedBlock(B)
    OBVIOUS
<1>5. Fulls(B, 1) = [k \in 1 .. 1 |-> x]
    BY <1>3, <1>4 DEF Fulls
<1>6. <<x>> = [k \in 1 .. 1 |-> x]
    OBVIOUS
<1> QED
    BY <1>1, <1>4, <1>5, <1>6

----------------------------------------------------------------------------
(***************************************************************************)
(* The invariant holds at the start, and every call keeps it.              *)
(***************************************************************************)
LEMMA InitInv == StreamsInit => StreamsInv
<1> SUFFICES ASSUME StreamsInit PROVE StreamsInv
    OBVIOUS
<1>1. sApi \in OfSponge \cup OfSha /\ sFed = 0 /\ sPhase = "absorbing" /\ sOut = <<>>
    BY DEF StreamsInit
<1>2. ASSUME sApi \in Sponges PROVE Absorbs(SpongeRate[sApi], sState, sFed)
    <2>1. sState = keccak_inc_init(SpongeRate[sApi])
        <3>1. CASE sApi = "shake256_inc"
            BY <3>1, Sizes DEF StreamsInit, SHAKE256_RATE
        <3>2. CASE sApi = "haraka_S_inc"
            BY <3>2, Sizes DEF StreamsInit, haraka_S_inc_init, HARAKAS_RATE
        <3> QED
            BY <1>2, <3>1, <3>2 DEF Sponges
    <2>2. SpongeRate[sApi] \in Nat \ {0}
        BY <1>2, Lengths, Names
    <2> QED
        BY <1>1, <2>1, <2>2, SpongeStarts
<1>3. ASSUME sApi \in Shas PROVE AbsorbsBlocks(ShaBlock[sApi], sState, sFed)
    <2>1. sState = sha_inc_init
        BY <1>3 DEF StreamsInit, Shas
    <2>2. ShaBlock[sApi] \in Nat
        BY <1>3, Names, Sizes DEF Shas
    <2>3. sState = ShaFed(ShaBlock[sApi], 0) /\ sFed = Whole(ShaBlock[sApi], 0)
        BY <1>1, <2>1, <2>2, ShaStarts
    <2> QED
        BY <2>3, 0 \in Nat DEF AbsorbsBlocks
<1> QED
    BY <1>1, <1>2, <1>3 DEF StreamsInv

LEMMA PieceInv == StreamsInv /\ AbsorbPiece => StreamsInv'
<1> SUFFICES ASSUME StreamsInv, AbsorbPiece PROVE StreamsInv'
    OBVIOUS
<1>1. /\ sPhase = "absorbing" /\ sApi \in Sponges /\ sApi' = sApi /\ sPhase' = sPhase /\ sOut' = sOut
    BY DEF AbsorbPiece, Sponges
<1>2. PICK r : r = SpongeRate[sApi] /\ r \in Nat \ {0}
    BY <1>1, Lengths, Names
<1>3. PICK k \in Pieces[r] :
          /\ sState' = IF sApi = "shake256_inc" THEN shake256_inc_absorb(sState, Message(sFed, sFed + k))
                       ELSE haraka_S_inc_absorb(sState, Message(sFed, sFed + k))
          /\ sFed' = sFed + k
    BY <1>2 DEF AbsorbPiece
<1>4. k \in Nat
    BY <1>1, <1>2, Lengths, Names
<1>5. sState' = keccak_inc_absorb(sState, r, Message(sFed, sFed + k))
    <2>1. CASE sApi = "shake256_inc"
        BY <1>2, <1>3, <2>1, Sizes DEF shake256_inc_absorb, SHAKE256_RATE
    <2>2. CASE sApi = "haraka_S_inc"
        BY <1>2, <1>3, <2>2, Sizes DEF haraka_S_inc_absorb, HARAKAS_RATE
    <2> QED
        BY <1>1, <2>1, <2>2 DEF Sponges
<1>6. Absorbs(r, sState, sFed) /\ sOut = <<>>
    BY <1>1, <1>2 DEF StreamsInv
<1>7. Absorbs(r, sState', sFed')
    BY <1>2, <1>3, <1>4, <1>5, <1>6, AbsorbsMore
<1>8. sApi \in OfSponge \cup OfSha /\ sApi \notin Shas
    BY <1>1, Names
<1> QED
    BY <1>1, <1>2, <1>6, <1>7, <1>8 DEF StreamsInv

LEMMA FinalizeInv == StreamsInv /\ FinalizeSponge => StreamsInv'
<1> SUFFICES ASSUME StreamsInv, FinalizeSponge PROVE StreamsInv'
    OBVIOUS
<1>1. /\ sPhase = "absorbing" /\ sApi \in Sponges /\ sApi' = sApi /\ sPhase' = "squeezing" /\ sOut' = sOut
      /\ sFed' = sFed
    BY DEF FinalizeSponge, Sponges
<1>2. PICK r : r = SpongeRate[sApi] /\ r \in Nat \ {0}
    BY <1>1, Lengths, Names
<1>3. sState' = keccak_inc_finalize(sState, r, 31)
    <2>1. CASE sApi = "shake256_inc"
        BY <1>2, <2>1, Sizes DEF FinalizeSponge, shake256_inc_finalize, SHAKE256_RATE
    <2>2. CASE sApi = "haraka_S_inc"
        BY <1>2, <2>2, Sizes DEF FinalizeSponge, haraka_S_inc_finalize, HARAKAS_RATE
    <2> QED
        BY <1>1, <2>1, <2>2 DEF Sponges
<1>4. Absorbs(r, sState, sFed) /\ sOut = <<>>
    BY <1>1, <1>2 DEF StreamsInv
<1>5. Squeezes(r, sState', sFed', sOut')
    BY <1>1, <1>2, <1>3, <1>4, SqueezesFinal
<1>6. sApi \in OfSponge \cup OfSha
    BY <1>1, Names
<1> QED
    BY <1>1, <1>2, <1>5, <1>6 DEF StreamsInv

LEMMA SqueezeInv == StreamsInv /\ SqueezePiece => StreamsInv'
<1> SUFFICES ASSUME StreamsInv, SqueezePiece PROVE StreamsInv'
    OBVIOUS
<1>1. sPhase = "squeezing" /\ sApi \in Sponges /\ sApi' = sApi /\ sPhase' = sPhase /\ sFed' = sFed
    BY DEF SqueezePiece, Sponges
<1>2. PICK r : r = SpongeRate[sApi] /\ r \in Nat \ {0}
    BY <1>1, Lengths, Names
<1>3. PICK k, res : /\ k \in Pieces[r]
                    /\ res = IF sApi = "shake256_inc" THEN shake256_inc_squeeze(sState, k)
                             ELSE haraka_S_inc_squeeze(sState, k)
                    /\ sState' = res.state /\ sOut' = sOut \o res.out
    BY <1>2 DEF SqueezePiece
<1>4. k \in Nat
    BY <1>1, <1>2, <1>3, Lengths, Names
<1>5. res = keccak_inc_squeeze(sState, r, k)
    <2>1. CASE sApi = "shake256_inc"
        BY <1>2, <1>3, <2>1, Sizes DEF shake256_inc_squeeze, SHAKE256_RATE
    <2>2. CASE sApi = "haraka_S_inc"
        BY <1>2, <1>3, <2>2, Sizes DEF haraka_S_inc_squeeze, HARAKAS_RATE
    <2> QED
        BY <1>1, <2>1, <2>2 DEF Sponges
<1>6. Squeezes(r, sState, sFed, sOut)
    BY <1>1, <1>2 DEF StreamsInv
<1>7. Squeezes(r, sState', sFed', sOut')
    BY <1>1, <1>2, <1>3, <1>4, <1>5, <1>6, SqueezesMore
<1>8. sApi \in OfSponge \cup OfSha
    BY <1>1, Names
<1> QED
    BY <1>1, <1>2, <1>7, <1>8 DEF StreamsInv

LEMMA BlocksInv == StreamsInv /\ AbsorbBlocks => StreamsInv'
<1> SUFFICES ASSUME StreamsInv, AbsorbBlocks PROVE StreamsInv'
    OBVIOUS
<1>1. sPhase = "absorbing" /\ sApi \in Shas /\ sApi' = sApi /\ sPhase' = sPhase
    BY DEF AbsorbBlocks, Shas
<1>2. PICK B : B = ShaBlock[sApi] /\ B \in {64, 128} /\ B \in Nat \ {0}
    BY <1>1, Lengths, Names
<1>3. PICK k, to, m : /\ k \in Pieces[B] /\ k % B = 0 /\ to = sFed + k /\ m = Message(sFed, to) /\ sFed' = to
                      /\ sState' = IF sApi = "sha256_inc" THEN sha256_inc_blocks(sState, m)
                                   ELSE sha512_inc_blocks(sState, m)
    BY <1>2 DEF AbsorbBlocks
<1>4. k \in Nat
    BY <1>1, <1>2, <1>3, Lengths, Names
<1>5. PICK q \in Nat : sFed = Whole(B, q) /\ sState = ShaFed(B, q)
    BY <1>1, <1>2 DEF StreamsInv, AbsorbsBlocks
<1>6. PICK v : Spans(B, q, v, 0, sFed, to)
    BY <1>2, <1>3, <1>4, <1>5, SpansIs
<1>7. sState' = ShaFed(B, q + v)
    <2>1. CASE sApi = "sha256_inc"
        BY <1>2, <1>3, <1>5, <1>6, <2>1, Sizes, ShaBlocksIs
    <2>2. CASE sApi = "sha512_inc"
        BY <1>2, <1>3, <1>5, <1>6, <2>2, Sizes, ShaBlocksIs
    <2> QED
        BY <1>1, <2>1, <2>2 DEF Shas
<1>8. q + v \in Nat /\ to = Whole(B, q + v)
    <2>1. PICK z : z = Whole(B, q + v) /\ z \in Nat /\ q + v \in Nat /\ to = z + 0
        <3>1. q + v \in Nat /\ to = Whole(B, q + v) + 0
            BY <1>6 DEF Spans
        <3>2. Whole(B, q + v) \in Nat
            BY <1>2, <3>1, WholeIs
        <3> QED
            BY <3>1, <3>2
    <2> QED
        BY <2>1
<1>9. AbsorbsBlocks(B, sState', sFed')
    BY <1>3, <1>7, <1>8 DEF AbsorbsBlocks
<1>10. sApi \in OfSponge \cup OfSha /\ sApi \notin Sponges
    BY <1>1, Names
<1> QED
    BY <1>1, <1>2, <1>9, <1>10 DEF StreamsInv

LEMMA FinalizeShaInv == StreamsInv /\ FinalizeSha => StreamsInv'
<1> SUFFICES ASSUME StreamsInv, FinalizeSha PROVE StreamsInv'
    OBVIOUS
<1>1. sPhase = "absorbing" /\ sApi \in Shas /\ sApi' = sApi /\ sPhase' = "squeezing"
    BY DEF FinalizeSha, Shas
<1>2. PICK B : B = ShaBlock[sApi] /\ B \in {64, 128} /\ B \in Nat \ {0}
    BY <1>1, Lengths, Names
<1>3. PICK k, to, m : /\ k \in Wholes[B] /\ to = sFed + k /\ m = Message(sFed, to) /\ sFed' = to /\ Countable(to)
                      /\ sState' = IF sApi = "sha256_inc" THEN sha256_inc_finalize(sState, m)
                                   ELSE sha512_inc_finalize(sState, m)
    BY <1>2 DEF FinalizeSha
<1>4. k \in Nat
    BY <1>1, <1>2, <1>3, Lengths, Names
<1>5. PICK q \in Nat : sFed = Whole(B, q) /\ sState = ShaFed(B, q)
    BY <1>1, <1>2 DEF StreamsInv, AbsorbsBlocks
<1>6. PICK v, n : Spans(B, q, v, n, sFed, to)
    BY <1>2, <1>3, <1>4, <1>5, SpansIs
<1>7. sState'.blocks = StandardSha(Message(0, to), B)
    <2>1. CASE sApi = "sha256_inc"
        BY <1>2, <1>3, <1>5, <1>6, <2>1, Sizes, Sha256FinalIs
    <2>2. CASE sApi = "sha512_inc"
        BY <1>2, <1>3, <1>5, <1>6, <2>2, Sizes, Sha512FinalIs
    <2> QED
        BY <1>1, <2>1, <2>2 DEF Shas
<1>8. sApi \in OfSponge \cup OfSha /\ sApi \notin Sponges /\ sApi \notin OfSponge
    BY <1>1, Names
<1> QED
    BY <1>1, <1>2, <1>3, <1>7, <1>8 DEF StreamsInv, Standard

LEMMA SpongeAtOnceInv == StreamsInv /\ SpongeAtOnce => StreamsInv'
<1> SUFFICES ASSUME StreamsInv, SpongeAtOnce PROVE StreamsInv'
    OBVIOUS
<1>1. sApi \in OfSponge \ Sponges /\ sApi' = sApi /\ sPhase' = "squeezing"
    BY Names DEF SpongeAtOnce
<1>2. PICK r : r = SpongeRate[sApi] /\ r \in Nat \ {0}
    BY <1>1, Lengths
<1>3. PICK k, n, m, res :
          /\ k \in Wholes[r] /\ n \in Wholes[r] /\ m = Message(0, k)
          /\ res = CASE sApi = "shake256"   -> shake256(m, n)
                     [] sApi = "shake256x4" -> shake256x4(m, n)
                     [] sApi = "shake256x2" -> shake256x2(m, n)
                     [] sApi = "shake128x4" -> shake128x4(m, n)
                     [] sApi = "shake128x2" -> shake128x2(m, n)
                     [] sApi = "haraka_S"   -> haraka_S(m, n)
                     [] sApi = "haraka_Sx4" -> haraka_Sx4(m, n)
          /\ sState' = res.state /\ sOut' = res.out /\ sFed' = k
    BY <1>2 DEF SpongeAtOnce
<1>4. k \in Nat /\ n \in Nat
    BY <1>1, <1>2, <1>3, Lengths
<1>5. res = OneShot(m, r, n)
    <2>1. CASE sApi = "shake256"
        BY <1>2, <1>3, <2>1, Sizes DEF shake256, SHAKE256_RATE
    <2>2. CASE sApi = "shake256x4"
        BY <1>2, <1>3, <2>2, Sizes DEF shake256x4, SHAKE256_RATE
    <2>3. CASE sApi = "shake256x2"
        BY <1>2, <1>3, <2>3, Sizes DEF shake256x2, SHAKE256_RATE
    <2>4. CASE sApi = "shake128x4"
        BY <1>2, <1>3, <2>4, Sizes DEF shake128x4, SHAKE128_RATE
    <2>5. CASE sApi = "shake128x2"
        BY <1>2, <1>3, <2>5, Sizes DEF shake128x2, SHAKE128_RATE
    <2>6. CASE sApi = "haraka_S"
        BY <1>2, <1>3, <2>6, Sizes DEF haraka_S, HARAKAS_RATE
    <2>7. CASE sApi = "haraka_Sx4"
        BY <1>2, <1>3, <2>7, Sizes DEF haraka_Sx4, HARAKAS_RATE
    <2> QED
        BY <1>1, <2>1, <2>2, <2>3, <2>4, <2>5, <2>6, <2>7, Names
<1>6. SpongeStandard(sState', r, sFed', sOut')
    BY <1>2, <1>3, <1>4, <1>5, OneShotStandard
<1> QED
    BY <1>1, <1>2, <1>6 DEF StreamsInv, Standard

LEMMA ShaAtOnceInv == StreamsInv /\ ShaAtOnce => StreamsInv'
<1> SUFFICES ASSUME StreamsInv, ShaAtOnce PROVE StreamsInv'
    OBVIOUS
<1>1. sApi \in OfSha \ Shas /\ sApi \in OfSha /\ sApi' = sApi /\ sPhase' = "squeezing"
    BY Names DEF ShaAtOnce
<1>2. PICK B : B = ShaBlock[sApi] /\ B \in {64, 128} /\ B \in Nat \ {0} /\ B \in Nat
    BY <1>1, Lengths
<1> DEFINE Handed(b, k) == IF sApi \in Seeded THEN Message(b, b + k) ELSE Message(0, k)
           HashOf(m) == CASE sApi = "sha256"   -> sha256(m)
                          [] sApi = "sha512"   -> sha512(m)
                          [] sApi = "sha256x8" -> sha256x8(m)
                          [] sApi = "sha256x8_seeded" -> sha256x8_seeded(<<SeedBlock(64)>>, 512, m)
                          [] sApi = "sha512x4_seeded" -> sha512x4_seeded(<<SeedBlock(128)>>, 1024, m)
<1>a. \E k \in Wholes[ShaBlock[sApi]] :
          /\ Countable(ShaBlock[sApi] + k) /\ sState' = HashOf(Handed(ShaBlock[sApi], k))
          /\ sFed' = IF sApi \in Seeded THEN ShaBlock[sApi] + k ELSE k
    BY Zenon DEF ShaAtOnce
<1> HIDE DEF Handed, HashOf
<1>b. PICK k \in Wholes[B] : Countable(B + k) /\ sState' = HashOf(Handed(B, k))
                             /\ sFed' = IF sApi \in Seeded THEN B + k ELSE k
    BY <1>2, <1>a
<1>c. PICK m : m = Handed(B, k)
    OBVIOUS
<1>d. sState' = HashOf(m)
    BY <1>b, <1>c
<1>3. /\ k \in Wholes[B] /\ Countable(B + k)
      /\ m = IF sApi \in Seeded THEN Message(B, B + k) ELSE Message(0, k)
      /\ sState' = CASE sApi = "sha256"   -> sha256(m)
                     [] sApi = "sha512"   -> sha512(m)
                     [] sApi = "sha256x8" -> sha256x8(m)
                     [] sApi = "sha256x8_seeded" -> sha256x8_seeded(<<SeedBlock(64)>>, 512, m)
                     [] sApi = "sha512x4_seeded" -> sha512x4_seeded(<<SeedBlock(128)>>, 1024, m)
      /\ sFed' = IF sApi \in Seeded THEN B + k ELSE k
    BY <1>b, <1>c, <1>d DEF Handed, HashOf
<1>4. k \in Nat /\ B + k \in Nat /\ k <= B + k
    BY <1>1, <1>2, <1>3, Lengths
<1>5. Countable(k)
    BY <1>3, <1>4, CountableLess
<1>6. PICK z, v, n : z = Whole(B, 0) /\ z = 0 /\ Spans(B, 0, v, n, z, k)
    <2>0. 0 + k = k
        BY ONLY <1>4
    <2>1. PICK z : z = Whole(B, 0) /\ z = 0 /\ k = z + k
        BY <1>2, <2>0, WholeIs
    <2>2. \E v, n : Spans(B, 0, v, n, z, k)
        BY <1>2, <1>4, <2>1, SpansIs, 0 \in Nat
    <2> QED
        BY <2>1, <2>2
<1>7. PICK vs, ns : Spans(B, 1, vs, ns, B, B + k)
    <2>1. PICK to : to = B + k /\ B = Whole(B, 1)
        BY <1>2, SmallWhole
    <2>2. \E v1, n1 : Spans(B, 1, v1, n1, B, to)
        BY <1>2, <1>4, <2>1, SpansIs, 1 \in Nat
    <2> QED
        BY <2>1, <2>2
<1>8. sState'.blocks = StandardSha(Message(0, sFed'), B)
    <2>1. CASE sApi = "sha256"
        <3>1. B = 64 /\ sFed' = k /\ m = Message(z, k) /\ sState' = sha256_inc_finalize(ShaFed(64, 0), Message(z, k))
            BY <1>2, <1>3, <1>6, <2>1, Sizes, ShaStarts, 64 \in Nat DEF sha256, Seeded
        <3> QED
            BY <1>5, <1>6, <3>1, Sha256FinalIs
    <2>2. CASE sApi = "sha512"
        <3>1. B = 128 /\ sFed' = k /\ m = Message(z, k) /\ sState' = sha512_inc_finalize(ShaFed(128, 0), Message(z, k))
            BY <1>2, <1>3, <1>6, <2>2, Sizes, ShaStarts, 128 \in Nat DEF sha512, Seeded
        <3> QED
            BY <1>5, <1>6, <3>1, Sha512FinalIs
    <2>3. CASE sApi = "sha256x8"
        <3>1. PICK s : s = ShaState(Fulls(B, 0), 8 * Whole(B, 0)) /\ s = sha_inc_init
            BY <1>2, ShaStarts
        <3>2. B = 64 /\ sFed' = k /\ m = Message(z, k) /\ sState' = PadInPlace(AbsorbWhole(s, m, B), RestOf(m, B), B)
            BY <1>2, <1>3, <1>6, <2>3, <3>1, Sizes DEF sha256x8, _sha256x8, sha256_final8x, Seeded
        <3> QED
            BY <1>2, <1>5, <1>6, <3>1, <3>2, ShaWholeIs
    <2>4. CASE sApi = "sha256x8_seeded"
        <3>1. PICK s : s = ShaState(Fulls(B, 1), 8 * Whole(B, 1)) /\ s = [blocks |-> <<SeedBlock(B)>>, n |-> 8 * B]
            BY <1>2, SeedIs DEF ShaState
        <3>2. /\ B = 64 /\ sFed' = B + k /\ m = Message(B, B + k)
              /\ sState' = PadInPlace(AbsorbWhole(s, m, B), RestOf(m, B), B)
            BY <1>2, <1>3, <2>4, <3>1, Sizes DEF sha256x8_seeded, _sha256x8, sha256_final8x, Seeded
        <3>3. PICK to : to = B + k
            OBVIOUS
        <3>4. /\ Spans(B, 1, vs, ns, B, to) /\ B \in {64, 128} /\ Countable(to)
              /\ s = ShaState(Fulls(B, 1), 8 * Whole(B, 1)) /\ m = Message(B, to)
            BY <1>2, <1>3, <1>7, <3>1, <3>2, <3>3
        <3>5. PadInPlace(AbsorbWhole(s, m, B), RestOf(m, B), B).blocks = StandardSha(Message(0, to), B)
            BY ONLY <3>4, ShaWholeIs
        <3> QED
            BY <3>2, <3>3, <3>5
    <2>5. CASE sApi = "sha512x4_seeded"
        <3>1. PICK s : s = ShaState(Fulls(B, 1), 8 * Whole(B, 1)) /\ s = [blocks |-> <<SeedBlock(B)>>, n |-> 8 * B]
            BY <1>2, SeedIs DEF ShaState
        <3>2. /\ B = 128 /\ sFed' = B + k /\ m = Message(B, B + k)
              /\ sState' = PadInPlace(AbsorbWhole(s, m, B), RestOf(m, B), B)
            BY <1>2, <1>3, <2>5, <3>1, Sizes DEF sha512x4_seeded, _sha512x4, Seeded
        <3>3. PICK to : to = B + k
            OBVIOUS
        <3>4. /\ Spans(B, 1, vs, ns, B, to) /\ B \in {64, 128} /\ Countable(to)
              /\ s = ShaState(Fulls(B, 1), 8 * Whole(B, 1)) /\ m = Message(B, to)
            BY <1>2, <1>3, <1>7, <3>1, <3>2, <3>3
        <3>5. PadInPlace(AbsorbWhole(s, m, B), RestOf(m, B), B).blocks = StandardSha(Message(0, to), B)
            BY ONLY <3>4, ShaWholeIs
        <3> QED
            BY <3>2, <3>3, <3>5
    <2> QED
        BY <1>1, <2>1, <2>2, <2>3, <2>4, <2>5, Names
<1>9. sApi \notin Sponges /\ sApi \notin OfSponge
    BY <1>1, Names
<1> QED
    BY <1>1, <1>2, <1>8, <1>9 DEF StreamsInv, Standard

LEMMA InvStandard == StreamsInv => StreamsAreStandard
<1> SUFFICES ASSUME StreamsInv, sPhase = "squeezing" PROVE StreamsAreStandard
    BY DEF StreamsAreStandard
<1>1. Standard(sApi, sState, sFed, sOut)
    <2>1. CASE sApi \in Sponges
        BY <2>1, SqueezesStandard, Names DEF StreamsInv, Standard
    <2>2. CASE sApi \notin Sponges
        BY <2>2 DEF StreamsInv
    <2> QED
        BY <2>1, <2>2
<1> QED
    BY <1>1, Zenon DEF Standard, SpongeStandard, StreamsAreStandard

\* Every hash stream of the software (fips202, fips202x4 and x2, haraka, sha2,
\* sha256x8 and sha512x4), whatever the lengths of its message, of the calls
\* that feed it and of those that ask for output, and however many they are:
\* its permutation or compression is given the standard's padded message, and
\* its output is the rate, byte after byte.
THEOREM StreamsCorrect == StreamsSpec => []StreamsAreStandard
<1>1. StreamsInv /\ [StreamsNext]_streamVars => StreamsInv'
    <2> SUFFICES ASSUME StreamsInv, [StreamsNext]_streamVars PROVE StreamsInv'
        OBVIOUS
    <2>1. CASE StreamsNext
        BY <2>1, PieceInv, FinalizeInv, SqueezeInv, BlocksInv, FinalizeShaInv, SpongeAtOnceInv, ShaAtOnceInv
            DEF StreamsNext
    <2>2. CASE UNCHANGED streamVars
        BY <2>2 DEF streamVars, StreamsInv
    <2> QED
        BY <2>1, <2>2
<1> QED
    BY <1>1, InitInv, InvStandard, PTL DEF StreamsSpec
=============================================================================
