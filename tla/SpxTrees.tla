------------------------------ MODULE SpxTrees ------------------------------
(***************************************************************************)
(* The trees of a signature: addresses, WOTS+ chains, hash trees, FORS and *)
(* the subtrees of the hypertree, as the reference codes them (scalar, and *)
(* with thash four at a time) and as the parallel codes do, N leaves or    *)
(* chains side by side.  The three parallel codes are one text for their   *)
(* number of lanes.                                                        *)
(*                                                                         *)
(* A hash value is a term: the address it was hashed under, as far as the  *)
(* hash sees it, and what was hashed.  A build b is a parameter set with   *)
(* the code it is compiled from.  Addresses are overwritten field by field *)
(* as they are in the C; what is left over of earlier calls stays.         *)
(***************************************************************************)
EXTENDS WotsDigits, Sequences, SequencesExt, FiniteSets, FiniteSetsExt

\* for (i = from; i < to; i++) s = Body(s, i)
Loop(s, from, to, Body(_, _)) ==
    LET after[i \in Int] == IF i <= from THEN s ELSE Body(after[i - 1], i - 1)
    IN  after[to]

----------------------------------------------------------------------------
(***************************************************************************)
(* address: 32 bytes, with the offsets o of the hash function's family.    *)
(***************************************************************************)
SPX_ADDR_TYPE_WOTS     == 0
SPX_ADDR_TYPE_WOTSPK   == 1
SPX_ADDR_TYPE_HASHTREE == 2
SPX_ADDR_TYPE_FORSTREE == 3
SPX_ADDR_TYPE_FORSPK   == 4
SPX_ADDR_TYPE_WOTSPRF  == 5
SPX_ADDR_TYPE_FORSPRF  == 6

NoAddr == [i \in 0 .. 31 |-> 0]

PutNumber(addr, at, width, v) ==
    [i \in DOMAIN addr |-> IF i - at \in 0 .. width - 1 THEN ByteOf(v, at + width - 1 - i) ELSE addr[i]]

set_layer_addr(o, addr, layer)  == PutNumber(addr, o.layer, 1, layer)
set_tree_addr(o, addr, tree)    == PutNumber(addr, o.tree, 8, tree)
set_type(o, addr, type)         == PutNumber(addr, o.type, 1, type)
set_keypair_addr(o, addr, kp)   == PutNumber(addr, o.kp, 4, kp)
set_chain_addr(o, addr, chain)  == PutNumber(addr, o.chain, 1, chain)
set_hash_addr(o, addr, hash)    == PutNumber(addr, o.hash, 1, hash)
set_tree_height(o, addr, h)     == PutNumber(addr, o.hgt, 1, h)
set_tree_index(o, addr, index)  == PutNumber(addr, o.index, 4, index)
copy_subtree_addr(o, out, in)   == [i \in DOMAIN out |-> IF i < o.tree + 8 THEN in[i] ELSE out[i]]
copy_keypair_addr(o, out, in)   ==
    [i \in DOMAIN out |-> IF i < o.tree + 8 \/ i - o.kp \in 0 .. 3 THEN in[i] ELSE out[i]]

----------------------------------------------------------------------------
HashedBytes(b, addr) == [i \in 1 .. IF b.family = "sha2" THEN 22 ELSE 32 |-> addr[i - 1]]
prf_addr(b, addr)    == [fn |-> "prf", addr |-> HashedBytes(b, addr), in |-> <<>>]
thash(b, in, addr)   == [fn |-> "thash", addr |-> HashedBytes(b, addr), in |-> in]
Uninitialized        == [fn |-> "none", addr |-> <<>>, in |-> <<>>]

\* What batch_scheduler has counted.
BatchRegions == {"wots_gen_pk", "fors_leaf", "fors_internal"}
spx_thashx4_batch_reset == [r \in BatchRegions |->
    [thashx4_calls |-> 0, scalar_fallback |-> 0, replaced_scalar_thash |-> 0]]
spx_thashx4_batch_record_x4(stats, region) ==
    [stats EXCEPT ![region].thashx4_calls = @ + 1, ![region].replaced_scalar_thash = @ + 4]
spx_thashx4_batch_record_scalar(stats, region, calls) ==
    [stats EXCEPT ![region].scalar_fallback = @ + calls]

----------------------------------------------------------------------------
(***************************************************************************)
(* wots: a chain's value is hashed up to W - 1 times.                      *)
(***************************************************************************)
chain_lengthsx4(b, msg) == chain_lengths(b, msg)
chain_lengthsx2(b, msg) == chain_lengths(b, msg)
chain_lengthsx8(b, msg) == chain_lengths(b, msg)

Chains(b) == 1 .. b.wots_len        \* chain i of the code is chain i + 1

gen_chain(b, in, start, steps, addr) ==
    Loop([out |-> in, addr |-> addr], start, Min({start + steps, SPX_WOTS_W}),
         LAMBDA s, i : LET a == set_hash_addr(b.offsets, s.addr, i)
                       IN  [out |-> thash(b, <<s.out>>, a), addr |-> a])

wots_pk_from_sig(b, sig, msg, addr) ==
    LET lengths == chain_lengths(b, msg)
    IN  Loop([pk |-> <<>>, addr |-> addr], 0, b.wots_len,
             LAMBDA s, i :
                LET Chained(c) == [pk |-> Append(s.pk, c.out), addr |-> c.addr]
                IN  Chained(gen_chain(b, sig[i + 1], lengths[i + 1], SPX_WOTS_W - 1 - lengths[i + 1],
                                      set_chain_addr(b.offsets, s.addr, i))))

\* The chains by their steps, the longest first, equals in order.
SortedBySteps(b, steps) ==
    LET rank(i) == Cardinality({j \in Chains(b) : steps[j] > steps[i] \/ (steps[j] = steps[i] /\ j < i)})
    IN  [p \in 0 .. b.wots_len - 1 |-> CHOOSE i \in Chains(b) : rank(i) = p]

\* N chains from place i of the order on, hashed k times so far; the lanes
\* above the one watched are done and write to nowhere.
RECURSIVE RunChains(_, _, _, _, _, _, _, _, _)
RunChains(b, out, idxs, start, steps, addr, i, k, watching) ==
    IF k = steps[idxs[i + watching]]
    THEN IF watching = 0 THEN out
         ELSE RunChains(b, out, idxs, start, steps, addr, i, k, watching - 1)
    ELSE LET live      == {idxs[i + j] : j \in 0 .. watching}
             at(c)     == set_hash_addr(b.offsets, set_chain_addr(b.offsets, addr, c - 1), k + start[c])
             hashed    == [c \in Chains(b) |-> IF c \in live THEN thash(b, <<out[c]>>, at(c)) ELSE out[c]]
         IN  RunChains(b, hashed, idxs, start, steps, addr, i, k + 1, watching)

\* N at a time; the fault forgets the chains left over.
FullGroupsOnly(N, b, in, start, steps, addr) ==
    LET idxs == SortedBySteps(b, steps)
    IN  Loop(in, 0, b.wots_len \div N,
             LAMBDA out, g : RunChains(b, out, idxs, start, steps, addr, g * N, 0, N - 1))
gen_chainsN(N, b, in, start, steps, addr) ==
    LET idxs == SortedBySteps(b, steps)
    IN  Loop(in, 0, (b.wots_len + N - 1) \div N,
             LAMBDA out, g : RunChains(b, out, idxs, start, steps, addr, g * N, 0,
                                       Min({N - 1, b.wots_len - 1 - g * N})))
gen_chainsx4(b, in, start, steps, addr) == gen_chainsN(4, b, in, start, steps, addr)
gen_chainsx2(b, in, start, steps, addr) == gen_chainsN(2, b, in, start, steps, addr)
gen_chainsx8(b, in, start, steps, addr) == gen_chainsN(8, b, in, start, steps, addr)

StepsLeft(b, start) == [i \in Chains(b) |-> SPX_WOTS_W - 1 - start[i]]
wots_pk_from_sigx4(b, sig, msg, addr) ==
    LET start == chain_lengthsx4(b, msg) IN gen_chainsx4(b, sig, start, StepsLeft(b, start), addr)
wots_pk_from_sigx2(b, sig, msg, addr) ==
    LET start == chain_lengthsx2(b, msg) IN gen_chainsx2(b, sig, start, StepsLeft(b, start), addr)
wots_pk_from_sigx8(b, sig, msg, addr) ==
    LET start == chain_lengthsx8(b, msg) IN gen_chainsx8(b, sig, start, StepsLeft(b, start), addr)

(***************************************************************************)
(* Public keys of N neighbouring leaves; of the one that signs, each       *)
(* chain's value is kept when it has been hashed wots_steps times.         *)
(***************************************************************************)
\* The secret at a chain's foot.  The faults leave the last step's hash
\* number in its address, and the type of the steps.
PrfAddrOfLastStep(o, addr, i) ==
    set_type(o, set_chain_addr(o, addr, i), SPX_ADDR_TYPE_WOTSPRF)
PrfAddrOfSteps(o, addr, i) ==
    set_hash_addr(o, set_chain_addr(o, addr, i), 0)
PrfAddr(o, addr, i) ==
    set_type(o, set_hash_addr(o, set_chain_addr(o, addr, i), 0), SPX_ADDR_TYPE_WOTSPRF)

Kept(info, signs, i, k, value) ==
    [info EXCEPT !.wots_sig[i + 1] = IF signs /\ k = info.wots_steps[i + 1] THEN value ELSE @]

wots_gen_leafxN(N, b, info, leaf_idx) ==
    LET o     == b.offsets
        lanes == 0 .. N - 1
        signs == leaf_idx \div N = info.wots_sign_leaf \div N
        slot  == IF signs THEN info.wots_sign_leaf % N ELSE 0
        keyed == [info EXCEPT !.leaf_addr = [l \in lanes |-> set_keypair_addr(o, @[l], leaf_idx + l)],
                              !.pk_addr   = [l \in lanes |-> set_keypair_addr(o, @[l], leaf_idx + l)]]
        Step(t, k) ==
            LET kept  == Kept(t.info, signs, t.chain, k, t.buffer[slot])
                addrs == [l \in lanes |-> set_hash_addr(o, kept.leaf_addr[l], k)]
            IN  [t EXCEPT !.info = [kept EXCEPT !.leaf_addr = addrs],
                          !.buffer = [l \in lanes |-> thash(b, <<@[l]>>, addrs[l])]]
        Top(t, pk) == [info |-> Kept(t.info, signs, t.chain, SPX_WOTS_W - 1, t.buffer[slot]),
                       pk   |-> [l \in lanes |-> Append(pk[l], t.buffer[l])]]
        Chain(s, i) ==
            LET prf == [l \in lanes |-> PrfAddr(o, s.info.leaf_addr[l], i)]
                ots == [l \in lanes |-> set_type(o, prf[l], SPX_ADDR_TYPE_WOTS)]
            IN  Top(Loop([info |-> [s.info EXCEPT !.leaf_addr = ots], chain |-> i,
                          buffer |-> [l \in lanes |-> prf_addr(b, prf[l])]], 0, SPX_WOTS_W - 1, Step),
                    s.pk)
        Leaves(s) == [info |-> s.info,
                      leaf |-> [l \in lanes |-> thash(b, s.pk[l], s.info.pk_addr[l])]]
    IN  Leaves(Loop([info |-> keyed, pk |-> [l \in lanes |-> <<>>]], 0, b.wots_len, Chain))

wots_gen_leafx1_scalar_ref(b, info, leaf_idx) == wots_gen_leafxN(1, b, info, leaf_idx)
wots_gen_leafx2(b, info, leaf_idx) == wots_gen_leafxN(2, b, info, leaf_idx)
wots_gen_leafx4(b, info, leaf_idx) == wots_gen_leafxN(4, b, info, leaf_idx)
wots_gen_leafx8(b, info, leaf_idx) == wots_gen_leafxN(8, b, info, leaf_idx)

\* One leaf, its chains four at a time, those left over one by one.
wots_gen_leafx1_batch_ref(b, info, leaf_idx) ==
    LET o     == b.offsets
        signs == leaf_idx = info.wots_sign_leaf
        keyed == [info EXCEPT !.leaf_addr[0] = set_keypair_addr(o, @, leaf_idx),
                              !.pk_addr[0]   = set_keypair_addr(o, @, leaf_idx)]
        Seed(s, i) ==                    \* the address goes to a copy
            LET prf == PrfAddr(o, s.info.leaf_addr[0], i)
            IN  [s EXCEPT !.info.leaf_addr[0] = prf,
                          !.buf = Append(@, prf_addr(b, prf)),
                          !.addr = Append(@, set_type(o, prf, SPX_ADDR_TYPE_WOTS))]
        KeepAll(inf, first, k, buf) ==
            Loop(inf, 1, Len(buf) + 1, LAMBDA n, j : Kept(n, signs, first + j - 1, k, buf[j]))
        Step(t, k) ==
            LET addrs == [j \in DOMAIN t.addr |-> set_hash_addr(o, t.addr[j], k)]
                kept  == KeepAll(t.info, t.first, k, t.buf)
            IN  [t EXCEPT !.info = [kept EXCEPT !.stats = spx_thashx4_batch_record_x4(@, "wots_gen_pk")],
                          !.buf = [j \in DOMAIN @ |-> thash(b, <<@[j]>>, addrs[j])],
                          !.addr = addrs]
        Tops(t, pk) == [info |-> KeepAll(t.info, t.first, SPX_WOTS_W - 1, t.buf), pk |-> pk \o t.buf]
        Four(s, g) ==
            Tops(Loop(Loop([info |-> s.info, first |-> 4 * g, buf |-> <<>>, addr |-> <<>>],
                           4 * g, 4 * g + 4, Seed), 0, SPX_WOTS_W - 1, Step), s.pk)
        Top(t, i, pk) == [info |-> Kept(t.info, signs, i, SPX_WOTS_W - 1, t.buf),
                          pk   |-> Append(pk, t.buf)]
        One(s, i) ==
            LET prf     == PrfAddr(o, s.info.leaf_addr[0], i)
                Hash(t, k) ==
                    LET a == set_hash_addr(o, t.info.leaf_addr[0], k)
                    IN  [info |-> [Kept(t.info, signs, i, k, t.buf) EXCEPT
                                      !.leaf_addr[0] = a,
                                      !.stats = spx_thashx4_batch_record_scalar(@, "wots_gen_pk", 1)],
                         buf  |-> thash(b, <<t.buf>>, a)]
            IN  Top(Loop([info |-> [s.info EXCEPT !.leaf_addr[0] = set_type(o, prf, SPX_ADDR_TYPE_WOTS)],
                          buf  |-> prf_addr(b, prf)], 0, SPX_WOTS_W - 1, Hash), i, s.pk)
        Leaf(s) == [info |-> s.info, leaf |-> [l \in {0} |-> thash(b, s.pk, s.info.pk_addr[0])]]
    IN  Leaf(Loop(Loop([info |-> keyed, pk |-> <<>>], 0, b.wots_len \div 4, Four),
                  4 * (b.wots_len \div 4), b.wots_len, One))

wots_gen_leafx1(b, info, leaf_idx) ==
    IF b.code = "batch" THEN wots_gen_leafx1_batch_ref(b, info, leaf_idx)
    ELSE wots_gen_leafx1_scalar_ref(b, info, leaf_idx)

----------------------------------------------------------------------------
(***************************************************************************)
(* Leaves of a FORS tree, N side by side.                                  *)
(***************************************************************************)
fors_gen_sk(b, addr)          == prf_addr(b, addr)
fors_sk_to_leaf(b, sk, addr)  == thash(b, <<sk>>, addr)

fors_gen_leafxN(N, b, info, addr_idx) ==
    LET prf    == [l \in 0 .. N - 1 |->
                      set_type(b.offsets, set_tree_index(b.offsets, info.leaf_addrx[l], addr_idx + l),
                               SPX_ADDR_TYPE_FORSPRF)]
        hashed == [l \in 0 .. N - 1 |-> set_type(b.offsets, prf[l], SPX_ADDR_TYPE_FORSTREE)]
    IN  [info |-> [info EXCEPT !.leaf_addrx = hashed],
         leaf |-> [l \in 0 .. N - 1 |-> fors_sk_to_leaf(b, fors_gen_sk(b, prf[l]), hashed[l])]]
fors_gen_leafx1(b, info, addr_idx) == fors_gen_leafxN(1, b, info, addr_idx)
fors_gen_leafx2(b, info, addr_idx) == fors_gen_leafxN(2, b, info, addr_idx)
fors_gen_leafx4(b, info, addr_idx) == fors_gen_leafxN(4, b, info, addr_idx)
fors_gen_leafx8(b, info, addr_idx) == fors_gen_leafxN(8, b, info, addr_idx)

\* The callback that makes a tree's leaves, by its name.
gen_leaf(b, name, info, idx) ==
    CASE name = "wots_gen_leafx1" -> wots_gen_leafx1(b, info, idx)
      [] name = "wots_gen_leafx2" -> wots_gen_leafx2(b, info, idx)
      [] name = "wots_gen_leafx4" -> wots_gen_leafx4(b, info, idx)
      [] name = "wots_gen_leafx8" -> wots_gen_leafx8(b, info, idx)
      [] name = "fors_gen_leafx1" -> fors_gen_leafx1(b, info, idx)
      [] name = "fors_gen_leafx2" -> fors_gen_leafx2(b, info, idx)
      [] name = "fors_gen_leafx4" -> fors_gen_leafx4(b, info, idx)
      [] name = "fors_gen_leafx8" -> fors_gen_leafx8(b, info, idx)

----------------------------------------------------------------------------
(***************************************************************************)
(* Hash trees.  s keeps the left nodes waiting, by height, and what        *)
(* leaves, authentication path and addresses have come to.                 *)
(***************************************************************************)
RECURSIVE Climbx1(_, _, _, _, _, _, _, _)
Climbx1(b, s, node, idx, h, internal_idx, internal_leaf, internal_offset) ==
    IF h = s.height THEN [s EXCEPT !.root = node]
    ELSE LET sibling == internal_idx # internal_leaf /\ internal_idx \div 2 = internal_leaf \div 2
             noted   == [s EXCEPT !.auth[h + 1] = IF sibling THEN node ELSE @]
             a       == set_tree_index(b.offsets, set_tree_height(b.offsets, s.addr, h + 1),
                                       internal_idx \div 2 + internal_offset \div 2)
         IN  IF internal_idx % 2 = 0 /\ idx < 2 ^ s.height - 1
             THEN [noted EXCEPT !.stack[h] = node]
             ELSE Climbx1(b, [noted EXCEPT !.addr = a], thash(b, <<s.stack[h], node>>, a), idx, h + 1,
                          internal_idx \div 2, internal_leaf \div 2, internal_offset \div 2)

TreeStart(height, addr, info, none) ==
    [height |-> height, addr |-> addr, info |-> info, root |-> Uninitialized,
     auth |-> [h \in 1 .. height |-> Uninitialized], stack |-> [h \in 0 .. height - 1 |-> none],
     left_adj |-> 0]

treehashx1(b, leaf_idx, idx_offset, height, callback, addr, info) ==
    Loop(TreeStart(height, addr, info, Uninitialized), 0, 2 ^ height,
         LAMBDA s, idx :
            LET Grown(g) == Climbx1(b, [s EXCEPT !.info = g.info], g.leaf[0], idx, 0, idx,
                                    leaf_idx, idx_offset)
            IN  Grown(gen_leaf(b, callback, s.info, idx + idx_offset)))

\* N neighbouring nodes at a time.  In the log N levels at the top they are
\* the last ones of current; what stands to their left is not of the tree.
RECURSIVE ClimbxN(_, _, _, _, _, _, _, _, _)
ClimbxN(N, b, s, nodes, idx, h, internal_idx, internal_leaf, internal_offset) ==
    IF h = s.height THEN [s EXCEPT !.root = nodes[N - 1]]
    ELSE
    LET top      == 2 ^ (s.height - h) <= N
        left_adj == IF top THEN N - 2 ^ (s.height - h - 1) ELSE s.left_adj
        prev_adj == IF top THEN s.left_adj ELSE 0
        onPath   == internal_leaf \div N = internal_idx
        noted    == [s EXCEPT !.left_adj = left_adj,
                              !.auth[h + 1] = IF onPath
                                              THEN nodes[(IF internal_leaf % 2 = 0 THEN 1 ELSE -1)
                                                         + (internal_leaf % N) + prev_adj]
                                              ELSE @]
        addrs    == [j \in 0 .. N - 1 |->
                        set_tree_index(b.offsets, set_tree_height(b.offsets, s.addr[j], h + 1),
                                       (N \div 2) * (internal_idx - (internal_idx % 2)) + j - left_adj
                                           + internal_offset \div 2)]
        children == [c \in 0 .. 2 * N - 1 |-> IF c < N THEN s.stack[h][c] ELSE nodes[c - N]]
    IN  IF internal_idx % 2 = 0 /\ (idx + 1) * N < 2 ^ s.height
        THEN [noted EXCEPT !.stack[h] = nodes]
        ELSE ClimbxN(N, b, [noted EXCEPT !.addr = addrs],
                     [j \in 0 .. N - 1 |-> thash(b, <<children[2 * j], children[2 * j + 1]>>, addrs[j])],
                     idx, h + 1, internal_idx \div 2, internal_leaf \div 2, internal_offset \div 2)

treehashxN(N, b, leaf_idx, idx_offset, height, callback, addr, info) ==
    Loop(TreeStart(height, addr, info, [l \in 0 .. N - 1 |-> Uninitialized]), 0, 2 ^ height \div N,
         LAMBDA s, idx :
            LET Grown(g) == ClimbxN(N, b, [s EXCEPT !.info = g.info], g.leaf, idx, 0, idx,
                                    leaf_idx, idx_offset)
            IN  Grown(gen_leaf(b, callback, s.info, N * idx + idx_offset)))
treehashx2(b, leaf_idx, idx_offset, height, callback, addr, info) ==
    treehashxN(2, b, leaf_idx, idx_offset, height, callback, addr, info)
treehashx4(b, leaf_idx, idx_offset, height, callback, addr, info) ==
    treehashxN(4, b, leaf_idx, idx_offset, height, callback, addr, info)
treehashx8(b, leaf_idx, idx_offset, height, callback, addr, info) ==
    treehashxN(8, b, leaf_idx, idx_offset, height, callback, addr, info)
treehash(N, b, leaf_idx, idx_offset, height, callback, addr, info) ==
    CASE N = 2 -> treehashx2(b, leaf_idx, idx_offset, height, callback, addr, info)
      [] N = 4 -> treehashx4(b, leaf_idx, idx_offset, height, callback, addr, info)
      [] N = 8 -> treehashx8(b, leaf_idx, idx_offset, height, callback, addr, info)

\* A root from a leaf and its path; the neighbour stands left of an odd node.
compute_root(b, leaf, leaf_idx, idx_offset, auth, height, addr) ==
    Loop([node |-> leaf, addr |-> addr], 0, height,
         LAMBDA s, h :
            LET a     == set_tree_index(b.offsets, set_tree_height(b.offsets, s.addr, h + 1),
                                        leaf_idx \div 2 ^ (h + 1) + idx_offset \div 2 ^ (h + 1))
                right == (leaf_idx \div 2 ^ h) % 2 = 1
            IN  [node |-> thash(b, IF right THEN <<auth[h + 1], s.node>> ELSE <<s.node, auth[h + 1]>>, a),
                 addr |-> a])

----------------------------------------------------------------------------
(***************************************************************************)
(* FORS                                                                    *)
(***************************************************************************)
BitOf(m, place) == (m[place \div 8 + 1] \div 2 ^ (place % 8)) % 2
message_to_indices(b, m) ==
    [i \in 0 .. b.fors_trees - 1 |->
        MapThenSumSet(LAMBDA j : BitOf(m, i * b.fors_height + j) * 2 ^ j, 0 .. b.fors_height - 1)]
message_to_indicesx4(b, m) == message_to_indices(b, m)
message_to_indicesx2(b, m) == message_to_indices(b, m)
message_to_indicesx8(b, m) == message_to_indices(b, m)

\* The batching reference: level after level, four nodes at a time as long
\* as there are four, each under an address made from nothing.
FreshAddr(b, addr, type, h, index) ==
    set_tree_index(b.offsets, set_tree_height(b.offsets, set_type(b.offsets,
        copy_keypair_addr(b.offsets, NoAddr, addr), type), h), index)

fors_gen_leaf_batch(b, first_idx, addr) ==
    fors_sk_to_leaf(b, fors_gen_sk(b, FreshAddr(b, addr, SPX_ADDR_TYPE_FORSPRF, 0, first_idx)),
                    FreshAddr(b, addr, SPX_ADDR_TYPE_FORSTREE, 0, first_idx))

RECURSIVE RecordX4(_, _, _)
RecordX4(stats, region, calls) ==
    IF calls = 0 THEN stats
    ELSE RecordX4(spx_thashx4_batch_record_x4(stats, region), region, calls - 1)
\* Four jobs to a batch, and the rest one by one; the fault forgets the rest.
RecordFullBatches(stats, region, jobs) == RecordX4(stats, region, jobs \div 4)
RecordLevel(stats, region, jobs) ==
    spx_thashx4_batch_record_scalar(RecordX4(stats, region, jobs \div 4), region, jobs % 4)

fors_treehashx4_sign(b, leaf_idx, idx_offset, height, addr, stats) ==
    LET Level(s, h) ==
            LET parents == 2 ^ (height - h - 1)
            IN  [auth  |-> Append(s.auth, s.current[IF (leaf_idx \div 2 ^ h) % 2 = 1
                                                    THEN leaf_idx \div 2 ^ h - 1
                                                    ELSE leaf_idx \div 2 ^ h + 1]),
                 current |-> [p \in 0 .. parents - 1 |->
                                thash(b, <<s.current[2 * p], s.current[2 * p + 1]>>,
                                      FreshAddr(b, addr, SPX_ADDR_TYPE_FORSTREE, h + 1,
                                                idx_offset \div 2 ^ (h + 1) + p))],
                 stats |-> RecordLevel(s.stats, "fors_internal", parents)]
        leaves == [i \in 0 .. 2 ^ height - 1 |-> fors_gen_leaf_batch(b, idx_offset + i, addr)]
        Tree(top) == [root |-> top.current[0], auth |-> top.auth, stats |-> top.stats]
    IN  Tree(Loop([auth |-> <<>>, current |-> leaves,
                   stats |-> RecordLevel(stats, "fors_leaf", 2 ^ height)], 0, height, Level))

ForsOffset(b, i)  == i * 2 ^ b.fors_height
ForsKeyed(b, addr) == copy_keypair_addr(b.offsets, NoAddr, addr)
ForsPk(b, roots, addr) ==
    thash(b, roots, set_type(b.offsets, ForsKeyed(b, addr), SPX_ADDR_TYPE_FORSPK))
AtLeaf(b, addr, type, index) ==
    set_type(b.offsets, set_tree_index(b.offsets, set_tree_height(b.offsets, addr, 0), index), type)

fors_sign(b, m, addr, stats) ==
    LET indices == message_to_indices(b, m)
        Tree(s, i) ==
            LET prf  == AtLeaf(b, s.addr, SPX_ADDR_TYPE_FORSPRF, indices[i] + ForsOffset(b, i))
                tree == set_type(b.offsets, prf, SPX_ADDR_TYPE_FORSTREE)
                Batched(t) == [s EXCEPT !.sig = (@ \o <<fors_gen_sk(b, prf)>>) \o t.auth,
                                        !.roots = Append(@, t.root), !.addr = tree, !.stats = t.stats]
                Scalar(t)  == [s EXCEPT !.sig = (@ \o <<fors_gen_sk(b, prf)>>) \o t.auth,
                                        !.roots = Append(@, t.root), !.addr = t.addr, !.info = t.info]
            IN  IF b.code = "batch"
                THEN Batched(fors_treehashx4_sign(b, indices[i], ForsOffset(b, i), b.fors_height, tree,
                                                  s.stats))
                ELSE Scalar(treehashx1(b, indices[i], ForsOffset(b, i), b.fors_height,
                                       "fors_gen_leafx1", tree, s.info))
        Signed(s) == [sig |-> s.sig, pk |-> ForsPk(b, s.roots, addr), stats |-> s.stats]
    IN  Signed(Loop([sig |-> <<>>, roots |-> <<>>, addr |-> ForsKeyed(b, addr), stats |-> stats,
                     info |-> [leaf_addrx |-> [l \in {0} |-> ForsKeyed(b, addr)]]],
                    0, b.fors_trees, Tree))

\* The selected leaf's secret is derived under the first lane's address.
fors_signxN(N, b, addr, indices, callback) ==
    LET Tree(s, i) ==
            LET prf  == AtLeaf(b, s.addr[0], SPX_ADDR_TYPE_FORSPRF, indices[i] + ForsOffset(b, i))
                tree == [s.addr EXCEPT ![0] = set_type(b.offsets, prf, SPX_ADDR_TYPE_FORSTREE)]
                Hashed(t) == [sig |-> (s.sig \o <<fors_gen_sk(b, prf)>>) \o t.auth,
                              roots |-> Append(s.roots, t.root), addr |-> t.addr, info |-> t.info]
            IN  Hashed(treehash(N, b, indices[i], ForsOffset(b, i), b.fors_height, callback, tree, s.info))
        typed == set_type(b.offsets, ForsKeyed(b, addr), SPX_ADDR_TYPE_FORSTREE)
        Signed(s) == [sig |-> s.sig, pk |-> ForsPk(b, s.roots, addr)]
    IN  Signed(Loop([sig |-> <<>>, roots |-> <<>>, addr |-> [l \in 0 .. N - 1 |-> typed],
                     info |-> [leaf_addrx |-> [l \in 0 .. N - 1 |-> ForsKeyed(b, addr)]]],
                    0, b.fors_trees, Tree))
fors_signx4(b, m, addr) ==
    fors_signxN(4, b, addr, message_to_indicesx4(b, m), "fors_gen_leafx4")
fors_signx2(b, m, addr) ==
    fors_signxN(2, b, addr, message_to_indicesx2(b, m), "fors_gen_leafx2")
fors_signx8(b, m, addr) ==
    fors_signxN(8, b, addr, message_to_indicesx8(b, m), "fors_gen_leafx8")

ForsPkFromSig(b, sig, indices, addr) ==
    LET Tree(s, i) ==
            LET at   == AtLeaf(b, s.addr, SPX_ADDR_TYPE_FORSTREE, indices[i] + ForsOffset(b, i))
                part == i * (b.fors_height + 1)
                Rooted(r) == [roots |-> Append(s.roots, r.node), addr |-> r.addr]
            IN  Rooted(compute_root(b, fors_sk_to_leaf(b, sig[part + 1], at), indices[i], ForsOffset(b, i),
                                    SubSeq(sig, part + 2, part + b.fors_height + 1), b.fors_height, at))
    IN  ForsPk(b, Loop([roots |-> <<>>, addr |-> ForsKeyed(b, addr)], 0, b.fors_trees, Tree).roots, addr)
fors_pk_from_sig(b, sig, m, addr)   == ForsPkFromSig(b, sig, message_to_indices(b, m), addr)
fors_pk_from_sigx4(b, sig, m, addr) == ForsPkFromSig(b, sig, message_to_indicesx4(b, m), addr)
fors_pk_from_sigx2(b, sig, m, addr) == ForsPkFromSig(b, sig, message_to_indicesx2(b, m), addr)
fors_pk_from_sigx8(b, sig, m, addr) == ForsPkFromSig(b, sig, message_to_indicesx8(b, m), addr)

----------------------------------------------------------------------------
(***************************************************************************)
(* merkle: a subtree of WOTS+ keys, one of which signs.                    *)
(***************************************************************************)
LeafInfo(b, steps, leaf_addr, pk_addr, idx_leaf, stats) ==
    [wots_sig |-> [i \in Chains(b) |-> Uninitialized], wots_steps |-> steps, wots_sign_leaf |-> idx_leaf,
     leaf_addr |-> leaf_addr, pk_addr |-> pk_addr, stats |-> stats]

\* The caller's tree_addr goes on being used; wots_addr does not change.
merkle_sign(b, digest, wots_addr, tree_addr, idx_leaf, stats) ==
    LET o  == b.offsets
        pk == copy_subtree_addr(o, set_type(o, NoAddr, SPX_ADDR_TYPE_WOTSPK), wots_addr)
        Signed(t) == [sig |-> t.info.wots_sig \o t.auth, root |-> t.root, addr |-> t.addr,
                      stats |-> t.info.stats]
    IN  Signed(treehashx1(b, idx_leaf, 0, b.tree_height, "wots_gen_leafx1",
                          set_type(o, tree_addr, SPX_ADDR_TYPE_HASHTREE),
                          LeafInfo(b, chain_lengths(b, digest),
                                   [l \in {0} |-> copy_subtree_addr(o, NoAddr, wots_addr)],
                                   [l \in {0} |-> pk], idx_leaf, stats)))

merkle_signxN(N, b, steps, wots_addr, tree_addr, idx_leaf, callback) ==
    LET o           == b.offsets
        Typed(type, addr) == [l \in 0 .. N - 1 |-> copy_subtree_addr(o, set_type(o, NoAddr, type), addr)]
        Signed(t) == [sig |-> t.info.wots_sig \o t.auth, root |-> t.root, addr |-> tree_addr]
    IN  Signed(treehash(N, b, idx_leaf, 0, b.tree_height, callback, Typed(SPX_ADDR_TYPE_HASHTREE, tree_addr),
                        LeafInfo(b, steps, Typed(SPX_ADDR_TYPE_WOTS, wots_addr),
                                 Typed(SPX_ADDR_TYPE_WOTSPK, wots_addr), idx_leaf,
                                 spx_thashx4_batch_reset)))
merkle_signx4(b, digest, wots_addr, tree_addr, idx_leaf) ==
    merkle_signxN(4, b, chain_lengthsx4(b, digest), wots_addr, tree_addr, idx_leaf, "wots_gen_leafx4")
merkle_signx2(b, digest, wots_addr, tree_addr, idx_leaf) ==
    merkle_signxN(2, b, chain_lengthsx2(b, digest), wots_addr, tree_addr, idx_leaf, "wots_gen_leafx2")
merkle_signx8(b, digest, wots_addr, tree_addr, idx_leaf) ==
    merkle_signxN(8, b, chain_lengthsx8(b, digest), wots_addr, tree_addr, idx_leaf, "wots_gen_leafx8")

\* No leaf signs, and the digest that would be signed was never written.
NoLeaf == -1
TopAddr(b) == set_layer_addr(b.offsets, NoAddr, b.d - 1)
merkle_gen_root(b, garbage) ==
    merkle_sign(b, garbage, TopAddr(b), TopAddr(b), NoLeaf, spx_thashx4_batch_reset).root
merkle_gen_rootx4(b, garbage) == merkle_signx4(b, garbage, TopAddr(b), TopAddr(b), NoLeaf).root
merkle_gen_rootx2(b, garbage) == merkle_signx2(b, garbage, TopAddr(b), TopAddr(b), NoLeaf).root
merkle_gen_rootx8(b, garbage) == merkle_signx8(b, garbage, TopAddr(b), TopAddr(b), NoLeaf).root
=============================================================================
