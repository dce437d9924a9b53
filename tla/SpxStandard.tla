----------------------------- MODULE SpxStandard -----------------------------
(***************************************************************************)
(* What keys and signatures are, by their definition: every node under the *)
(* address of its place, made from nothing.  The code's addresses are made *)
(* by overwriting fields, its nodes by going over the leaves once, some of *)
(* them side by side.  Then what signing costs.                            *)
(***************************************************************************)
EXTENDS SpxSign

\* type is followed by the key pair, the chain or height, and the hash or index.
At(b, layer, tree, type, kp, mid, last) ==
    LET o == b.offsets
    IN  [i \in 0 .. 31 |->
            IF i = o.layer THEN layer
            ELSE IF i \in o.tree .. o.tree + 7 THEN ByteOf(tree, o.tree + 7 - i)
            ELSE IF i = o.type THEN type
            ELSE IF i \in o.type + 1 .. o.type + 4 THEN ByteOf(kp, o.type + 4 - i)
            ELSE IF i = o.type + 8 THEN mid
            ELSE IF i \in o.type + 9 .. o.type + 12 THEN ByteOf(last, o.type + 12 - i) ELSE 0]

RECURSIVE Link(_, _, _, _, _, _)
Link(b, layer, tree, kp, c, k) ==
    IF k = 0 THEN prf_addr(b, At(b, layer, tree, SPX_ADDR_TYPE_WOTSPRF, kp, c, 0))
    ELSE thash(b, <<Link(b, layer, tree, kp, c, k - 1)>>, At(b, layer, tree, SPX_ADDR_TYPE_WOTS, kp, c, k - 1))

RECURSIVE Node(_, _, _, _, _)
Node(b, layer, tree, h, i) ==
    IF h = 0
    THEN thash(b, [c \in Chains(b) |-> Link(b, layer, tree, i, c - 1, SPX_WOTS_W - 1)],
               At(b, layer, tree, SPX_ADDR_TYPE_WOTSPK, i, 0, 0))
    ELSE thash(b, <<Node(b, layer, tree, h - 1, 2 * i), Node(b, layer, tree, h - 1, 2 * i + 1)>>,
               At(b, layer, tree, SPX_ADDR_TYPE_HASHTREE, 0, h, i))

ForsSecret(b, tree, kp, i) == prf_addr(b, At(b, 0, tree, SPX_ADDR_TYPE_FORSPRF, kp, 0, i))
RECURSIVE ForsNode(_, _, _, _, _)
ForsNode(b, tree, kp, h, i) ==
    thash(b, IF h = 0 THEN <<ForsSecret(b, tree, kp, i)>>
             ELSE <<ForsNode(b, tree, kp, h - 1, 2 * i), ForsNode(b, tree, kp, h - 1, 2 * i + 1)>>,
          At(b, 0, tree, SPX_ADDR_TYPE_FORSTREE, kp, h, i))

Neighbour(i) == IF i % 2 = 0 THEN i + 1 ELSE i - 1

\* Numbers from bytes: digits from the high end, FORS leaves from the low one.
BigEndian(bytes) == MapThenSumSet(LAMBDA k : bytes[k] * 256 ^ (Len(bytes) - k), DOMAIN bytes)
LittleEndian(bytes) == MapThenSumSet(LAMBDA k : bytes[k] * 256 ^ (k - 1), DOMAIN bytes)

DigitsOf(b, bytes) ==
    LET digit(v, len, i) == (v \div SPX_WOTS_W ^ (len - i)) % SPX_WOTS_W
        left == MapThenSumSet(LAMBDA i : SPX_WOTS_W - 1 - digit(BigEndian(bytes), b.wots_len1, i),
                              1 .. b.wots_len1)
    IN  [c \in Chains(b) |-> IF c <= b.wots_len1 THEN digit(BigEndian(bytes), b.wots_len1, c)
                             ELSE digit(left, b.wots_len2, c - b.wots_len1)]

ForsPart(b, digests, i) ==
    LET size == 2 ^ b.fors_height
        leaf == ((LittleEndian(digests.mhash) \div size ^ i) % size) + i * size
    IN  <<ForsSecret(b, digests.tree, digests.leaf, leaf)>> \o
        [h \in 1 .. b.fors_height |->
            ForsNode(b, digests.tree, digests.leaf, h - 1, Neighbour(leaf \div 2 ^ (h - 1)))]
ForsPublic(b, digests) ==
    thash(b, [i \in 1 .. b.fors_trees |->
                ForsNode(b, digests.tree, digests.leaf, b.fors_height, i - 1)],
          At(b, 0, digests.tree, SPX_ADDR_TYPE_FORSPK, digests.leaf, 0, 0))

\* The tree of layer i above, and its leaf that signs.
TreeAbove(b, digests, i) == digests.tree \div LeavesOf(b) ^ i
LeafAbove(b, digests, i) == IF i = 0 THEN digests.leaf ELSE TreeAbove(b, digests, i - 1) % LeavesOf(b)
SubtreePart(b, digests, i) ==
    LET tree == TreeAbove(b, digests, i)
        leaf == LeafAbove(b, digests, i)
        digits == DigitsOf(b, digests.roots[i + 1])
    IN  [c \in Chains(b) |-> Link(b, i, tree, leaf, c - 1, digits[c])] \o
        [h \in 1 .. b.tree_height |-> Node(b, i, tree, h - 1, Neighbour(leaf \div 2 ^ (h - 1)))]

PublicRoot(b) == Node(b, b.d - 1, 0, b.tree_height, 0)
StandardRoots(b, digests) ==
    <<ForsPublic(b, digests)>> \o
    [i \in 1 .. b.d |-> Node(b, i - 1, TreeAbove(b, digests, i - 1), b.tree_height, 0)]
StandardSignature(b, digests, sk) ==
    <<gen_message_random(sk)>>
        \o FlattenSeq([i \in 1 .. b.fors_trees |-> ForsPart(b, digests, i - 1)])
        \o FlattenSeq([i \in 1 .. b.d |-> SubtreePart(b, digests, i - 1)])

----------------------------------------------------------------------------
(***************************************************************************)
(* What is hashed for a signature, and the planner's account of it.        *)
(***************************************************************************)
RECURSIVE Hashes(_)
Hashes(values) ==
    LET hashed == {v \in values : v.fn \in {"prf", "thash"}}
    IN  IF hashed = {} THEN {} ELSE hashed \cup Hashes(UNION {Range(v.in) : v \in hashed})

\* profile's classes, and how many blocks each hashes.
spx_batch_thash_type(b, v) ==
    LET type == v.addr[b.offsets.type + 1]
    IN  CASE type = SPX_ADDR_TYPE_WOTS -> "wots_chain"
          [] type = SPX_ADDR_TYPE_WOTSPK -> "wots_pk_compression"
          [] type = SPX_ADDR_TYPE_FORSTREE /\ Len(v.in) = 1 -> "fors_leaf"
          [] type = SPX_ADDR_TYPE_FORSTREE /\ Len(v.in) = 2 -> "fors_internal"
          [] type = SPX_ADDR_TYPE_HASHTREE /\ Len(v.in) = 2 -> "merkle_internal"
          [] OTHER -> "other"

CeilDiv(value, divisor) == (value + divisor - 1) \div divisor
fill_counts(b) ==
    LET pks       == b.d * LeavesOf(b)
        groups    == CeilDiv(b.wots_len, 4)
        leaves    == b.fors_trees * 2 ^ b.fors_height
        internal  == b.fors_trees * (2 ^ b.fors_height - 1)
        merkle    == b.d * (LeavesOf(b) - 1)
    IN  [wots_pk_count |-> pks,
         wots_chain_useful_steps |-> pks * b.wots_len * (SPX_WOTS_W - 1),
         wots_chain_physical_lane_ops |-> pks * groups * 4 * (SPX_WOTS_W - 1),
         wots_chain_baseline_descriptors |-> pks * groups * (SPX_WOTS_W - 1),
         wots_chain_grouped_descriptors |-> pks * groups,
         fors_leaf_jobs |-> leaves, fors_internal_jobs |-> internal,
         fors_leaf_descriptors |-> CeilDiv(leaves, 4), fors_internal_descriptors |-> CeilDiv(internal, 4),
         merkle_internal_jobs |-> merkle, merkle_internal_descriptors |-> CeilDiv(merkle, 4),
         wots_prf_addr_calls |-> pks * b.wots_len, fors_prf_addr_calls |-> leaves + b.fors_trees,
         fors_pk_compression_calls |-> 1]

----------------------------------------------------------------------------
\* Every key and every signature is the one defined: in each of the five
\* codes, however the leaves were batched and whatever an address held
\* before, the root, the secrets, chains and neighbours given out and the
\* roots signed on the way are those of the places named by the digest.
SignatureIsStandard ==
    /\ gStep = "keyed" => gKey.sk[4] = PublicRoot(gBuild) /\ gKey.pk[2] = gKey.sk[4]
    /\ gStep = "signed" =>
        /\ SubSeq(gSm, 1, SigParts(gBuild)) = StandardSignature(gBuild, gDigests, gKey.sk)
        /\ gRoots = StandardRoots(gBuild, gDigests)

\* What arrives as it was signed opens to the message under the signer's key,
\* and nothing else does: damaged anywhere, of another message, cut off,
\* lengthened or under another key it is rejected and all of it overwritten.
OpensWhatWasSigned ==
    gStep = "opened" =>
        gOpened = IF gCarried = [sm |-> gSm, pk |-> gKey.pk]
                  THEN [ret |-> 0, mlen |-> Len(TheMessage), m |-> TheMessage]
                  ELSE [ret |-> -1, mlen |-> 0, m |-> Zeroes(Len(gCarried.sm))]

\* No address is hashed under for two things: not for a chain and a secret,
\* a node and a leaf, two trees or two layers, in the bytes the hash sees.
AddressesSeparate ==
    gStep = "signed" =>
        LET all == Hashes({gKey.sk[4]} \cup Range(gSm) \cup Range(gRoots))
        IN  Cardinality({v.addr : v \in all}) = Cardinality(all)

\* The planner counts what signing does: the hashes of each of profile's
\* classes are as many as its counts say (a FORS secret given out is derived
\* once more), and where thash is batched the counters account for each.
WorkMatchesSchedule ==
    gStep = "signed" =>
        LET all     == Hashes(Range(gRoots))
            counts  == fill_counts(gBuild)
            of(c)   == Cardinality({v \in all : v.fn = "thash" /\ spx_batch_thash_type(gBuild, v) = c})
            prf(t)  == Cardinality({v \in all : v.fn = "prf" /\ v.addr[gBuild.offsets.type + 1] = t})
            counted(r) == gStats[r].replaced_scalar_thash + gStats[r].scalar_fallback
        IN  /\ of("wots_chain") = counts.wots_chain_useful_steps
            /\ of("wots_pk_compression") = counts.wots_pk_count
            /\ of("fors_leaf") = counts.fors_leaf_jobs
            /\ of("fors_internal") = counts.fors_internal_jobs
            /\ of("merkle_internal") = counts.merkle_internal_jobs
            /\ of("other") = counts.fors_pk_compression_calls
            /\ prf(SPX_ADDR_TYPE_WOTSPRF) = counts.wots_prf_addr_calls
            /\ prf(SPX_ADDR_TYPE_FORSPRF) = counts.fors_prf_addr_calls - gBuild.fors_trees
            /\ gBuild.code = "batch" =>
                /\ counted("wots_gen_pk") = counts.wots_chain_useful_steps
                /\ counted("fors_leaf") = counts.fors_leaf_jobs
                /\ counted("fors_internal") = counts.fors_internal_jobs
                /\ gStats["wots_gen_pk"].thashx4_calls + gStats["wots_gen_pk"].scalar_fallback
                       >= counts.wots_chain_baseline_descriptors
=============================================================================
