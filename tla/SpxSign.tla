------------------------------- MODULE SpxSign -------------------------------
(***************************************************************************)
(* A key pair is made, a message signed, signature and message carried to  *)
(* someone else and opened there.  What hashing a message or a signed root *)
(* gives is chosen beforehand, for the values the signer hashes; any other *)
(* value has another digest.                                               *)
(*                                                                         *)
(* Buffers are sequences of values of N bytes.  The carrier is not part of *)
(* the code: it may damage, cut off, lengthen or exchange what it carries. *)
(***************************************************************************)
EXTENDS SpxTrees, TLC

CONSTANTS Builds,       \* parameter sets with .code and .offsets
          DigestsOf(_), \* the digests a build is tried with: [mhash, tree, leaf, roots, garbage]
          Damaged       \* the places of the signature the carrier damages, from 1

VARIABLES gBuild,       \* how the library was compiled
          gDigests,
          gStep,        \* "new", "keyed", "signed", "sent", "opened"
          gKey,         \* [sk, pk]
          gSm,          \* the signature followed by the message
          gRoots,       \* what was signed, from the FORS key upwards (read by no code)
          gStats,       \* batch_scheduler's counters
          gCarried,     \* [sm, pk]: what arrives, and the key it is opened with
          gOpened       \* [ret, m]
signVars == <<gBuild, gDigests, gStep, gKey, gSm, gRoots, gStats, gCarried, gOpened>>

Value(name) == [fn |-> name, addr |-> <<>>, in |-> <<>>]
TheMessage  == <<Value("message")>>
Zeroes(n)   == [i \in 1 .. n |-> Value("zero")]

\* Lengths in values.
SigParts(b)  == b.bytes \div b.n
ForsParts(b) == (b.fors_height + 1) * b.fors_trees
SubtreeParts(b) == b.wots_len + b.tree_height

OtherBytes(bytes) == [i \in DOMAIN bytes |-> 255 - bytes[i]]
TreesOf(b)  == 2 ^ (b.full_height - b.tree_height)
LeavesOf(b) == 2 ^ b.tree_height

gen_message_random(sk) == [fn |-> "random", addr |-> <<>>, in |-> <<sk[2]>>]
hash_message(b, digests, sk, R, pk, m) ==
    IF <<R, pk, m>> = <<gen_message_random(sk), SubSeq(sk, 3, 4), TheMessage>>
    THEN [mhash |-> digests.mhash, tree |-> digests.tree, leaf |-> digests.leaf]
    ELSE [mhash |-> OtherBytes(digests.mhash), tree |-> (digests.tree + 1) % TreesOf(b),
          leaf |-> (digests.leaf + 1) % LeavesOf(b)]

\* The bytes of a node that is to be signed at layer i.
RootBytes(digests, signed, i, node) ==
    IF node = signed[i + 1] THEN digests.roots[i + 1] ELSE OtherBytes(digests.roots[i + 1])

----------------------------------------------------------------------------
(***************************************************************************)
(* The functions a build is linked from.                                   *)
(***************************************************************************)
GenRoot(b, garbage) ==
    CASE b.code = "x2" -> merkle_gen_rootx2(b, garbage)
      [] b.code = "x4" -> merkle_gen_rootx4(b, garbage)
      [] b.code = "x8" -> merkle_gen_rootx8(b, garbage)
      [] OTHER         -> merkle_gen_root(b, garbage)

MerkleSign(b, digest, wots_addr, tree_addr, leaf, stats) ==
    CASE b.code = "x2" -> merkle_signx2(b, digest, wots_addr, tree_addr, leaf) @@ [stats |-> stats]
      [] b.code = "x4" -> merkle_signx4(b, digest, wots_addr, tree_addr, leaf) @@ [stats |-> stats]
      [] b.code = "x8" -> merkle_signx8(b, digest, wots_addr, tree_addr, leaf) @@ [stats |-> stats]
      [] OTHER         -> merkle_sign(b, digest, wots_addr, tree_addr, leaf, stats)

ForsSign(b, mhash, addr, stats) ==
    CASE b.code = "x2" -> fors_signx2(b, mhash, addr) @@ [stats |-> stats]
      [] b.code = "x4" -> fors_signx4(b, mhash, addr) @@ [stats |-> stats]
      [] b.code = "x8" -> fors_signx8(b, mhash, addr) @@ [stats |-> stats]
      [] OTHER         -> fors_sign(b, mhash, addr, stats)

ForsKey(b, sig, mhash, addr) ==
    CASE b.code = "x2" -> fors_pk_from_sigx2(b, sig, mhash, addr)
      [] b.code = "x4" -> fors_pk_from_sigx4(b, sig, mhash, addr)
      [] b.code = "x8" -> fors_pk_from_sigx8(b, sig, mhash, addr)
      [] OTHER         -> fors_pk_from_sig(b, sig, mhash, addr)

WotsKey(b, sig, digest, addr) ==        \* the parallel codes leave the address alone
    CASE b.code = "x2" -> [pk |-> wots_pk_from_sigx2(b, sig, digest, addr), addr |-> addr]
      [] b.code = "x4" -> [pk |-> wots_pk_from_sigx4(b, sig, digest, addr), addr |-> addr]
      [] b.code = "x8" -> [pk |-> wots_pk_from_sigx8(b, sig, digest, addr), addr |-> addr]
      [] OTHER         -> wots_pk_from_sig(b, sig, digest, addr)

----------------------------------------------------------------------------
crypto_sign_seed_keypair(b, garbage) ==
    LET seed == <<Value("sk_seed"), Value("sk_prf"), Value("pub_seed")>>
        Pair(root) == [sk |-> Append(seed, root), pk |-> <<seed[3], root>>]
    IN  Pair(GenRoot(b, garbage))

\* Into the next layer: what named the tree names its leaf in the tree above.
Upwards(b, s) == [s EXCEPT !.leaf = s.tree % LeavesOf(b), !.tree = s.tree \div LeavesOf(b)]

LayerAddr(b, s, i) ==
    LET tree == set_tree_addr(b.offsets, set_layer_addr(b.offsets, s.tree_addr, i), s.tree)
    IN  [s EXCEPT !.tree_addr = tree,
                  !.wots_addr = set_keypair_addr(b.offsets, copy_subtree_addr(b.offsets, @, tree), s.leaf)]

MessageAddr(b, h) ==
    set_keypair_addr(b.offsets,
        set_tree_addr(b.offsets, set_type(b.offsets, NoAddr, SPX_ADDR_TYPE_WOTS), h.tree), h.leaf)
TreeAddr(b) == set_type(b.offsets, NoAddr, SPX_ADDR_TYPE_HASHTREE)

SignLayer(b, digests, s, i) ==
    LET t         == LayerAddr(b, s, i)
        Signed(k) == Upwards(b, [t EXCEPT !.sig = @ \o k.sig, !.roots = Append(@, k.root),
                                          !.tree_addr = k.addr, !.stats = k.stats])
    IN  Signed(MerkleSign(b, digests.roots[i + 1], t.wots_addr, t.tree_addr, t.leaf, t.stats))

SignHypertree(b, digests, R, h, fors) ==
    Loop([sig |-> <<R>> \o fors.sig, roots |-> <<fors.pk>>, stats |-> fors.stats, tree |-> h.tree,
          leaf |-> h.leaf, wots_addr |-> MessageAddr(b, h), tree_addr |-> TreeAddr(b)],
         0, b.d, LAMBDA s, i : SignLayer(b, digests, s, i))

crypto_sign_signature(b, digests, sk, m) ==
    LET R == gen_message_random(sk)
        h == hash_message(b, digests, sk, R, SubSeq(sk, 3, 4), m)
    IN  SignHypertree(b, digests, R, h,
                      ForsSign(b, h.mhash, MessageAddr(b, h), spx_thashx4_batch_reset))

crypto_sign_verify(b, digests, sk, signed, sig, m, pk) ==
    LET h    == hash_message(b, digests, sk, sig[1], pk, m)
        node == ForsKey(b, SubSeq(sig, 2, ForsParts(b) + 1), h.mhash, MessageAddr(b, h))
        Layer(s, i) ==
            LET t     == LayerAddr(b, s, i)
                pk_addr == copy_keypair_addr(b.offsets, s.pk_addr, t.wots_addr)
                first == 1 + ForsParts(b) + i * SubtreeParts(b)
                wots  == WotsKey(b, SubSeq(sig, first + 1, first + b.wots_len),
                                 RootBytes(digests, signed, i, s.node), t.wots_addr)
                up    == compute_root(b, thash(b, wots.pk, pk_addr), t.leaf, 0,
                                      SubSeq(sig, first + b.wots_len + 1, first + SubtreeParts(b)),
                                      b.tree_height, t.tree_addr)
            IN  Upwards(b, [t EXCEPT !.node = up.node, !.wots_addr = wots.addr, !.tree_addr = up.addr,
                                     !.pk_addr = pk_addr])
        top == Loop([node |-> node, tree |-> h.tree, leaf |-> h.leaf, wots_addr |-> MessageAddr(b, h),
                     tree_addr |-> TreeAddr(b),
                     pk_addr |-> set_type(b.offsets, NoAddr, SPX_ADDR_TYPE_WOTSPK)], 0, b.d, Layer)
    IN  IF Len(sig) = SigParts(b) /\ top.node = pk[2] THEN 0 ELSE -1

\* A message that is not genuine is overwritten, and the room of its signature.
Rejected(sm) == [ret |-> -1, mlen |-> 0, m |-> Zeroes(Len(sm))]
crypto_sign_open(b, digests, sk, signed, sm, pk) ==
    IF Len(sm) < SigParts(b) THEN Rejected(sm)
    ELSE LET sig == SubSeq(sm, 1, SigParts(b))
             m   == SubSeq(sm, SigParts(b) + 1, Len(sm))
         IN  IF crypto_sign_verify(b, digests, sk, signed, sig, m, pk) # 0 THEN Rejected(sm)
             ELSE [ret |-> 0, mlen |-> Len(m), m |-> m]

----------------------------------------------------------------------------
NoKey    == [sk |-> <<>>, pk |-> <<>>]
NotCarried == [sm |-> <<>>, pk |-> <<>>]
NotOpened  == [ret |-> 1, mlen |-> 0, m |-> <<>>]

SignInit ==
    /\ gBuild \in Builds
    /\ gDigests \in DigestsOf(gBuild)
    /\ gStep = "new"
    /\ gKey = NoKey /\ gSm = <<>> /\ gRoots = <<>> /\ gStats = spx_thashx4_batch_reset
    /\ gCarried = NotCarried /\ gOpened = NotOpened

Keygen ==
    /\ gStep = "new"
    /\ gKey' = crypto_sign_seed_keypair(gBuild, gDigests.garbage)
    /\ gStep' = "keyed"
    /\ UNCHANGED <<gBuild, gDigests, gSm, gRoots, gStats, gCarried, gOpened>>

Sign ==
    /\ gStep = "keyed"
    /\ \E s \in {crypto_sign_signature(gBuild, gDigests, gKey.sk, TheMessage)} :
          gSm' = s.sig \o TheMessage /\ gRoots' = s.roots /\ gStats' = s.stats
    /\ gStep' = "signed"
    /\ UNCHANGED <<gBuild, gDigests, gKey, gCarried, gOpened>>

Carry(sm, pk) ==
    /\ gStep = "signed"
    /\ gCarried' = [sm |-> sm, pk |-> pk]
    /\ gStep' = "sent"
    /\ UNCHANGED <<gBuild, gDigests, gKey, gSm, gRoots, gStats, gOpened>>
Deliver  == Carry(gSm, gKey.pk)
Damage   == \E p \in Damaged : Carry([gSm EXCEPT ![p] = Value("damaged")], gKey.pk)
Exchange == Carry([gSm EXCEPT ![Len(gSm)] = Value("exchanged")], gKey.pk)
Lengthen == Carry(Append(gSm, Value("added")), gKey.pk)
CutOff   == \E n \in 1 .. 2 : Carry(SubSeq(gSm, 1, Len(gSm) - n), gKey.pk)
Mistake  == Carry(gSm, [gKey.pk EXCEPT ![2] = Value("root")])

Open ==
    /\ gStep = "sent"
    /\ gOpened' = crypto_sign_open(gBuild, gDigests, gKey.sk, gRoots, gCarried.sm, gCarried.pk)
    /\ gStep' = "opened"
    /\ UNCHANGED <<gBuild, gDigests, gKey, gSm, gRoots, gStats, gCarried>>

SignNext == Keygen \/ Sign \/ Deliver \/ Damage \/ Exchange \/ Lengthen \/ CutOff \/ Mistake \/ Open
=============================================================================
