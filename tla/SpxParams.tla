----------------------------- MODULE SpxParams -----------------------------
(***************************************************************************)
(* The parameter sets, one header each.  A header states seven numbers and *)
(* derives all sizes from them; w is 16 in every set.                      *)
(***************************************************************************)
EXTENDS Integers

\* SPX_WOTS_LEN2, precomputed.
WotsLen2(n) == IF n <= 8 THEN 2 ELSE IF n <= 136 THEN 3 ELSE 4

ParameterSet(family, n, full_height, d, fors_height, fors_trees, sha512) ==
    LET len1        == 2 * n
        len2        == WotsLen2(n)
        len         == len1 + len2
        tree_height == full_height \div d
        tree_bits   == tree_height * (d - 1)
    IN  [family |-> family, n |-> n, full_height |-> full_height, d |-> d,
         fors_height |-> fors_height, fors_trees |-> fors_trees, sha512 |-> sha512,
         wots_len1 |-> len1, wots_len2 |-> len2, wots_len |-> len,
         tree_height |-> tree_height, tree_bits |-> tree_bits,
         fors_msg_bytes |-> (fors_height * fors_trees + 7) \div 8,
         tree_bytes |-> (tree_bits + 7) \div 8,
         leaf_bytes |-> (tree_height + 7) \div 8,
         pk_bytes |-> 2 * n, sk_bytes |-> 4 * n,
         bytes |-> n + (fors_height + 1) * fors_trees * n + d * len * n + full_height * n]

shake_128s  == ParameterSet("shake", 16, 63,  7, 12, 14, FALSE)
shake_128f  == ParameterSet("shake", 16, 66, 22,  6, 33, FALSE)
shake_192s  == ParameterSet("shake", 24, 63,  7, 14, 17, FALSE)
shake_192f  == ParameterSet("shake", 24, 66, 22,  8, 33, FALSE)
shake_256s  == ParameterSet("shake", 32, 64,  8, 14, 22, FALSE)
shake_256f  == ParameterSet("shake", 32, 68, 17,  9, 35, FALSE)
sha2_128s   == ParameterSet("sha2", 16, 63,  7, 12, 14, FALSE)
sha2_128f   == ParameterSet("sha2", 16, 66, 22,  6, 33, FALSE)
sha2_192s   == ParameterSet("sha2", 24, 63,  7, 14, 17, TRUE)
sha2_192f   == ParameterSet("sha2", 24, 66, 22,  8, 33, TRUE)
sha2_256s   == ParameterSet("sha2", 32, 64,  8, 14, 22, TRUE)
sha2_256f   == ParameterSet("sha2", 32, 68, 17,  9, 35, TRUE)
haraka_128s == ParameterSet("haraka", 16, 63,  7, 12, 14, FALSE)
haraka_128f == ParameterSet("haraka", 16, 66, 22,  6, 33, FALSE)
haraka_192s == ParameterSet("haraka", 24, 63,  7, 14, 17, FALSE)
haraka_192f == ParameterSet("haraka", 24, 66, 22,  8, 33, FALSE)
haraka_256s == ParameterSet("haraka", 32, 64,  8, 14, 22, FALSE)
haraka_256f == ParameterSet("haraka", 32, 68, 17,  9, 35, FALSE)

AllSets == {shake_128s, shake_128f, shake_192s, shake_192f, shake_256s, shake_256f,
            sha2_128s, sha2_128f, sha2_192s, sha2_192f, sha2_256s, sha2_256f,
            haraka_128s, haraka_128f, haraka_192s, haraka_192f, haraka_256s, haraka_256f}

\* The digest of a message names the FORS leaves, the tree and its leaf.
DgstBytes(s) == s.fors_msg_bytes + s.tree_bytes + s.leaf_bytes

----------------------------------------------------------------------------
(***************************************************************************)
(* Where the fields of an address lie, in bytes from 0.                    *)
(***************************************************************************)
shake_offsets  == [layer |-> 3, tree |-> 8, type |-> 19, kp |-> 20,
                   chain |-> 27, hash |-> 31, hgt |-> 27, index |-> 28]
haraka_offsets == [layer |-> 3, tree |-> 8, type |-> 19, kp |-> 20,
                   chain |-> 27, hash |-> 31, hgt |-> 27, index |-> 28]
sha2_offsets   == [layer |-> 0, tree |-> 1, type |-> 9, kp |-> 10,
                   chain |-> 17, hash |-> 21, hgt |-> 17, index |-> 18]

Offsets(family) == IF family = "shake" THEN shake_offsets
                   ELSE IF family = "sha2" THEN sha2_offsets ELSE haraka_offsets
=============================================================================
