-------------------------- MODULE MCThashX4Alone --------------------------
(***************************************************************************)
(* Bounds: four Keccak rounds instead of 24, so that there is a first, an  *)
(* inner and a last one; a request for each value of inblocks, and two for *)
(* 1 and 2, told apart by their seeds; the four lanes carry different      *)
(* addresses and messages.                                                 *)
(***************************************************************************)
EXTENDS ThashX4Alone

MCWord(name, i) == [src |-> <<name, i>>, msb |-> 0]

\* The digest of a block is known by the block.
MCThash(block) == [i \in Digest |-> [src |-> <<"thash", block, i>>, msb |-> 0]]

MCRequest(seed, inblocks) ==
    [seed |-> [i \in Digest |-> MCWord(seed, i)],
     addr |-> [l \in Lane |-> [i \in Wide |-> MCWord("addr", 8 * l + i)]],
     in   |-> [l \in Lane |-> [i \in Wide |-> MCWord("in", 8 * l + i)]],
     inblocks |-> inblocks]

MCRequests == {MCRequest("seedA", b) : b \in 0 .. 3} \cup {MCRequest("seedB", b) : b \in {1, 2}}

============================================================================
