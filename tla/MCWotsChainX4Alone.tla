------------------------- MODULE MCWotsChainX4Alone -------------------------
(***************************************************************************)
(* Bounds: uniform windows at both ends of the chain, mixed windows with   *)
(* lanes that take no step and lanes that finish one after another, the    *)
(* longest window, and windows out of range by one on each of the three    *)
(* tests of start_config_ok.                                               *)
(***************************************************************************)
EXTENDS WotsChainX4Alone

MCWord(name, i) == [src |-> <<name, i>>, msb |-> 7]

\* The digest of a block is known by the block's chain value, the seed and
\* the address it was computed under.
MCThash(block) ==
    [i \in Digest |-> [src |-> <<"thash", block.seed[0].src, block.addr[0].src,
                                 block.addr[7], block.msg[0], i>>, msb |-> 0]]

MCJob(name, starts, nums) ==
    [seed |-> [i \in Digest |-> MCWord(name, i)],
     addr |-> [l \in Lane |-> [i \in Wide |-> MCWord("addr", 8 * l + i)]],
     in   |-> [l \in Lane |-> [i \in Digest |-> MCWord("in", 4 * l + i)]],
     start |-> [l \in Lane |-> starts[l + 1]],
     num   |-> [l \in Lane |-> nums[l + 1]]]

MCJobs == {
    MCJob("a", <<14, 14, 14, 14>>, <<2, 2, 2, 2>>),
    MCJob("b", <<0, 16, 15, 13>>, <<1, 0, 1, 3>>),
    MCJob("c", <<16, 3, 0, 5>>, <<0, 0, 0, 0>>),
    MCJob("d", <<0, 1, 0, 1>>, <<15, 15, 0, 14>>),
    MCJob("e", <<17, 0, 0, 0>>, <<0, 1, 1, 1>>),
    MCJob("f", <<0, 0, 16, 0>>, <<1, 1, 1, 1>>),
    MCJob("g", <<0, 0, 0, 0>>, <<0, 0, 0, 16>>)}
=============================================================================
