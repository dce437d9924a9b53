------------------------------ MODULE ThashX4 ------------------------------
(***************************************************************************)
(* Thash as a function: the block a request absorbs, what four lanes       *)
(* return for it, and the WOTS+ chain one lane after another would walk.   *)
(***************************************************************************)
EXTENDS SpxWords

CONSTANT Thash(_)          \* the digest of an absorbed block

\* pub_seed, the address and the message, 16 or 32 bytes of it; the padding
\* follows from the length of the message.
BuildAbsorbState(seed, addr, in, inblocks) ==
    [seed |-> seed, addr |-> addr,
     msg |-> [i \in (IF inblocks = 2 THEN Wide ELSE Digest) |-> in[i]]]

\* The four blocks of a request, and the four digests.
AbsorbX4(req) ==
    [l \in Lane |-> BuildAbsorbState(req.seed, req.addr[l], req.in[l], req.inblocks)]
ThashX4(req) == [l \in Lane |-> Thash(AbsorbX4(req)[l])]

\* Step number step of a chain that has the value v.
ChainStep(seed, addr, step, v) ==
    Thash(BuildAbsorbState(seed, AddrWithHash(addr, step), ZeroExtend(v), 1))

\* num steps of a chain from v, the first one numbered start.
ScalarChain(seed, addr, start, num, v) ==
    LET f[n \in 0 .. num] == IF n = 0 THEN v
                             ELSE ChainStep(seed, addr, start + n - 1, f[n - 1])
    IN  f[num]
============================================================================
