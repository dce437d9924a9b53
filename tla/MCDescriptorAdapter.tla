------------------------ MODULE MCDescriptorAdapter ------------------------
(***************************************************************************)
(* Memory layout, in words: two descriptors with room for an inline seed,  *)
(* one set of buffers, and an address that is not on a 16-byte boundary.   *)
(* The headers cover each operation, each test of PARSE_DESC at its limit, *)
(* output over input, and output over the descriptor itself.               *)
(***************************************************************************)
EXTENDS DescriptorAdapterProps

D1 == 4
D2 == 16
SeedAt == 28
AddrAt == 32
InAt   == 64
OutAt  == 96
Odd    == 113
MCWordAddresses == 4 .. 117

MCWord(a) == [src |-> <<"mem", a>>, msb |-> 170]

\* Runs of memory words and whole digests are named by their first word, so
\* that the digest of a chain is known by a term of the chain's length.
Named(v) ==
    IF \/ /\ v[0].src[1] = "mem"
          /\ \A i \in DOMAIN v : v[i] = [v[0] EXCEPT !.src = <<"mem", v[0].src[2] + i>>]
       \/ /\ v[0].src[1] = "thash"
          /\ \A i \in DOMAIN v : v[i] = [v[0] EXCEPT !.src = <<"thash", v[0].src[2], i>>]
    THEN <<v[0]>> ELSE <<v, v>>

MCThash(block) ==
    LET term == [seed |-> Named(block.seed),
                 addr |-> Named([i \in 0 .. 6 |-> block.addr[i]]),
                 last |-> block.addr[7],
                 msg  |-> <<Named(block.msg), DOMAIN block.msg = Wide>>]
    IN  [i \in Digest |-> [src |-> <<"thash", term, i>>, msb |-> 0]]

MCHeader(inline, config, seed, addr, in, out, starts, nums) ==
    <<StatusWord(inline, FALSE, FALSE, ERR_NONE), config,
      PointerWord(seed), PointerWord(addr), PointerWord(in), PointerWord(out),
      BytesWord(starts[1], starts[2], starts[3], starts[4]),
      BytesWord(nums[1], nums[2], nums[3], nums[4])>>

NoStarts == <<0, 0, 0, 0>>
Good(op, inblocks) == ConfigWord(op, 1, 4, inblocks)
Buffers(config, starts, nums) == MCHeader(FALSE, config, SeedAt, AddrAt, InAt, OutAt, starts, nums)

Thash1     == Buffers(Good(0, 1), NoStarts, NoStarts)
Thash2Seed == MCHeader(TRUE, Good(0, 2), 1, AddrAt, InAt, OutAt, NoStarts, NoStarts)
InPlace    == MCHeader(FALSE, Good(0, 2), SeedAt, AddrAt, InAt, InAt, NoStarts, NoStarts)
OverHeader == MCHeader(FALSE, Good(0, 1), SeedAt, AddrAt, InAt, D1, NoStarts, NoStarts)
Uniform(start, num) == Buffers(Good(1, 0), NoStarts, <<start, num, 0, 0>>)
Mixed(starts, nums) == Buffers(Good(2, 0), starts, nums)
Chained    == MCHeader(FALSE, Good(2, 1), SeedAt, AddrAt, OutAt, OutAt, <<0, 16, 15, 13>>, <<1, 0, 1, 2>>)

Refusals == {
    Buffers(ConfigWord(3, 1, 4, 1), NoStarts, NoStarts),
    Buffers(ConfigWord(0, 1, 2, 1), NoStarts, NoStarts),
    Buffers(ConfigWord(1, 2, 4, 1), NoStarts, <<0, 1, 0, 0>>),
    Buffers(Good(0, 0), NoStarts, NoStarts),
    Buffers(Good(0, 3), NoStarts, NoStarts),
    Uniform(3, 0), Uniform(0, 16), Uniform(16, 1), Uniform(15, 2),
    Mixed(<<0, 17, 0, 0>>, <<1, 0, 0, 0>>),
    Mixed(<<0, 0, 0, 0>>, <<1, 0, 0, 16>>),
    Mixed(<<0, 0, 16, 0>>, <<1, 0, 1, 0>>),
    MCHeader(FALSE, Good(0, 1), SeedAt + 1, AddrAt, InAt, OutAt, NoStarts, NoStarts),
    MCHeader(FALSE, Good(0, 1), SeedAt, AddrAt + 2, InAt, OutAt, NoStarts, NoStarts),
    MCHeader(FALSE, Good(0, 1), SeedAt, AddrAt, InAt + 3, OutAt, NoStarts, NoStarts),
    MCHeader(FALSE, Good(0, 1), SeedAt, AddrAt, InAt, OutAt + 1, NoStarts, NoStarts)}

MCMemory(h1, h2) ==
    [a \in MCWordAddresses |-> CASE a \in D1 .. D1 + 7 -> h1[a - D1 + 1]
                                 [] a \in D2 .. D2 + 7 -> h2[a - D2 + 1]
                                 [] a = Odd -> StatusWord(FALSE, FALSE, FALSE, ERR_NONE)
                                 [] OTHER -> MCWord(a)]

----------------------------------------------------------------------------
(* One job of every kind and every refusal.                                *)
Jobs == {Thash1, Thash2Seed, InPlace, OverHeader, Chained,
         Uniform(14, 2), Uniform(0, 3), Mixed(<<0, 16, 15, 13>>, <<1, 0, 1, 3>>),
         Mixed(<<16, 16, 0, 3>>, <<0, 0, 0, 0>>)}

OneJobMemories == {MCMemory(h, Thash1) : h \in Jobs \cup Refusals}
OneJobStarts == {D1, Odd}

(* Two jobs in a row: the second one finds what the first one left.        *)
TwoJobMemories == {MCMemory(h, Chained) : h \in {Thash2Seed, Uniform(15, 1), Uniform(3, 0)}}
TwoJobStarts == {D1, D2, Odd}

(* A reset in the middle of a chain job and a job of either kind after it. *)
ResetMemories == {MCMemory(Thash1, Chained)}
ResetStarts == {D1, D2}
===========================================================================
