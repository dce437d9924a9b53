----------------------------- MODULE MCSoftware -----------------------------
(***************************************************************************)
(* The software's machines, model-checked in one run.  They share nothing: *)
(* every behaviour runs one of them, chosen at the start, and leaves the   *)
(* others as they are.                                                     *)
(***************************************************************************)
EXTENDS WotsGrouping, KeccakRounds, SpxHash, SpxStandard

VARIABLE part       \* the machine that runs

MCWindows == {[start |-> 0, num |-> 15], [start |-> 14, num |-> 2], [start |-> 16, num |-> 0],
              [start |-> 2, num |-> 15], [start |-> 1, num |-> 2]}
MCKeccakInputs == {[w \in KeccakWord |-> {}], [w \in KeccakWord |-> IF w = 7 THEN {0, 63} ELSE {w}]}
\* Around the end of a block, and of the room before SHA-2's bit count.
AroundRate(r)  == {0, 1, r - 1, r, r + 1}
AroundBlock(B) == {0, 1, B - 1, B, B + 1, 2 * B} \cup (B - B \div 8 - 2 .. B - B \div 8 + 1)
MCPieces == [size \in BlockSizes |-> IF size \in {64, 128} THEN {0, size, 2 * size} ELSE AroundRate(size)]
MCWholes == [size \in BlockSizes |-> IF size \in {64, 128} THEN AroundBlock(size)
                                     ELSE AroundRate(size) \cup {2 * size - 1, 2 * size, 2 * size + 1}]
MCThashSets    == {shake_128f, shake_192f, shake_256f, sha2_128f, sha2_192f, sha2_256f,
                   haraka_128f, haraka_192f, haraka_256f}
MCMessageSets  == AllSets
\* The lengths in use, and the shortest and both sides of where a checksum
\* takes a third digit.
MCDigitSets    == {shake_128f, shake_192f, shake_256f}
                    \cup {ParameterSet("shake", n, 6, 2, 4, 3, FALSE) : n \in {2, 8, 9}}

\* Hashes of two bytes, two layers of trees of eight leaves, three FORS trees
\* of sixteen: every code, and both layouts of addresses.
MCCodes  == {<<"shake", "ref">>, <<"sha2", "ref">>, <<"haraka", "ref">>, <<"shake", "batch">>,
             <<"shake", "x4">>, <<"haraka", "x4">>, <<"shake", "x2">>, <<"sha2", "x8">>}
MCBuilds == {ParameterSet(c[1], 2, 6, 2, 4, 3, FALSE) @@ [code |-> c[2], offsets |-> Offsets(c[1])]
                : c \in MCCodes}
\* Leaves at both ends of a tree and inside, chains unused and used up.
MCDigestsOf(b) ==
    {[mhash |-> <<33, 15>>, tree |-> 5, leaf |-> 2, roots |-> <<<<0, 255>>, <<18, 52>>>>,
      garbage |-> <<7, 9>>],
     [mhash |-> <<254, 8>>, tree |-> 0, leaf |-> 7, roots |-> <<<<0, 0>>, <<255, 255>>>>,
      garbage |-> <<255, 255>>],
     [mhash |-> <<80, 170>>, tree |-> 6, leaf |-> 5, roots |-> <<<<240, 1>>, <<128, 127>>>>,
      garbage |-> <<0, 0>>]}
\* One value of each kind: R, a secret, the neighbours of a FORS leaf, chains
\* of message and checksum, the neighbours in the lower and the upper tree.
MCDamaged == {1, 2, 3, 6, 17, 22, 23, 25, 30, 34}

GroupingParked == chains = <<>> /\ progress = "parked" /\ group = 0 /\ grouped = <<>> /\ stats = NoStats
KeccakParked   == kcode = "parked" /\ kround = 0 /\ kstate = <<>> /\ kparity = <<>> /\ kref = <<>>
StreamsParked  == sApi = "parked" /\ sState = <<>> /\ sFed = 0 /\ sCalls = 0 /\ sPhase = "absorbing"
                    /\ sOut = <<>>
HashParked     == hJob = <<>> /\ hDone = FALSE /\ hResult = <<>>
SignParked     == gBuild = <<>> /\ gDigests = <<>> /\ gStep = "new" /\ gKey = NoKey /\ gSm = <<>>
                    /\ gRoots = <<>> /\ gStats = spx_thashx4_batch_reset /\ gCarried = NotCarried
                    /\ gOpened = NotOpened
DigitsParked   == wSet = shake_128f /\ wSum = MaxSum(shake_128f)

Init ==
    \/ /\ part = "grouping" /\ GroupingInit
       /\ KeccakParked /\ StreamsParked /\ HashParked /\ SignParked /\ DigitsParked
    \/ /\ part = "keccak" /\ RoundsInit
       /\ GroupingParked /\ StreamsParked /\ HashParked /\ SignParked /\ DigitsParked
    \/ /\ part = "streams" /\ StreamsInit
       /\ GroupingParked /\ KeccakParked /\ HashParked /\ SignParked /\ DigitsParked
    \/ /\ part = "hash" /\ HashInit
       /\ GroupingParked /\ KeccakParked /\ StreamsParked /\ SignParked /\ DigitsParked
    \/ /\ part = "sign" /\ SignInit
       /\ GroupingParked /\ KeccakParked /\ StreamsParked /\ HashParked /\ DigitsParked
    \/ /\ part = "digits" /\ DigitsInit
       /\ GroupingParked /\ KeccakParked /\ StreamsParked /\ HashParked /\ SignParked

Next ==
    /\ UNCHANGED part
    /\ \/ /\ part = "grouping" /\ GroupingNext
          /\ UNCHANGED <<roundsVars, streamVars, hashVars, signVars, digitsVars>>
       \/ /\ part = "keccak" /\ RoundsNext
          /\ UNCHANGED <<groupingVars, streamVars, hashVars, signVars, digitsVars>>
       \/ /\ part = "streams" /\ StreamsNext
          /\ UNCHANGED <<groupingVars, roundsVars, hashVars, signVars, digitsVars>>
       \/ /\ part = "hash" /\ HashNext
          /\ UNCHANGED <<groupingVars, roundsVars, streamVars, signVars, digitsVars>>
       \/ /\ part = "sign" /\ SignNext
          /\ UNCHANGED <<groupingVars, roundsVars, streamVars, hashVars, digitsVars>>
       \/ /\ part = "digits" /\ NextSum
          /\ UNCHANGED <<groupingVars, roundsVars, streamVars, hashVars, signVars>>

Spec == Init /\ [][Next]_<<part, groupingVars, roundsVars, streamVars, hashVars, signVars, digitsVars>>
=============================================================================
