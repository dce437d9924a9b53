-------------------------- MODULE MCPrototypePath --------------------------
(***************************************************************************)
(* Bounds: one value to write; the fine host writes the last address word  *)
(* and the first input word, the coarse one the last seed word and the     *)
(* last input word, so that each boundary of a region is crossed by one of *)
(* them; a served and an unserved inblocks, and the reset value; reads of  *)
(* a corner of every region and of the holes between them.  The pointer    *)
(* streams from the last word of each region into the hole behind it.      *)
(***************************************************************************)
EXTENDS PrototypePath

\* Every data register holds zero or the one value the host writes, so a
\* block is known by its words that are not zero and by its length.
Nonzero(value) == {i \in DOMAIN value : value[i] # ZeroWord}
MCThash(block) ==
    LET name == <<Nonzero(block.seed), Nonzero(block.addr), Nonzero(block.msg),
                  DOMAIN block.msg = Wide>>
    IN  [i \in Digest |-> [src |-> <<"thash", name, i>>, msb |-> 0]]

MCInstr(op, a, n, rd) == [op |-> op, addr |-> a, rs1 |-> HostWord(n), rd |-> rd]

MCInstructions ==
    [fine   |-> {MCInstr("SPX_WR", a, 1, 0) : a \in {4, 47, 48, 96}}
                  \cup {MCInstr("SPX_WR", 80, n, 0) : n \in {2, 7}}
                  \cup {MCInstr("SPX_WR", 81, n, 0) : n \in {2, 4}}
                  \cup {MCInstr("SPX_RD", a, 0, 1) : a \in {4, 16, 47, 48, 80, 96, 111}}
                  \cup {MCInstr(op, 0, 0, 0) : op \in {"SPX_START", "SPX_CLR"}}
                  \cup {MCInstr(op, 0, 0, 1) : op \in {"SPX_STATUS", "SPX_OTHER"}},
     coarse |-> {MCInstr("SPX_SET_PTR", a, 0, 0) : a \in {3, 79, 111}}
                  \cup {MCInstr("SPX_START_THASHX4", 0, n, 0) : n \in {1, 6, 7}}
                  \cup {MCInstr("SPX_WR_NEXT", 0, 1, 0)}
                  \cup {MCInstr(op, 0, 0, 1) :
                            op \in {"SPX_RD_NEXT", "SPX_STATUS", "SPX_OTHER"}},
     bare   |-> {MCInstr("CMD_WRITE", a, 1, 0) : a \in {4, 48}}
                  \cup {MCInstr("CMD_READ", a, 0, 0) : a \in {4, 81, 96}}
                  \cup {MCInstr(op, 0, 0, 0) : op \in {"CMD_START", "CMD_OTHER"}}]

MCStreamAddr == {3, 4, 79, 80, 111, 112}
=============================================================================
