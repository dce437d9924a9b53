----------------------------- MODULE MCXifAlone -----------------------------
(* Three ids: one instruction in the adapter and two the core offered in   *)
(* vain.  Every reason to refuse an instruction, results with and without  *)
(* a destination register.                                                 *)
EXTENDS XifAlone

MCIds == 1 .. 3

Instr(spx, funct3, rs1, rd) == [spx |-> spx, funct3 |-> funct3, rs1 |-> rs1, rd |-> rd]
Offer(instr, rs, rs_valid) == [instr |-> instr, rs |-> rs, rs_valid |-> rs_valid]

MCInstructions ==
    {Offer(Instr(TRUE, 0, 1, 0), 4, TRUE), Offer(Instr(TRUE, 0, 1, 0), 4, FALSE),
     Offer(Instr(TRUE, 1, 0, 2), 0, FALSE), Offer(Instr(TRUE, 2, 1, 2), 0, TRUE),
     Offer(Instr(TRUE, 4, 0, 2), 0, FALSE), Offer(Instr(FALSE, 1, 0, 2), 0, FALSE)}
=============================================================================
