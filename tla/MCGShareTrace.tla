---------------------------- MODULE MCGShareTrace ----------------------------
(* Control instructions in four words, one of them in an upper half.       *)
EXTENDS GShareTrace

Insn(op, rd, rs1, imm) == [op |-> op, rd |-> rd, rs1 |-> rs1, rs2 |-> 0, imm |-> imm]
Lines(pc, instr, nexts) == {[pc |-> pc, instr |-> instr, next |-> n] : n \in nexts}

(* A branch that goes both ways, one that is not taken, a move, a call and *)
(* a return.                                                               *)
Both   == Insn("branch", 0, 0, 8)
Lower  == Insn("c.branch", 0, 0, -6)
Move   == [Insn("c.jr", 0, 1, 0) EXCEPT !.rs2 = 2]
Call   == Insn("jal", 1, 0, 4)
Return == Insn("jalr", 0, 1, 0)

Program ==
  Lines(0, Both, {4, 8}) \cup Lines(6, Lower, {8}) \cup Lines(10, Move, {12})
    \cup Lines(12, Call, {16}) \cup Lines(16, Return, {16})

(* From here on the trace may be the two branches going one way each: the  *)
(* buffer holds both, and their outcomes train different counters.         *)
Settled == Lines(0, Both, {8}) \cup Lines(6, Lower, {8})
(* The theorems about history and counters are about such traces.          *)
ASSUME OneProgram == OneControlPerWord /\ BranchesGoTwoWays
=============================================================================
