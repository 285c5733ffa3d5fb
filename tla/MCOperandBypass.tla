--------------------------- MODULE MCOperandBypass ---------------------------
(* Instructions on one or two registers besides x0.                        *)
EXTENDS OperandBypass

Values == {0, 1}

In(kind, rd, rs1, rs2) == [kind |-> kind, rd |-> rd, rs1 |-> rs1, rs2 |-> rs2]

(* Every kind, on two registers that most of them read or write.           *)
TwoRegs == {0, 1, 2}
OnTwoRegs ==
  {In("ALU", 2, 1, 2), In("MEMORY", 1, 2, 0), In("MULDIV", 1, 0, 1),
   In("CSR", 1, 1, 0), In("XRET", 0, 0, 0), In("TRAP", 1, 0, 0)}

(* One register, for more instructions in flight.                          *)
OneReg == {0, 1}
OnOneReg ==
  {In("ALU", 1, 1, 0), In("MEMORY", 1, 0, 0), In("TRAP", 1, 0, 0)}
=============================================================================
