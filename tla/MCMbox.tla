------------------------------- MODULE MCMbox -------------------------------
(***************************************************************************)
(* Programs for Mbox: every division and many products of two words, each  *)
(* with one of the other kind, and longer mixtures.                        *)
(***************************************************************************)
EXTENDS Mbox

Ask(op, a, b, half) == [op |-> op, in1 |-> a, in2 |-> b, half |-> half]

Mul == Ask("MULHSU", 9, 13, FALSE)
Div == Ask("REM", 9, 2, FALSE)
EveryDivision ==
  {<<Ask(op, a, b, half), Mul>> : op \in DivOps, a \in Word, b \in Word, half \in BOOLEAN}

ManyProducts ==
  {<<Ask(op, a, b, FALSE), Div>> : op \in MulOps, a \in Word, b \in {5, 8, 15}}
    \cup {<<Ask("MUL", a, 5, TRUE), Div>> : a \in Word}

Mixtures ==
  {<<Mul, Ask("DIV", 9, 2, FALSE), Ask("MULH", 9, 13, FALSE), Ask("REM", 9, 0, FALSE)>>,
   <<Mul, Ask("MUL", 9, 13, TRUE), Ask("DIVU", 9, 0, FALSE), Ask("MULHU", 9, 13, FALSE)>>,
   <<Ask("REMU", 9, 2, FALSE), Mul, Ask("MUL", 9, 13, TRUE), Ask("DIV", 9, 4, TRUE)>>}

EveryProgram == EveryDivision \cup ManyProducts \cup Mixtures
=============================================================================
