------------------------------ MODULE Division ------------------------------
(***************************************************************************)
(* The arithmetic of mbox: words of XLEN bits as numbers, the restoring    *)
(* division that retires XLEN / DIVSTAGES bits of the quotient in a step,  *)
(* and what the instructions are to compute.  A request is an operation,   *)
(* two words, and whether it is of the half-word (RV64: .W) kind.          *)
(***************************************************************************)
EXTENDS Integers

CONSTANTS XLEN, DIVSTAGES

DivOps == {"DIV", "DIVU", "REM", "REMU"}
MulOps == {"MUL", "MULH", "MULHSU", "MULHU"}

\* The assertions of mkrestoring_div ("DIVSTAGES is not power of 2", "DIVSTAGES cannot
\* be larger than `xlen") for a width that is itself a power of two; with a
\* DIVSTAGES of 1 a division does not end.
ASSUME WidthAssumption ==
  /\ XLEN \in Nat \ {0, 1} /\ XLEN % 2 = 0
  /\ \E k \in 1 .. XLEN : DIVSTAGES = 2^k
  /\ DIVSTAGES <= XLEN /\ XLEN % DIVSTAGES = 0

\* Of the multiplications the decoder has only the low word in the half-word kind.
Word    == 0 .. 2^XLEN - 1
Request == {r \in [op : DivOps \cup MulOps, in1 : Word, in2 : Word, half : BOOLEAN] :
              r.half => r.op \in DivOps \cup {"MUL"}}

Low(x, w)       == x % 2^w
Msb(x)          == x \div 2^(XLEN - 1)
SignExtend(x, w) == IF Low(x, w) >= 2^(w - 1) THEN Low(x, w) + 2^XLEN - 2^w
                                              ELSE Low(x, w)
Negate(x)       == Low(-x, XLEN)
Signed(x, w)    == IF Low(x, w) >= 2^(w - 1) THEN Low(x, w) - 2^w ELSE Low(x, w)
Width(half)     == IF half THEN XLEN \div 2 ELSE XLEN

-----------------------------------------------------------------------------
(* restoring_div.bsv.                                                      *)

\* One bit: the remainder has a bit more than a word, the divisor is subtracted
\* as the sign-extended word ~divisor + 1.
OneBit(p, divisor) ==
  LET rem == Low(2 * p.rem + Msb(p.quo), XLEN + 1)
      quo == Low(2 * p.quo, XLEN)
      neg == Negate(divisor)
  IN  IF Low(rem, XLEN) >= divisor
      THEN [rem |-> Low(rem + neg + Msb(neg) * 2^XLEN, XLEN + 1), quo |-> quo + 1]
      ELSE [rem |-> rem, quo |-> quo]

StepBits == XLEN \div DIVSTAGES

fn_single_div(p, divisor) ==
  LET bits[i \in 0 .. StepBits] == IF i = 0 THEN p ELSE OneBit(bits[i - 1], divisor)
  IN  bits[StepBits]

\* The operands of a half-word operation are extended first; negative operands of
\* the signed operations are inverted.
Extended(r, x) ==
  IF r.half THEN IF r.op \in {"DIV", "REM"} THEN SignExtend(x, XLEN \div 2)
                                            ELSE Low(x, XLEN \div 2)
            ELSE x
Magnitude(r, x) ==
  IF r.op \in {"DIV", "REM"} /\ Msb(Extended(r, x)) = 1 THEN Negate(Extended(r, x))
                                                        ELSE Extended(r, x)
Complement(r) == \/ r.op = "REM"
                 \/ r.op = "DIV" /\ Msb(Extended(r, r.in1)) # Msb(Extended(r, r.in2))

fn_fix_inputs(r) ==
  [op1 |-> Magnitude(r, r.in1), op2 |-> Magnitude(r, r.in2),
   complement |-> Complement(r), sign |-> Msb(Extended(r, r.in1))]

WordResult(x, half) == IF half THEN SignExtend(x, XLEN \div 2) ELSE x

ByZero(r) == WordResult(IF r.op \in {"REM", "REMU"} THEN r.in1 ELSE 2^XLEN - 1, r.half)

ComplementsAlways(r, raw) == fn_fix_inputs(r).complement   \* mutant: also a remainder that is zero or right

\* A remainder takes the sign of the dividend, a quotient is complemented when the
\* signs differ.
Complements(r, raw) ==
  fn_fix_inputs(r).complement /\ (r.op = "REM" => Msb(raw) # fn_fix_inputs(r).sign)

Quotient(r, p) ==
  LET raw == IF r.op \in {"REM", "REMU"} THEN Low(p.rem, XLEN) ELSE p.quo
  IN  WordResult(IF Complements(r, raw) THEN Negate(raw) ELSE raw, r.half)

-----------------------------------------------------------------------------
(* combo.bsv: one multiplier of XLEN + 1 bits, signed, serves all four.    *)

Product(r) ==
  LET a == IF r.op \in {"MULH", "MULHSU"} THEN Signed(r.in1, XLEN) ELSE r.in1
      b == IF r.op = "MULH" THEN Signed(r.in2, XLEN) ELSE r.in2
      wide == Low(a * b, 2 * XLEN)
  IN  WordResult(IF r.op = "MUL" THEN Low(wide, XLEN) ELSE wide \div 2^XLEN, r.half)

-----------------------------------------------------------------------------
(* What the instruction set says: division rounds towards zero; by zero it *)
(* gives all ones and leaves the dividend; the most negative number        *)
(* divided by -1 is itself, with nothing left.                             *)

Abs(x) == IF x < 0 THEN -x ELSE x
Truncated(a, b) == IF (a < 0) = (b < 0) THEN Abs(a) \div Abs(b)
                                        ELSE -(Abs(a) \div Abs(b))
Divided(a, b) == IF b = 0 THEN -1 ELSE Truncated(a, b)
Left(a, b)    == IF b = 0 THEN a ELSE a - b * Truncated(a, b)

Specified(r) ==
  LET w == Width(r.half)
      s1 == Signed(r.in1, w)  u1 == Low(r.in1, w)
      s2 == Signed(r.in2, w)  u2 == Low(r.in2, w)
      exact == CASE r.op = "DIV"    -> Divided(s1, s2)
                 [] r.op = "DIVU"   -> Divided(u1, u2)
                 [] r.op = "REM"    -> Left(s1, s2)
                 [] r.op = "REMU"   -> Left(u1, u2)
                 [] r.op = "MUL"    -> s1 * s2
                 [] r.op = "MULH"   -> (s1 * s2) \div 2^w
                 [] r.op = "MULHSU" -> (s1 * u2) \div 2^w
                 [] r.op = "MULHU"  -> (u1 * u2) \div 2^w
  IN  SignExtend(exact, w)
=============================================================================
