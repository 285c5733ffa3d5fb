----------------------------- MODULE BitVectors -----------------------------
(***************************************************************************)
(* The arithmetic of the Python predictors: histories, indices and tags as *)
(* sequences of bits, most significant bit first (in a history that is the *)
(* most recent outcome), and the two-bit saturating counter.               *)
(***************************************************************************)
EXTENDS Integers, Sequences, FiniteSets

Bits(n)   == [1 .. n -> {0, 1}]
Zeros(n)  == [i \in 1 .. n |-> 0]
BitsOf(k, n) == [i \in 1 .. n |-> IF (k \div 2 ^ (n - i)) % 2 = 1 THEN 1 ELSE 0]
Xor(a, b) == [i \in DOMAIN a |-> IF a[i] # b[i] THEN 1 ELSE 0]

(* b in the width n: zeros in front, or the leading bits cut off.          *)
Resize(b, n) ==
  IF Len(b) <= n THEN Zeros(n - Len(b)) \o b ELSE SubSeq(b, Len(b) - n + 1, Len(b))

ShiftLeft(b, n)  == SubSeq(b, n + 1, Len(b)) \o Zeros(IF n < Len(b) THEN n ELSE Len(b))
ShiftIn(t, h)    == <<t>> \o SubSeq(h, 1, Len(h) - 1)
NegateNewest(h)  == [h EXCEPT ![1] = 1 - @]

(* The value of b folded into width bits: its segments, step bits apart,   *)
(* are combined by exclusive or.                                           *)
Fold(b, width, step) ==
  [i \in 1 .. width |->
     Cardinality({k \in DOMAIN b : /\ b[k] = 1
                                   /\ Len(b) - k >= width - i
                                   /\ (Len(b) - k - (width - i)) % step = 0}) % 2]

SaturateWrong(counter, taken) ==   (* mutant: wraps around *)
  IF taken THEN (counter + 1) % 4 ELSE (counter + 3) % 4

SaturateLate(counter, taken) ==    (* mutant: one step too far *)
  IF taken THEN IF counter > 3 THEN 4 ELSE counter + 1
           ELSE IF counter = 0 THEN 0 ELSE counter - 1

Saturate(counter, taken) ==
  IF taken THEN IF counter = 3 THEN 3 ELSE counter + 1
           ELSE IF counter = 0 THEN 0 ELSE counter - 1
=============================================================================
