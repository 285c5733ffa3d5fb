----------------------------- MODULE FetchStream -----------------------------
(***************************************************************************)
(* What fetch promises to the decoder on a core with compressed: the       *)
(* instructions of one path, whole and one after the other, each going     *)
(* where its prediction says, until the path is redirected or a word of it *)
(* faults.  FetchAlign is shown to implement this.                         *)
(***************************************************************************)
EXTENDS Naturals, Sequences

CONSTANTS
  HALVES,    (* the memory has the half-words 0 .. HALVES - 1, and wraps    *)
  Long,      (* Long[h]: the bits of half-word h start a 32-bit instruction *)
  Start,     (* the half-words at which an instruction of the code starts   *)
  Targets    (* Targets[h]: the targets predicted for a control instruction *)

Half == 0 .. HALVES - 1
NoPC == HALVES

VARIABLES
  pc,        (* the next instruction of the path; NoPC behind a fault      *)
  handed     (* the last instruction handed on, or the last redirection    *)

vars == <<pc, handed>>

plus(h, n)  == (h + n) % HALVES
HalvesOf(h) == IF Long[h] THEN <<h, plus(h, 1)>> ELSE <<h>>

Init ==
  /\ pc \in Start
  /\ handed = [kind |-> "redirect", at |-> <<pc>>, taken |-> FALSE]

HandOn ==
  /\ pc # NoPC
  /\ handed'.kind = "instr"
  /\ handed'.at = HalvesOf(pc)
  /\ pc' \in IF handed'.taken THEN Targets[pc] ELSE {plus(pc, Len(handed'.at))}

(* What follows a fault is dropped when the trap is taken.                 *)
Fault ==
  /\ pc' = NoPC
  /\ \/ UNCHANGED handed
     \/ handed'.kind = "instr" /\ (pc # NoPC => handed'.at[1] = pc)

Redirect ==
  /\ pc' \in Start
  /\ handed' = [kind |-> "redirect", at |-> <<pc'>>, taken |-> FALSE]

Next == HandOn \/ Fault \/ Redirect

Spec == Init /\ [][Next]_vars
=============================================================================
