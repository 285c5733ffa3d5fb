-------------------------------- MODULE Mbox --------------------------------
(***************************************************************************)
(* The multiplier and the divider behind stage3 and in front of stage4:    *)
(* mbox.bsv, combo.bsv, restoring_div.bsv and the FIFOs of riscv.bsv.  A   *)
(* multiplication moves through MULSTAGES_IN + MULSTAGES_OUT registers, a  *)
(* division stays in its registers for many cycles, and ff_ordering makes  *)
(* their results leave in the order of the instructions.                   *)
(*                                                                         *)
(* What is true of one cycle only matters here, so a step is a clock cycle *)
(* in which every rule fires that can; stage3 may offer an instruction and *)
(* stage4 may collect a result in it, or not.                              *)
(***************************************************************************)
EXTENDS Division, Sequences

CONSTANTS MULSTAGES_IN, MULSTAGES_OUT,
          isb_s3s4_depth,   \* isb_s3s4, also of the FIFOs of results
          ARITH_TRAP,       \* bit 3 of customcontrol, in a build with arith_trap
          None,
          Programs          \* sequences of requests, repeated for ever

MULSTAGES_TOTAL == MULSTAGES_IN + MULSTAGES_OUT

ASSUME MboxAssumption ==
  /\ MULSTAGES_IN \in Nat \ {0} /\ MULSTAGES_OUT \in Nat \ {0}
  /\ isb_s3s4_depth \in Nat \ {0} /\ ARITH_TRAP \in BOOLEAN
  /\ \A p \in Programs : Len(p) >= 2 /\ \A n \in 1 .. Len(p) : p[n] \in Request
  /\ None \notin Request

VARIABLES
  program, next,            \* the instructions, and the one stage3 is at
  isb_s3s4,                 \* those that were offloaded, as places in program
  ff_ordering,              \* mbox: whose result comes next, TRUE a product
  stages,                   \* combo: the pipeline registers
  rg_count, partial, request,                   \* restoring_div: its registers;
                            \* request is what rg_op2, rg_in1 and the flags hold
  rg_valid, rg_result, rg_trap,
  ff_mbox_out               \* results and their trap flags

streamVars == <<program, next>>
divVars    == <<rg_count, partial, request, rg_valid, rg_result, rg_trap>>
mboxVars == <<streamVars, isb_s3s4, ff_ordering, stages, divVars, ff_mbox_out>>

MboxInit ==
  /\ program \in Programs /\ next = 1
  /\ isb_s3s4 = <<>> /\ ff_ordering = <<>> /\ ff_mbox_out = <<>>
  /\ stages = [i \in 1 .. MULSTAGES_TOTAL |-> None]
  /\ rg_count = 0 /\ partial = [rem |-> 0, quo |-> 0] /\ request = None
  /\ rg_valid = FALSE /\ rg_result = 0 /\ rg_trap = FALSE

-----------------------------------------------------------------------------
(* rl_capture_output: the unit that is to answer next has an answer.       *)

out_depth_short == isb_s3s4_depth - 1   \* mutant: one place too few
out_depth == isb_s3s4_depth

ordering_size == IF MULSTAGES_TOTAL > 2 THEN MULSTAGES_TOTAL ELSE 2

mul_output_valid == stages[MULSTAGES_TOTAL] # None
NextIs(mul) == ff_ordering # <<>> /\ Head(ff_ordering) = mul /\ Len(ff_mbox_out) < out_depth
CapturesMul == NextIs(TRUE) /\ mul_output_valid
CapturesDiv == NextIs(FALSE) /\ rg_valid

Captured ==
  CASE CapturesMul -> <<[value |-> Product(stages[MULSTAGES_TOTAL]), trap |-> FALSE]>>
    [] CapturesDiv -> <<[value |-> rg_result, trap |-> rg_trap]>>
    [] OTHER       -> <<>>

-----------------------------------------------------------------------------
(* The multiplier: a register takes what is before it when it is empty or  *)
(* is emptied in this cycle (mkUGLFIFOF).                                  *)

Frees(i) == CapturesMul \/ \E j \in i .. MULSTAGES_TOTAL : stages[j] = None
mul_ready == Frees(1)

Multiplier(r) ==
  stages' = [i \in 1 .. MULSTAGES_TOTAL |->
               IF ~Frees(i) THEN stages[i] ELSE IF i = 1 THEN r ELSE stages[i - 1]]

-----------------------------------------------------------------------------
(* The divider.  rg_trap is a DReg: it falls back in every cycle that does *)
(* not write it.                                                           *)

div_ready == rg_count = 0 /\ ~rg_valid

step_done_late == rg_count = DIVSTAGES + 2   \* mutant: one step too many, beyond rg_count
step_done == rg_count = DIVSTAGES + 1

\* Bits of rg_count: TLog(DIVSTAGES + 1).
CountLimit == CHOOSE n \in {2^k : k \in 1 .. XLEN} :
                /\ DIVSTAGES + 1 <= n /\ n < 2 * (DIVSTAGES + 1)

traps_not_rem == ARITH_TRAP /\ request.op \in {"DIV", "DIVU"}   \* mutant: quotients only
traps == ARITH_TRAP

Finish(result, trap) ==
  /\ rg_count' = 0 /\ rg_valid' = TRUE /\ rg_result' = result /\ rg_trap' = trap

single_step_div ==
  /\ rg_count # 0 /\ ~rg_valid
  /\ LET divisor == fn_fix_inputs(request).op2
     IN  /\ partial' = fn_single_div(partial, divisor)
         /\ CASE divisor = 0 -> Finish(ByZero(request), traps)
              [] divisor # 0 /\ step_done -> Finish(Quotient(request, partial), FALSE)
              [] divisor # 0 /\ ~step_done ->
                   /\ rg_count' = (rg_count + 1) % CountLimit
                   /\ rg_trap' = FALSE
                   /\ UNCHANGED <<rg_valid, rg_result>>
  /\ UNCHANGED request

div_inputs(r) ==
  /\ partial' = [rem |-> 0, quo |-> fn_fix_inputs(r).op1]
  /\ request' = r
  /\ rg_count' = rg_count + 1
  /\ rg_trap' = FALSE
  /\ UNCHANGED <<rg_valid, rg_result>>

div_waits ==
  /\ rg_valid' = (rg_valid /\ ~CapturesDiv)
  /\ rg_trap' = FALSE
  /\ UNCHANGED <<rg_count, partial, request, rg_result>>

Divider(r) ==
  \/ r # None /\ div_inputs(r)
  \/ r = None /\ single_step_div
  \/ r = None /\ (rg_count = 0 \/ rg_valid) /\ div_waits

-----------------------------------------------------------------------------
(* stage3 (rl_mbox) and stage4 (rl_capture_muldiv).                        *)

IsMul(r) == r.op \in MulOps

mv_ready(r) == /\ IF IsMul(r) THEN mul_ready ELSE div_ready
               /\ Len(ff_ordering) < ordering_size

Offloads == mv_ready(program[next]) /\ Len(isb_s3s4) < isb_s3s4_depth

\* A result may be collected in the cycle of its capture.
Answers == ff_mbox_out \o Captured

Cycle(offload, collect) ==
  LET r == IF offload THEN program[next] ELSE None
      left == IF Captured = <<>> THEN ff_ordering ELSE Tail(ff_ordering)
      rest == IF collect THEN Tail(isb_s3s4) ELSE isb_s3s4
  IN  /\ offload => Offloads
      /\ collect => Answers # <<>>
      /\ Multiplier(IF offload /\ IsMul(r) THEN r ELSE None)
      /\ Divider(IF offload /\ ~IsMul(r) THEN r ELSE None)
      /\ ff_ordering' = IF offload THEN Append(left, IsMul(r)) ELSE left
      /\ ff_mbox_out' = IF collect THEN Tail(Answers) ELSE Answers
      /\ isb_s3s4' = IF offload THEN Append(rest, next) ELSE rest
      /\ next' = IF offload THEN (next % Len(program)) + 1 ELSE next
      /\ UNCHANGED program

MboxNext == \E offload, collect \in BOOLEAN : Cycle(offload, collect)

MboxSpec == MboxInit /\ [][MboxNext]_mboxVars

\* The clock runs.
MboxFairSpec == MboxSpec /\ WF_mboxVars(MboxNext)

-----------------------------------------------------------------------------
\* Type correctness.
MboxTypeOK ==
  /\ program \in Programs /\ next \in 1 .. Len(program)
  /\ isb_s3s4 \in Seq(1 .. Len(program)) /\ Len(isb_s3s4) <= isb_s3s4_depth
  /\ ff_ordering \in Seq(BOOLEAN) /\ Len(ff_ordering) <= ordering_size
  /\ stages \in [1 .. MULSTAGES_TOTAL -> Request \cup {None}]
  /\ rg_count \in 0 .. CountLimit - 1
  /\ partial \in [rem : 0 .. 2^(XLEN + 1) - 1, quo : Word]
  /\ request \in Request \cup {None}
  /\ rg_valid \in BOOLEAN /\ rg_result \in Word /\ rg_trap \in BOOLEAN
  /\ ff_mbox_out \in Seq([value : Word, trap : BOOLEAN])
  /\ Len(ff_mbox_out) <= out_depth

Asked(n) == program[isb_s3s4[n]]

\* Stage4 pairs results with its instructions by their order alone ("It is expected
\* that the mbox provides output in the same order the inputs were provided"): the
\* n-th result is what the instruction set specifies for the n-th instruction.
ResultsAreSpecified ==
  \A n \in DOMAIN ff_mbox_out :
    n \in DOMAIN isb_s3s4 /\ ff_mbox_out[n].value = Specified(Asked(n))

\* The assertions of rl_fifo_full: "MUL provided result when O/P FIFO is full",
\* "DIV provided result when O/P FIFO is full".
NoResultWhenFull ==
  Len(ff_mbox_out) = out_depth => ~mul_output_valid /\ ~rg_valid

\* With the exception enabled a division by zero, and nothing else, comes out as a
\* trap.  Its result has to wait for older ones if the multiplier has more than two
\* stages (run mbox_trap).
TrapsDelivered ==
  \A n \in DOMAIN ff_mbox_out :
    ff_mbox_out[n].trap <=> /\ ARITH_TRAP /\ ~IsMul(Asked(n))
                            /\ Low(Asked(n).in2, Width(Asked(n).half)) = 0

\* The oldest instruction gets its result, whether or not stage4 collects others.
Oldest(n) == isb_s3s4 # <<>> /\ Head(isb_s3s4) = n
ResultsCome ==
  \A n \in UNION {DOMAIN p : p \in Programs} :
    Oldest(n) ~> ff_mbox_out # <<>> \/ ~Oldest(n)
=============================================================================
