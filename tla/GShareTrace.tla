----------------------------- MODULE GShareTrace -----------------------------
(***************************************************************************)
(* trace_runner_rtldump.py driving the gshare model over an instruction    *)
(* trace.  A record is a control instruction as get_instr_info decodes it  *)
(* (other instructions are skipped), together with the pc of the line that *)
(* follows it in the trace.  Traces are concatenated and contain traps, so *)
(* any record may follow any other.                                        *)
(***************************************************************************)
EXTENDS GShareBPU

CONSTANTS
  Trace,    (* lines of a trace: [pc, instr, next]                         *)
  Steady    (* the lines of a trace that has settled                       *)

(* An instruction, as far as get_instr_info looks at it.                   *)
Compressed == {"c.branch", "c.j", "c.jr"}
Instr == [op : {"branch", "jal", "jalr", "other"} \cup Compressed,
          rd : 0 .. 31, rs1 : 0 .. 31, rs2 : 0 .. 31, imm : Int]

ASSUME TraceAssumption ==
  /\ Trace \subseteq [pc : Nat, instr : Instr, next : Nat]
  /\ Steady \subseteq Trace

NoTarget == -1
LinkRegisters == {1, 5}

(* A return is known by its registers; a jump through a register that      *)
(* links is no call.  c.jr also stands for c.jalr and c.mv.                *)
ci_of(i) ==
  CASE i.op \in {"branch", "c.branch"} -> "Branch"
    [] i.op = "jal"  -> IF i.rd \in LinkRegisters THEN "Call" ELSE "JAL"
    [] i.op = "c.j"  -> "JAL"
    [] i.op = "jalr" -> IF i.rd = 0 /\ i.rs1 \in LinkRegisters THEN "Ret" ELSE "JAL"
    [] i.op = "c.jr" /\ i.rs1 # 0 /\ i.rs2 = 0 ->
         IF i.rs1 \in LinkRegisters THEN "Ret" ELSE "JAL"
    [] OTHER -> "none"

(* The mask for the last three bits of the offset of c.j leaves one out.   *)
offset_of(i) == IF i.op = "c.j" THEN i.imm - 4 * ((i.imm \div 4) % 2) ELSE i.imm

get_instr_info(r) ==
  [pc |-> r.pc, ilen |-> IF r.instr.op \in Compressed THEN 2 ELSE 4,
   ci |-> ci_of(r.instr), next |-> r.next,
   target |-> IF r.instr.op \in {"jalr", "c.jr"} THEN NoTarget
              ELSE r.pc + offset_of(r.instr)]

Control(lines) == {x \in {get_instr_info(r) : r \in lines} : x.ci # "none"}
Records == Control(Trace)

(* What the trace of one program without traps is like: a word has one     *)
(* control instruction, a branch falls through or goes to its target.      *)
OneControlPerWord ==
  \A a, b \in Records : a.pc \div 4 = b.pc \div 4 =>
    a.pc = b.pc /\ a.ilen = b.ilen /\ a.ci = b.ci /\ a.target = b.target

BranchesGoTwoWays ==
  \A a \in Records : a.ci = "Branch" =>
    /\ a.target # NoTarget /\ a.target # a.pc + a.ilen
    /\ a.next \in {a.target, a.pc + a.ilen}

VARIABLES
  line,       (* the record being processed                                *)
  phase,      (* the next call the loop makes: predict, train, mispredict  *)
  outcomes    (* history: the last outcomes of conditional branches that   *)
              (* were in the buffer                                        *)

vars == <<btbVars, ras, bht, ghr, pred, line, phase, outcomes>>

actual_taken == line.next # line.pc + line.ilen

Init ==
  /\ InitBPU
  /\ phase = "predict"
  /\ outcomes = Zeros(HISTLEN)
  /\ line \in Records

(* bpu.predict(pc, ilen): fence and discard keep their defaults.           *)
Predict ==
  /\ phase = "predict"
  /\ line' \in Records
  /\ predict(line'.pc, line'.ilen, FALSE, FALSE)
  /\ phase' = "train"
  /\ UNCHANGED outcomes

Train ==
  /\ phase = "train"
  /\ IF line.ci = "Branch"
     THEN /\ train(line.pc, IF line.target = NoTarget THEN line.next ELSE line.target,
                   "Branch", ghr, actual_taken, pred.btbhit, line.ilen = 2)
          /\ phase' = IF pred.nextpc # line.next THEN "mispredict" ELSE "predict"
          /\ outcomes' = IF pred.btbhit
                         THEN ShiftIn(IF actual_taken THEN 1 ELSE 0, outcomes)
                         ELSE outcomes
     ELSE /\ train(line.pc, line.next, line.ci, ghr, TRUE, pred.btbhit, line.ilen = 2)
          /\ phase' = "predict"
          /\ UNCHANGED outcomes
  /\ UNCHANGED line

Mispredict ==
  /\ phase = "mispredict"
  /\ mispredict(pred.btbhit, ghr)
  /\ phase' = "predict"
  /\ UNCHANGED <<line, outcomes>>

Next == Predict \/ Train \/ Mispredict

Spec == Init /\ [][Next]_vars

(* A loop over a long enough trace.                                        *)
FairSpec == Spec /\ WF_vars(Next)

-----------------------------------------------------------------------------
TypeOK ==
  /\ BPUTypeOK
  /\ line \in Records
  /\ phase \in {"predict", "train", "mispredict"}
  /\ outcomes \in Bits(HISTLEN)

(* Between two records the history is the non-speculative one: what the    *)
(* branches in the buffer really did, predictions and repairs included.    *)
HistoryIsOutcomes == phase = "predict" => ghr = outcomes

(* The counter that is trained is the one the prediction was read from,    *)
(* although the history has moved on in between.                           *)
TrainsPredictedCounter ==
  phase = "train" /\ line.ci = "Branch" /\ pred.btbhit =>
    TrainedCounter(ghr, line.pc) = pred.counter

(* Once every instruction goes one way, and the buffer and the counters    *)
(* have room for all of them, the predictor learns them whatever it was    *)
(* trained to before: from some point on every prediction is right.        *)
EventuallyLearned ==
  <>[](line \in Control(Steady)) => <>[](phase = "train" => pred.nextpc = line.next)
=============================================================================
