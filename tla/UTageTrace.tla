------------------------------ MODULE UTageTrace ------------------------------
(***************************************************************************)
(* trace_runner_champsim.py driving the u-tage model over a ChampSim trace.*)
(* A record is an instruction with is_branch set (the others are skipped), *)
(* whether it was taken, and the address of the next record.  Every        *)
(* control transfer is passed as a conditional branch of four bytes.       *)
(***************************************************************************)
EXTENDS UTageBPU

CONSTANTS
  Records,   (* [pc, taken, next]                                          *)
  After      (* After[r]: the branches that may come after r in the trace  *)

ASSUME RecordAssumption ==
  /\ Records \subseteq [pc : Nat, taken : BOOLEAN, next : Nat]
  /\ \A r \in Records : ~r.taken => r.next > r.pc
  /\ After \in [Records -> SUBSET Records]

VARIABLES
  line,       (* the record being processed                                *)
  phase,      (* the next call the loop makes: predict, train, mispredict  *)
  dropped,    (* the bit of the history that predict has shifted out       *)
  outcomes    (* history: the outcomes of the branches that were in the    *)
              (* buffer                                                    *)

vars == <<btbVars, ras, bhtVars, ghr, pred, line, phase, dropped, outcomes>>

ilen(r) == IF r.taken THEN 4 ELSE r.next - r.pc
predicted_taken == pred.prediction \div 2 = 1

Init ==
  /\ InitBPU
  /\ line \in Records
  /\ phase = "predict"
  /\ dropped = 0
  /\ outcomes = Zeros(MAX_HISTLEN)

Predict ==
  /\ phase = "predict"
  /\ line' \in After[line]
  /\ predict(line'.pc, ilen(line'), FALSE, FALSE)
  /\ dropped' = Last(ghr)
  /\ phase' = "train"
  /\ UNCHANGED outcomes

Train ==
  /\ phase = "train"
  /\ train(line.pc, line.next, "Branch", ghr, line.taken, pred.btbhit, FALSE)
  /\ phase' = IF predicted_taken # line.taken THEN "mispredict" ELSE "predict"
  /\ outcomes' = IF pred.btbhit
                 THEN ShiftIn(IF line.taken THEN 1 ELSE 0, outcomes)
                 ELSE outcomes
  /\ UNCHANGED <<line, dropped>>

Mispredict ==
  /\ phase = "mispredict"
  /\ mispredict(pred.btbhit, ghr)
  /\ phase' = "predict"
  /\ UNCHANGED <<line, dropped, outcomes>>

Next == Predict \/ Train \/ Mispredict

Spec == Init /\ [][Next]_vars

-----------------------------------------------------------------------------
TypeOK ==
  /\ BPUTypeOK
  /\ line \in Records
  /\ phase \in {"predict", "train", "mispredict"}
  /\ dropped \in {0, 1}
  /\ outcomes \in Bits(MAX_HISTLEN)

(* Between two branches the history is what the branches in the buffer     *)
(* really did, whatever was predicted, also when two of them share an entry.*)
HistoryIsOutcomes == phase = "predict" => ghr = outcomes

(* The counter that train updates is the one that has predicted, whenever  *)
(* the bit that predict shifts out of the history is zero (train puts a    *)
(* zero in its place to look for the provider again), and the entry was    *)
(* trained by the half of the word the branch is in: predict takes the     *)
(* half from the entry, train from the address.                            *)
ProviderFoundIfZeroDropped ==
  /\ phase = "train" /\ pred.btbhit
  /\ dropped = 0 /\ pred.provider[2] = hi_val(line.pc)
  => TrainedProvider(ghr, line.pc) = pred.provider
=============================================================================
