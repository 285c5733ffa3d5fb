------------------------------ MODULE GShareBPU ------------------------------
(***************************************************************************)
(* class GShareBPU of gshare_sa_py_model.py: the target buffer with a bank *)
(* of two-bit counters per half-word, indexed by a hash of the pc and the  *)
(* global history.  Vectors of bits are sequences, most significant bit    *)
(* first; in the history that is the most recent outcome.                  *)
(***************************************************************************)
EXTENDS TargetBuffer, BitVectors

CONSTANTS
  HISTLEN, HISTBITS,    (* length of the history; how much of it is hashed *)
  INDEX_BITS            (* log2 of BHT_DEPTH \div BHTCOLS, with BHTCOLS = 2 *)

ASSUME HistoryAssumption ==
  /\ HISTLEN \in Nat \ {0} /\ HISTBITS \in 1 .. HISTLEN
  /\ INDEX_BITS \in Nat \ {0} /\ HISTBITS <= INDEX_BITS + 1

VARIABLES bht, ghr, pred

InitBPU ==
  /\ InitBuffer
  /\ bht = [hi \in {0, 1} |-> [i \in Bits(INDEX_BITS) |-> 2]]
  /\ ghr = Zeros(HISTLEN)
  /\ pred = [nextpc |-> 0, btbhit |-> FALSE, prediction |-> 1, counter |-> <<>>]

(* fn_hash: log2(BHT_DEPTH) = INDEX_BITS + 1; the history is shifted left  *)
(* in HISTBITS bits.                                                       *)
pc_hash(pc) ==
  Xor(BitsOf(pc \div 4, INDEX_BITS),
      Resize(BitsOf((pc \div 4) \div 2 ^ INDEX_BITS, 2), INDEX_BITS))

hist_hash(history) ==
  Resize(ShiftLeft(SubSeq(history, 1, HISTBITS), INDEX_BITS + 1 - HISTBITS), INDEX_BITS)

fn_hash(history, pc) == Xor(pc_hash(pc), hist_hash(history))

-----------------------------------------------------------------------------
(* predict; pred is what it returns, with the counter it has read.         *)
predict(pc, ilen, fence, discard) ==
  LET hit    == ~fence /\ BufferHit(pc)
      e      == HitEntry(pc)
      used   == hit /\ (e.hi = 1 \/ ~discard)
      branch == used /\ e.ci = "Branch"
      index  == fn_hash(ghr, pc)
      taken  == bht[e.hi][index] \div 2
  IN /\ ras' = IF used THEN StackAfter(e, pc, discard) ELSE ras
     /\ ghr' = IF branch THEN ShiftIn(taken, ghr) ELSE ghr
     /\ pred' = [btbhit |-> hit,
                 nextpc |-> CASE ~hit -> pc + ilen
                              [] hit /\ ~used -> pc + IF e.instr16 THEN 2 ELSE 4
                              [] branch /\ taken = 0 -> pc + ilen
                              [] OTHER -> PredictedTarget(e),
                 prediction |-> CASE branch -> bht[e.hi][index]
                                  [] used /\ ~branch -> 3
                                  [] OTHER -> 1,
                 counter |-> IF branch THEN <<e.hi, index>> ELSE <<>>]
     /\ UNCHANGED <<btbVars, bht>>

(* The counter that train updates: the history before the prediction.      *)
TrainedCounterUnshifted(history, pc) ==   (* mutant: the history is not shifted back *)
  <<hi_val(pc), fn_hash(history, pc)>>

TrainedCounter(history, pc) == <<hi_val(pc), fn_hash(ShiftLeft(history, 1), pc)>>

train(pc, target, ci, history, actual_taken, btbhit, instr16) ==
  /\ TrainBuffer(pc, target, ci, instr16)
  /\ LET c == TrainedCounter(history, pc)
     IN bht' = IF ci = "Branch" /\ btbhit
               THEN [bht EXCEPT ![c[1]][c[2]] = Saturate(@, actual_taken)]
               ELSE bht
  /\ UNCHANGED <<ras, ghr, pred>>

mispredictKeepHistory(btbhit, ghr_value) ==   (* mutant: the history is not repaired *)
  /\ ghr' = ghr_value
  /\ UNCHANGED <<btbVars, ras, bht, pred>>

mispredict(btbhit, ghr_value) ==
  /\ ghr' = IF btbhit THEN NegateNewest(ghr_value) ELSE ghr_value
  /\ UNCHANGED <<btbVars, ras, bht, pred>>

-----------------------------------------------------------------------------
BPUTypeOK ==
  /\ BufferTypeOK
  /\ bht \in [{0, 1} -> [Bits(INDEX_BITS) -> 0 .. 3]]
  /\ ghr \in Bits(HISTLEN)
=============================================================================
