------------------------------ MODULE UTageBPU ------------------------------
(***************************************************************************)
(* class GShareBPU of u_tage_py_model.py: the target buffer with a base    *)
(* table of two-bit counters and three tagged tables, indexed by the pc    *)
(* and a growing part of the global history.  The longest table with a     *)
(* matching tag provides the prediction.                                   *)
(***************************************************************************)
EXTENDS TargetBuffer, BitVectors

CONSTANTS
  HIST_LENS,    (* length of the history each tagged table uses            *)
  TAG_WIDTHS,   (* width of the tags of each tagged table                  *)
  INDEX_BITS    (* log2 of BHT_DEPTH \div BHTCOLS, with BHTCOLS = 2         *)

Tables  == 1 .. 3
Longest == 3

ASSUME TableAssumption ==
  /\ HIST_LENS \in [Tables -> Nat \ {0}]
  /\ \A i, j \in Tables : i < j => HIST_LENS[i] <= HIST_LENS[j]
  /\ TAG_WIDTHS \in [Tables -> Nat \ {0, 1}]
  /\ INDEX_BITS \in Nat \ {0}

MAX_HISTLEN == HIST_LENS[Longest]

VARIABLES bht_base, bht_tagged, ghr, pred

bhtVars == <<bht_base, bht_tagged>>

InitBPU ==
  /\ InitBuffer
  /\ bht_base = [hi \in {0, 1} |-> [i \in Bits(INDEX_BITS) |-> 2]]
  /\ bht_tagged = [t \in Tables |-> [hi \in {0, 1} |-> [i \in Bits(INDEX_BITS) |->
       [state |-> 2, tag |-> Zeros(TAG_WIDTHS[t]), valid |-> FALSE]]]]
  /\ ghr = Zeros(MAX_HISTLEN)
  /\ pred = [btbhit |-> FALSE, prediction |-> 1, nextpc |-> 0, provider |-> <<>>]

(* get_index_tag: a table takes the last, that is the oldest, bits of the  *)
(* history.  Table 0 takes none.                                           *)
masked_hist(h, t) == SubSeq(h, Len(h) - HIST_LENS[t] + 1, Len(h))

index_of(h, pc, t) ==
  IF t = 0 THEN BitsOf(pc \div 4, INDEX_BITS)
           ELSE Xor(BitsOf(pc \div 4, INDEX_BITS),
                    Fold(masked_hist(h, t), INDEX_BITS, INDEX_BITS))

tag_of(h, pc, t) ==
  Xor(BitsOf(pc \div 8, TAG_WIDTHS[t]),
      Fold(masked_hist(h, t), TAG_WIDTHS[t], TAG_WIDTHS[t] - 1))

(* The table that predicts: the longest one whose tag matches, else 0.     *)
provider_id(h, pc, hi) ==
  LET hits == {t \in Tables : LET e == bht_tagged[t][hi][index_of(h, pc, t)]
                              IN e.valid /\ e.tag = tag_of(h, pc, t)}
  IN IF hits = {} THEN 0 ELSE CHOOSE t \in hits : \A u \in hits : t >= u

CounterOf(t, hi, index) ==
  IF t = 0 THEN bht_base[hi][index] ELSE bht_tagged[t][hi][index].state

-----------------------------------------------------------------------------
predict(pc, ilen, fence, discard) ==
  LET hit    == ~fence /\ BufferHit(pc)
      e      == HitEntry(pc)
      used   == hit /\ (e.hi = 1 \/ ~discard)
      branch == used /\ e.ci = "Branch"
      t      == provider_id(ghr, pc, e.hi)
      index  == index_of(ghr, pc, t)
      state  == CounterOf(t, e.hi, index)
      taken  == state \div 2
  IN /\ ras' = IF used THEN StackAfter(e, pc, discard) ELSE ras
     /\ ghr' = IF branch THEN ShiftIn(taken, ghr) ELSE ghr
     /\ pred' = [btbhit |-> hit,
                 nextpc |-> CASE ~hit -> pc + ilen
                              [] hit /\ ~used -> pc + IF e.instr16 THEN 2 ELSE 4
                              [] branch /\ taken = 0 -> pc + ilen
                              [] OTHER -> PredictedTarget(e),
                 prediction |-> CASE branch -> state
                                  [] used /\ ~branch -> 3
                                  [] OTHER -> 1,
                 provider |-> IF branch THEN <<t, e.hi, index>> ELSE <<>>]
     /\ UNCHANGED <<btbVars, bhtVars>>

(* What train takes for the history before the prediction.                 *)
ShiftedTwice(history)    == ShiftLeft(history, 2)   (* mutant *)
shifted_history(history) == ShiftLeft(history, 1)

TrainedProvider(history, pc) ==
  LET h == shifted_history(history)
      t == provider_id(h, pc, hi_val(pc))
  IN <<t, hi_val(pc), index_of(h, pc, t)>>

alloc_id(provider)      == provider + 1

train(pc, target, ci, history, actual_taken, btbhit, instr16) ==
  /\ TrainBuffer(pc, target, ci, instr16)
  /\ IF ~(ci = "Branch" /\ btbhit) THEN UNCHANGED bhtVars
     ELSE LET h     == shifted_history(history)
              hi    == hi_val(pc)
              t     == provider_id(h, pc, hi)
              i     == index_of(h, pc, t)
              wrong == (CounterOf(t, hi, i) \div 2 = 1) # actual_taken
              up    == alloc_id(t)
              new   == [valid |-> TRUE, tag |-> tag_of(h, pc, up),
                        state |-> IF actual_taken THEN 2 ELSE 1]
              counted == IF t = 0 THEN bht_tagged
                         ELSE [bht_tagged EXCEPT ![t][hi][i].state = Saturate(@, actual_taken)]
          IN /\ bht_base' = IF t = 0
                            THEN [bht_base EXCEPT ![hi][i] = Saturate(@, actual_taken)]
                            ELSE bht_base
             /\ bht_tagged' = IF wrong /\ t < Longest
                              THEN [counted EXCEPT ![up][hi][index_of(h, pc, up)] = new]
                              ELSE counted
  /\ UNCHANGED <<ras, ghr, pred>>

mispredictKeepHistory(btbhit, ghr_value) ==   (* mutant: the history is not repaired *)
  /\ ghr' = ghr_value
  /\ UNCHANGED <<btbVars, ras, bhtVars, pred>>

mispredict(btbhit, ghr_value) ==
  /\ ghr' = IF btbhit THEN NegateNewest(ghr_value) ELSE ghr_value
  /\ UNCHANGED <<btbVars, ras, bhtVars, pred>>

-----------------------------------------------------------------------------
BPUTypeOK ==
  /\ BufferTypeOK
  /\ bht_base \in [{0, 1} -> [Bits(INDEX_BITS) -> 0 .. 3]]
  /\ \A t \in Tables : \A hi \in {0, 1} : \A i \in Bits(INDEX_BITS) :
       bht_tagged[t][hi][i] \in
         [state : 0 .. 3, tag : Bits(TAG_WIDTHS[t]), valid : BOOLEAN]
  /\ ghr \in Bits(MAX_HISTLEN)
=============================================================================
