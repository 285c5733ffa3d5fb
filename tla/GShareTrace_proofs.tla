-------------------------- MODULE GShareTrace_proofs --------------------------
(***************************************************************************)
(* The gshare model and its trace runner, for every size of the buffer,    *)
(* the stack, the history and the counters.                                *)
(*                                                                         *)
(* Under any trace: the types, that an address has one entry at most, and  *)
(* that nothing is evicted from a set with a free way.  Under a trace with *)
(* one control instruction in a word an entry that hits is that of the     *)
(* instruction predicted (EntriesAreTrained), from which it follows that   *)
(* history and counters agree with what the trace does.                    *)
(***************************************************************************)
EXTENDS GShareTrace, PredictorLemmas

BufferInv == BufferShape /\ line \in Records

-----------------------------------------------------------------------------
LEMMA BufferInvInit == Init => BufferInv
<1> SUFFICES ASSUME Init PROVE BufferInv
  OBVIOUS
<1>1. TagsTypeOK
  BY SizeAssumption DEF Init, InitBPU, InitBuffer, TagsTypeOK, Sets, Ways
<1>2. OneEntryPerWord /\ FilledInOrder
  BY SizeAssumption DEF Init, InitBPU, InitBuffer, OneEntryPerWord, FilledInOrder, Sets, Ways
<1> QED
  BY <1>1, <1>2 DEF BufferInv, BufferShape, Init

(* Every step keeps the invariant and evicts only from a full set.         *)
LEMMA BufferInvNext ==
  ASSUME BufferInv, [Next]_vars
  PROVE  /\ BufferInv'
         /\ \A s \in Sets : \A w \in Ways :
              btb_tag[s][w].valid /\ btb_tag'[s][w] # btb_tag[s][w] =>
                \A v \in Ways : btb_tag[s][v].valid
<1>1. CASE Predict
  BY <1>1 DEF Predict, predict, btbVars, BufferInv, BufferShape, TagsTypeOK, OneEntryPerWord, FilledInOrder
<1>2. CASE Train
  <2>1. line.pc \in Nat
    BY TraceAssumption DEF BufferInv, BufferShape, TagsTypeOK, Records, Control, get_instr_info
  <2>2. PICK target, ci, instr16 : TrainBuffer(line.pc, target, ci, instr16)
    BY <1>2 DEF Train, train
  <2>3. line' = line
    BY <1>2 DEF Train
  <2> QED
    BY <2>1, <2>2, <2>3, TrainingKeepsShape DEF BufferInv, BufferShape, TagsTypeOK
<1>3. CASE Mispredict
  BY <1>3 DEF Mispredict, mispredict, btbVars, BufferInv, BufferShape, TagsTypeOK, OneEntryPerWord, FilledInOrder
<1>4. CASE UNCHANGED vars
  BY <1>4 DEF vars, btbVars, BufferInv, BufferShape, TagsTypeOK, OneEntryPerWord, FilledInOrder
<1> QED
  BY <1>1, <1>2, <1>3, <1>4 DEF Next

LEMMA BufferInvariant == Spec => []BufferInv
<1>1. BufferInv /\ [Next]_vars => BufferInv'
  BY BufferInvNext
<1> QED
  BY BufferInvInit, <1>1, PTL DEF Spec

(* The look-up of predict and train can never meet two matching ways.      *)
THEOREM OneEntry == Spec => []OneEntryPerWord
<1>1. BufferInv => OneEntryPerWord
  BY DEF BufferInv, BufferShape
<1> QED
  BY BufferInvariant, <1>1, PTL

(* Round-robin replacement evicts nothing from a set with a free way.      *)
THEOREM NoEarlyEviction == Spec => EvictsOnlyWhenFull
<1> DEFINE A == \A s \in Sets : \A w \in Ways :
                  btb_tag[s][w].valid /\ btb_tag'[s][w] # btb_tag[s][w] =>
                    \A v \in Ways : btb_tag[s][v].valid
<1>1. BufferInv /\ [Next]_vars => [A]_btbVars
  BY BufferInvNext
<1>2. []BufferInv /\ [][Next]_vars => [][A]_btbVars
  BY <1>1, PTL
<1> QED
  BY BufferInvariant, <1>2, PTL DEF Spec, EvictsOnlyWhenFull

-----------------------------------------------------------------------------
(* Types.                                                                  *)

LEMMA RecordFields ==
  ASSUME NEW r \in Records
  PROVE  /\ r.pc \in Nat /\ r.ilen \in {2, 4} /\ r.next \in Nat /\ r.target \in Int
         /\ r.ci \in ControlTypes
         /\ r.ci = "Call" => r.ilen = 4
<1>1. PICK t \in Trace : r = get_instr_info(t) /\ r.ci # "none"
  BY DEF Records, Control
<1>2. t \in [pc : Nat, instr : Instr, next : Nat]
  BY TraceAssumption
<1>3. t.pc \in Nat /\ t.next \in Nat /\ t.instr \in Instr
  BY <1>2
<1>4. t.instr.imm \in Int
  BY <1>3 DEF Instr
<1>5. offset_of(t.instr) \in Int
  BY <1>4 DEF offset_of
<1>6. r.ci = ci_of(t.instr) /\ r.pc = t.pc /\ r.next = t.next
  BY <1>1 DEF get_instr_info
<1>7. r.ilen = IF t.instr.op \in Compressed THEN 2 ELSE 4
  BY <1>1 DEF get_instr_info
<1>8. r.target = IF t.instr.op \in {"jalr", "c.jr"} THEN NoTarget ELSE t.pc + offset_of(t.instr)
  BY <1>1 DEF get_instr_info
<1>9. r.ci \in ControlTypes /\ (r.ci = "Call" => r.ilen = 4)
  BY <1>1, <1>6, <1>7 DEF ci_of, ControlTypes, Compressed
<1> QED
  BY <1>3, <1>5, <1>6, <1>7, <1>8, <1>9 DEF NoTarget

LEMMA HashTypes ==
  ASSUME NEW history, NEW pc
  PROVE  fn_hash(history, pc) \in Bits(INDEX_BITS)
<1>1. pc_hash(pc) \in Bits(INDEX_BITS)
  BY HistoryAssumption, BitsOfBits, XorBits DEF pc_hash
<1> QED
  BY <1>1, HistoryAssumption, XorBits DEF fn_hash

LEMMA TypeInit == Init => TypeOK
<1> SUFFICES ASSUME Init PROVE TypeOK
  OBVIOUS
<1>1. InitBuffer /\ bht = [hi \in {0, 1} |-> [i \in Bits(INDEX_BITS) |-> 2]]
      /\ ghr = Zeros(HISTLEN) /\ phase = "predict" /\ outcomes = Zeros(HISTLEN) /\ line \in Records
  BY DEF Init, InitBPU
<1>2. 0 \in Ways /\ RAS_DEPTH >= 0
  BY SizeAssumption DEF Ways
<1>3. [target |-> 0, ci |-> "Branch", instr16 |-> FALSE, hi |-> 0] \in Entry
  BY DEF Entry, ControlTypes
<1>4. BufferTypeOK
  <2>1. btb_entry \in [Sets -> [Ways -> Entry]]
    BY <1>1, <1>3 DEF InitBuffer
  <2>2. btb_tag \in [Sets -> [Ways -> [tag : Nat, valid : BOOLEAN]]] /\ allocate_ptr \in [Sets -> Ways]
    BY <1>1, <1>2 DEF InitBuffer
  <2>3. ras \in Seq(Nat) /\ Len(ras) <= RAS_DEPTH
    BY <1>1, <1>2 DEF InitBuffer
  <2> QED
    BY <2>1, <2>2, <2>3 DEF BufferTypeOK
<1>5. Zeros(HISTLEN) \in Bits(HISTLEN)
  BY ZerosBits, HistoryAssumption
<1> QED
  BY <1>1, <1>4, <1>5 DEF TypeOK, BPUTypeOK

LEMMA PredictTypes ==
  ASSUME TypeOK, BufferInv, Predict
  PROVE  TypeOK'
<1>1. line' \in Records /\ predict(line'.pc, line'.ilen, FALSE, FALSE)
      /\ phase' = "train" /\ outcomes' = outcomes
  BY DEF Predict
<1> DEFINE pc == line'.pc
           e == HitEntry(pc)
           index == fn_hash(ghr, pc)
           taken == bht[e.hi][index] \div 2
<1>2. pc \in Nat
  BY <1>1, RecordFields
<1>3. UNCHANGED <<btb_entry, btb_tag, allocate_ptr, bht>>
  BY <1>1 DEF predict, btbVars
<1>4. BufferHit(pc) => e \in Entry
  BY <1>2, HitEntryTypes DEF BufferInv, BufferShape, TypeOK, BPUTypeOK
<1>5. BufferHit(pc) => taken \in {0, 1}
  <2> SUFFICES ASSUME BufferHit(pc) PROVE taken \in {0, 1}
    OBVIOUS
  <2>1. e.hi \in {0, 1}
    BY <1>4 DEF Entry
  <2>2. index \in Bits(INDEX_BITS)
    BY HashTypes
  <2> HIDE DEF e, index
  <2>3. bht[e.hi][index] \in 0..3
    BY <2>1, <2>2 DEF TypeOK, BPUTypeOK
  <2> QED
    BY <2>3, CounterTypes
<1>6. ras' \in Seq(Nat) /\ Len(ras') <= RAS_DEPTH
  <2>1. ras' = IF BufferHit(pc) /\ (e.hi = 1 \/ ~FALSE) THEN StackAfter(e, pc, FALSE) ELSE ras
    BY <1>1 DEF predict
  <2> HIDE DEF e, pc
  <2> QED
    BY <2>1, <1>2, <1>4, StackTypes DEF TypeOK, BPUTypeOK, BufferTypeOK
<1>7. ghr' \in Bits(HISTLEN)
  <2>1. ghr' = ghr \/ (BufferHit(pc) /\ ghr' = ShiftIn(taken, ghr))
    BY <1>1 DEF predict
  <2> HIDE DEF taken
  <2> QED
    BY <2>1, <1>5, ShiftInBits, HistoryAssumption DEF TypeOK, BPUTypeOK
<1> QED
  BY <1>1, <1>3, <1>6, <1>7 DEF TypeOK, BPUTypeOK, BufferTypeOK

(* What Train asks of the target buffer and of the counters.               *)
LEMMA TrainFacts ==
  ASSUME TypeOK, Train
  PROVE  /\ line.pc \in Nat
         /\ \E target \in Int : TrainBuffer(line.pc, target, line.ci, line.ilen = 2)
         /\ bht' = IF line.ci = "Branch" /\ pred.btbhit
                   THEN LET c == TrainedCounter(ghr, line.pc)
                        IN [bht EXCEPT ![c[1]][c[2]] = Saturate(@, actual_taken)]
                   ELSE bht
         /\ UNCHANGED <<ras, ghr, pred, line>>
<1>1. line.pc \in Nat /\ line.target \in Int /\ line.next \in Int
  BY RecordFields DEF TypeOK
<1> DEFINE target == IF line.ci = "Branch"
                     THEN IF line.target = NoTarget THEN line.next ELSE line.target
                     ELSE line.next
<1>2. target \in Int
  BY <1>1
<1>3. TrainBuffer(line.pc, target, line.ci, line.ilen = 2)
  BY DEF Train, train
<1>4. UNCHANGED <<ras, ghr, pred, line>>
  BY DEF Train, train
<1>5. bht' = IF line.ci = "Branch" /\ pred.btbhit
             THEN LET c == TrainedCounter(ghr, line.pc)
                  IN [bht EXCEPT ![c[1]][c[2]] = Saturate(@, actual_taken)]
             ELSE bht
  <2>1. CASE line.ci = "Branch"
    BY <2>1 DEF Train, train
  <2>2. CASE line.ci # "Branch"
    BY <2>2 DEF Train, train
  <2> QED
    BY <2>1, <2>2
<1> HIDE DEF target
<1> QED
  BY <1>1, <1>2, <1>3, <1>4, <1>5

LEMMA TrainTypes ==
  ASSUME TypeOK, BufferInv, BufferInv', Train
  PROVE  TypeOK'
<1>1. line.pc \in Nat /\ line.ci \in ControlTypes
  BY RecordFields DEF TypeOK
<1>2. PICK target \in Int : TrainBuffer(line.pc, target, line.ci, line.ilen = 2)
  BY TrainFacts
<1>3. btb_entry' \in [Sets -> [Ways -> Entry]]
  BY <1>1, <1>2, TrainWrites DEF TypeOK, BPUTypeOK, BufferInv
<1>4. bht' \in [{0, 1} -> [Bits(INDEX_BITS) -> 0 .. 3]]
  <2> DEFINE c == TrainedCounter(ghr, line.pc)
  <2>1. c[1] \in {0, 1} /\ c[2] \in Bits(INDEX_BITS)
    BY <1>1, HalfOfWord, HashTypes DEF TrainedCounter
  <2>2. bht' = bht \/ bht' = [bht EXCEPT ![c[1]][c[2]] = Saturate(@, actual_taken)]
    BY TrainFacts
  <2>3. actual_taken \in BOOLEAN
    BY DEF actual_taken
  <2> HIDE DEF c
  <2>4. bht[c[1]][c[2]] \in 0..3
    BY <2>1 DEF TypeOK, BPUTypeOK
  <2>5. Saturate(bht[c[1]][c[2]], actual_taken) \in 0..3
    BY <2>3, <2>4, CounterTypes
  <2> QED
    BY <2>1, <2>2, <2>5 DEF TypeOK, BPUTypeOK
<1>5. outcomes' \in Bits(HISTLEN)
  <2>1. outcomes' = outcomes \/ outcomes' = ShiftIn(IF actual_taken THEN 1 ELSE 0, outcomes)
    BY DEF Train
  <2> QED
    BY <2>1, ShiftInBits, HistoryAssumption DEF TypeOK
<1>6. phase' \in {"predict", "train", "mispredict"}
  BY DEF Train
<1>7. UNCHANGED <<ras, ghr, line>>
  BY TrainFacts
<1> QED
  BY <1>3, <1>4, <1>5, <1>6, <1>7 DEF TypeOK, BPUTypeOK, BufferTypeOK, BufferInv, BufferShape, TagsTypeOK

LEMMA TypeStep == TypeOK /\ BufferInv /\ [Next]_vars => TypeOK'
<1> SUFFICES ASSUME TypeOK, BufferInv, [Next]_vars PROVE TypeOK'
  OBVIOUS
<1>1. CASE Predict
  BY <1>1, PredictTypes
<1>2. CASE Train
  BY <1>2, BufferInvNext, TrainTypes
<1>3. CASE Mispredict
  <2>1. ghr' = ghr \/ ghr' = NegateNewest(ghr)
    BY <1>3 DEF Mispredict, mispredict
  <2>2. ghr' \in Bits(HISTLEN)
    BY <2>1, NegateBits, HistoryAssumption DEF TypeOK, BPUTypeOK
  <2>3. UNCHANGED <<btb_entry, btb_tag, allocate_ptr, ras, bht, line, outcomes>> /\ phase' = "predict"
    BY <1>3 DEF Mispredict, mispredict, btbVars
  <2> QED
    BY <2>2, <2>3 DEF TypeOK, BPUTypeOK, BufferTypeOK
<1>4. CASE UNCHANGED vars
  BY <1>4 DEF vars, btbVars, TypeOK, BPUTypeOK, BufferTypeOK
<1> QED
  BY <1>1, <1>2, <1>3, <1>4 DEF Next

LEMMA Typed == Spec => [](TypeOK /\ BufferInv)
<1>1. Init => TypeOK /\ BufferInv
  BY TypeInit, BufferInvInit
<1>2. TypeOK /\ BufferInv /\ [Next]_vars => (TypeOK /\ BufferInv)'
  BY TypeStep, BufferInvNext
<1> QED
  BY <1>1, <1>2, PTL DEF Spec

(* Whatever the trace, an index never leaves its table, a counter keeps    *)
(* its two bits, the history its length and the stack its depth.           *)
THEOREM TypeCorrect == Spec => []TypeOK
BY Typed, PTL

-----------------------------------------------------------------------------
(* What an entry says is what the instruction it was trained by is.        *)
IsOf(e, r) ==
  /\ e.ci = r.ci /\ e.instr16 = (r.ilen = 2) /\ e.hi = hi_val(r.pc)
  /\ r.ci = "Branch" /\ r.target # NoTarget => e.target = r.target

EntriesAreTrained ==
  \A s \in Sets : \A w \in Ways : btb_tag[s][w].valid =>
    \E r \in Records : /\ btb_index(r.pc) = s /\ btb_tag_value(r.pc) = btb_tag[s][w].tag
                       /\ IsOf(btb_entry[s][w], r)

LEMMA HitIsOwn ==
  ASSUME TypeOK, BufferInv, EntriesAreTrained, OneControlPerWord,
         NEW r \in Records, BufferHit(r.pc)
  PROVE  IsOf(HitEntry(r.pc), r)
<1> DEFINE s == btb_index(r.pc)
           w == HitWay(r.pc)
<1>1. r.pc \in Nat
  BY RecordFields
<1>2. s \in Sets /\ w \in Ways /\ btb_tag[s][w].valid /\ btb_tag[s][w].tag = btb_tag_value(r.pc)
  BY <1>1, Addressing, HitWayMatches DEF BufferInv, BufferShape
<1>3. PICK x \in Records : /\ btb_index(x.pc) = s /\ btb_tag_value(x.pc) = btb_tag[s][w].tag
                           /\ IsOf(btb_entry[s][w], x)
  BY <1>2 DEF EntriesAreTrained
<1>4. x.pc \in Nat
  BY RecordFields
<1>5. x.pc \div 4 = r.pc \div 4
  BY <1>1, <1>2, <1>3, <1>4, IndexAndTag
<1>6. x.pc = r.pc /\ x.ilen = r.ilen /\ x.ci = r.ci /\ x.target = r.target
  BY <1>5 DEF OneControlPerWord
<1> QED
  BY <1>3, <1>6 DEF HitEntry, IsOf

LEMMA TrainKeepsEntries ==
  ASSUME TypeOK, BufferInv, EntriesAreTrained, Train
  PROVE  EntriesAreTrained'
<1> DEFINE pc == line.pc
           target == IF line.ci = "Branch"
                     THEN IF line.target = NoTarget THEN line.next ELSE line.target
                     ELSE line.next
<1>1. /\ pc \in Nat /\ line \in Records /\ line.ci \in ControlTypes
      /\ line.target \in Int /\ line.next \in Int
  BY RecordFields DEF TypeOK
<1>2. target \in Int
  BY <1>1
<1>3. PICK short \in BOOLEAN : short = (line.ilen = 2) /\ TrainBuffer(pc, target, line.ci, short)
  BY DEF Train, train
<1> DEFINE n == [target |-> target, ci |-> line.ci, instr16 |-> short, hi |-> hi_val(pc)]
<1>4. IsOf(n, line)
  BY <1>3 DEF IsOf
<1>5. PICK w \in Ways :
        /\ btb_entry'[btb_index(pc)][w] = n
        /\ btb_tag'[btb_index(pc)][w].tag = btb_tag_value(pc)
        /\ \A t \in Sets : \A v \in Ways : t # btb_index(pc) \/ v # w =>
             btb_entry'[t][v] = btb_entry[t][v] /\ btb_tag'[t][v] = btb_tag[t][v]
  <2>1. BufferTypeOK /\ BufferShape
    BY DEF TypeOK, BPUTypeOK, BufferInv
  <2>2. ASSUME NEW a \in Nat, NEW b \in Int, NEW c \in ControlTypes, NEW h \in BOOLEAN,
               TrainBuffer(a, b, c, h)
        PROVE  \E w \in Ways :
                 /\ btb_entry'[btb_index(a)][w] = [target |-> b, ci |-> c,
                                                   instr16 |-> h, hi |-> hi_val(a)]
                 /\ btb_tag'[btb_index(a)][w].tag = btb_tag_value(a)
                 /\ \A t \in Sets : \A v \in Ways : t # btb_index(a) \/ v # w =>
                      btb_entry'[t][v] = btb_entry[t][v] /\ btb_tag'[t][v] = btb_tag[t][v]
    BY <2>1, <2>2, TrainWrites
  <2> HIDE DEF target, pc
  <2>3. pc \in Nat /\ target \in Int /\ line.ci \in ControlTypes /\ short \in BOOLEAN
    BY <1>1, <1>2
  <2> QED
    BY <1>3, <2>2, <2>3
<1> HIDE DEF n
<1> SUFFICES ASSUME NEW t \in Sets, NEW v \in Ways, btb_tag'[t][v].valid
             PROVE  \E r \in Records : /\ btb_index(r.pc) = t
                                       /\ btb_tag_value(r.pc) = btb_tag'[t][v].tag
                                       /\ IsOf(btb_entry'[t][v], r)
  BY DEF EntriesAreTrained
<1>6. CASE t = btb_index(pc) /\ v = w
  <2>1. IsOf(btb_entry'[t][v], line) /\ btb_tag'[t][v].tag = btb_tag_value(pc)
    BY <1>4, <1>5, <1>6
  <2> QED
    BY <1>1, <1>6, <2>1
<1>7. CASE t # btb_index(pc) \/ v # w
  <2>1. btb_entry'[t][v] = btb_entry[t][v] /\ btb_tag'[t][v] = btb_tag[t][v]
    BY <1>5, <1>7
  <2> QED
    BY <2>1 DEF EntriesAreTrained
<1> QED
  BY <1>6, <1>7

LEMMA EntriesStep ==
  ASSUME TypeOK, BufferInv, EntriesAreTrained, [Next]_vars
  PROVE  EntriesAreTrained'
<1>1. CASE UNCHANGED btbVars
  BY <1>1 DEF btbVars, EntriesAreTrained
<1>2. CASE Train
  BY <1>2, TrainKeepsEntries
<1>3. UNCHANGED btbVars \/ Train
  BY DEF Next, Predict, predict, Mispredict, mispredict, vars
<1> QED
  BY <1>1, <1>2, <1>3

LEMMA EntriesInit == Init => EntriesAreTrained
BY DEF Init, InitBPU, InitBuffer, EntriesAreTrained

Base == TypeOK /\ BufferInv /\ EntriesAreTrained

LEMMA BaseStep == Base /\ [Next]_vars => Base'
BY TypeStep, BufferInvNext, EntriesStep DEF Base

LEMMA BaseInit == Init => Base
BY TypeInit, BufferInvInit, EntriesInit DEF Base

-----------------------------------------------------------------------------
(* What a prediction does to the history, in a trace with one control      *)
(* instruction in a word.                                                  *)
LEMMA Predictions ==
  ASSUME Base, OneControlPerWord, Predict
  PROVE  /\ line' \in Records /\ phase' = "train" /\ outcomes' = outcomes
         /\ ~pred'.btbhit \/ line'.ci # "Branch" => ghr' = ghr
         /\ pred'.btbhit /\ line'.ci = "Branch" =>
              /\ pred'.counter = <<hi_val(line'.pc), fn_hash(ghr, line'.pc)>>
              /\ \E t \in {0, 1} :
                   /\ ghr' = ShiftIn(t, ghr)
                   /\ line'.target # NoTarget =>
                        pred'.nextpc = IF t = 0 THEN line'.pc + line'.ilen ELSE line'.target
<1> DEFINE pc == line'.pc
           hit == BufferHit(pc)
           e == HitEntry(pc)
           index == fn_hash(ghr, pc)
           taken == bht[e.hi][index] \div 2
<1>1. line' \in Records /\ phase' = "train" /\ outcomes' = outcomes
      /\ predict(pc, line'.ilen, FALSE, FALSE)
  BY DEF Predict
<1>2. TypeOK /\ BufferInv /\ EntriesAreTrained /\ pc \in Nat
  BY <1>1, RecordFields DEF Base
<1>3. hit => IsOf(e, line')
  BY <1>1, <1>2, HitIsOwn
<1>4. hit => taken \in {0, 1}
  <2> SUFFICES ASSUME hit PROVE taken \in {0, 1}
    OBVIOUS
  <2>1. e.hi \in {0, 1}
    BY <1>2, HitEntryTypes DEF Entry, BufferInv, BufferShape, TypeOK, BPUTypeOK
  <2>2. index \in Bits(INDEX_BITS)
    BY HashTypes
  <2> HIDE DEF e, index
  <2>3. bht[e.hi][index] \in 0..3
    BY <1>2, <2>1, <2>2 DEF TypeOK, BPUTypeOK
  <2> QED
    BY <2>3, CounterTypes
<1>5. /\ ghr' = IF hit /\ e.ci = "Branch" THEN ShiftIn(taken, ghr) ELSE ghr
      /\ pred'.btbhit <=> hit
      /\ hit /\ e.ci = "Branch" =>
           /\ pred'.counter = <<e.hi, index>>
           /\ pred'.nextpc = IF taken = 0 THEN pc + line'.ilen ELSE PredictedTarget(e)
  <2>1. ghr' = IF hit /\ e.ci = "Branch" THEN ShiftIn(taken, ghr) ELSE ghr
    BY <1>1 DEF predict
  <2>2. pred'.btbhit <=> hit
    BY <1>1 DEF predict
  <2>3. hit /\ e.ci = "Branch" => pred'.counter = <<e.hi, index>>
    BY <1>1 DEF predict
  <2>4. hit /\ e.ci = "Branch" =>
          pred'.nextpc = IF taken = 0 THEN pc + line'.ilen ELSE PredictedTarget(e)
    <3> SUFFICES ASSUME hit, e.ci = "Branch"
                 PROVE  pred'.nextpc = IF taken = 0 THEN pc + line'.ilen ELSE PredictedTarget(e)
      OBVIOUS
    <3>1. pred'.nextpc = CASE ~hit -> pc + line'.ilen
                           [] hit /\ ~hit -> pc + IF e.instr16 THEN 2 ELSE 4
                           [] hit /\ taken = 0 -> pc + line'.ilen
                           [] OTHER -> PredictedTarget(e)
      BY <1>1 DEF predict
    <3> HIDE DEF hit, e, taken, pc
    <3> QED
      BY <3>1
  <2> QED
    BY <2>1, <2>2, <2>3, <2>4
<1> HIDE DEF hit, e, index, taken
<1>6. hit => e.ci = line'.ci /\ e.hi = hi_val(pc) /\ e.instr16 = (line'.ilen = 2)
  BY <1>3 DEF IsOf
<1>7. ASSUME hit, line'.ci = "Branch", line'.target # NoTarget
      PROVE  PredictedTarget(e) = line'.target
  BY <1>3, <1>6, <1>7 DEF PredictedTarget, IsOf
<1>8. ASSUME hit, line'.ci = "Branch"
      PROVE  /\ pred'.counter = <<hi_val(pc), fn_hash(ghr, pc)>>
             /\ \E t \in {0, 1} :
                  /\ ghr' = ShiftIn(t, ghr)
                  /\ line'.target # NoTarget =>
                       pred'.nextpc = IF t = 0 THEN pc + line'.ilen ELSE line'.target
  <2>1. pred'.counter = <<hi_val(pc), fn_hash(ghr, pc)>>
    BY <1>5, <1>6, <1>8 DEF index
  <2>2. taken \in {0, 1} /\ ghr' = ShiftIn(taken, ghr)
    BY <1>4, <1>5, <1>6, <1>8
  <2>3. line'.target # NoTarget =>
          pred'.nextpc = IF taken = 0 THEN pc + line'.ilen ELSE line'.target
    BY <1>5, <1>6, <1>7, <1>8
  <2> QED
    BY <2>1, <2>2, <2>3
<1> QED
  BY <1>1, <1>5, <1>6, <1>8

(* The history is ahead of the outcomes by the prediction that is out, and *)
(* differs from them, when it was wrong, in its newest bit.                *)
Ahead ==
  /\ phase = "predict" => ghr = outcomes
  /\ phase = "train" =>
       IF line.ci = "Branch" /\ pred.btbhit
       THEN \E t \in {0, 1} :
              /\ ghr = ShiftIn(t, outcomes)
              /\ pred.nextpc = IF t = 0 THEN line.pc + line.ilen ELSE line.target
       ELSE ghr = outcomes
  /\ phase = "mispredict" => outcomes = IF pred.btbhit THEN NegateNewest(ghr) ELSE ghr

LEMMA AheadStep ==
  ASSUME OneControlPerWord, BranchesGoTwoWays, Base, Ahead, [Next]_vars
  PROVE  Ahead'
<1>1. CASE Predict
  <2>1. phase = "predict" /\ ghr = outcomes
    BY <1>1 DEF Predict, Ahead
  <2>2. line'.ci = "Branch" => line'.target # NoTarget
    BY <1>1, Predictions DEF BranchesGoTwoWays
  <2>3. CASE line'.ci = "Branch" /\ pred'.btbhit
    BY <1>1, <2>1, <2>2, <2>3, Predictions DEF Ahead
  <2>4. CASE ~(line'.ci = "Branch" /\ pred'.btbhit)
    BY <1>1, <2>1, <2>4, Predictions DEF Ahead
  <2> QED
    BY <2>3, <2>4
<1>2. CASE Train
  <2>1. phase = "train" /\ UNCHANGED <<ghr, pred, line>>
    BY <1>2, TrainFacts DEF Train, Base
  <2>2. line \in Records /\ outcomes \in Bits(HISTLEN)
    BY DEF Base, TypeOK
  <2>3. CASE line.ci # "Branch"
    <3>1. phase' = "predict" /\ outcomes' = outcomes
      BY <1>2, <2>3 DEF Train
    <3> QED
      BY <2>1, <2>3, <3>1 DEF Ahead
  <2>4. CASE line.ci = "Branch" /\ ~pred.btbhit
    <3>1. phase' \in {"predict", "mispredict"} /\ outcomes' = outcomes
      BY <1>2, <2>4 DEF Train
    <3> QED
      BY <2>1, <2>4, <3>1 DEF Ahead
  <2>5. CASE line.ci = "Branch" /\ pred.btbhit
    <3> DEFINE a == IF actual_taken THEN 1 ELSE 0
    <3>1. /\ outcomes' = ShiftIn(a, outcomes)
          /\ phase' = IF pred.nextpc # line.next THEN "mispredict" ELSE "predict"
      BY <1>2, <2>5 DEF Train
    <3>2. PICK t \in {0, 1} :
            /\ ghr = ShiftIn(t, outcomes)
            /\ pred.nextpc = IF t = 0 THEN line.pc + line.ilen ELSE line.target
      BY <2>1, <2>5 DEF Ahead
    <3>3. line.target # line.pc + line.ilen /\ line.next \in {line.target, line.pc + line.ilen}
      BY <2>2, <2>5 DEF BranchesGoTwoWays
    <3>4. a = IF line.next = line.pc + line.ilen THEN 0 ELSE 1
      BY DEF actual_taken
    <3> HIDE DEF a
    <3>5. CASE pred.nextpc = line.next
      <4>1. t = a
        BY <3>2, <3>3, <3>4, <3>5
      <4> QED
        BY <2>1, <3>1, <3>2, <3>5, <4>1 DEF Ahead
    <3>6. CASE pred.nextpc # line.next
      <4>1. a = 1 - t
        BY <3>2, <3>3, <3>4, <3>6
      <4>2. outcomes' = NegateNewest(ghr)
        BY <2>2, <3>1, <3>2, <4>1, RepairShiftIn, HistoryAssumption
      <4>3. phase' = "mispredict"
        BY <3>1, <3>6
      <4> QED
        BY <2>1, <2>5, <4>2, <4>3 DEF Ahead
    <3> QED
      BY <3>5, <3>6
  <2> QED
    BY <2>3, <2>4, <2>5
<1>3. CASE Mispredict
  <2>1. /\ phase = "mispredict" /\ phase' = "predict" /\ outcomes' = outcomes
        /\ ghr' = IF pred.btbhit THEN NegateNewest(ghr) ELSE ghr
    BY <1>3 DEF Mispredict, mispredict
  <2> QED
    BY <2>1 DEF Ahead
<1>4. CASE UNCHANGED vars
  BY <1>4 DEF vars, Ahead
<1> QED
  BY <1>1, <1>2, <1>3, <1>4 DEF Next

(* In a trace of one program without traps, with one control instruction   *)
(* in a word, the speculative history is repaired after every wrong        *)
(* prediction: what predict hashes is what the branches did.               *)
THEOREM HistoryKept ==
  ASSUME OneControlPerWord, BranchesGoTwoWays
  PROVE  Spec => []HistoryIsOutcomes
<1>1. Init => Base /\ Ahead
  <2>1. Init => Ahead
    BY DEF Init, InitBPU, Ahead
  <2> QED
    BY <2>1, BaseInit
<1>2. Base /\ Ahead /\ [Next]_vars => (Base /\ Ahead)'
  BY BaseStep, AheadStep
<1>3. Base /\ Ahead => HistoryIsOutcomes
  BY DEF Ahead, HistoryIsOutcomes
<1> QED
  BY <1>1, <1>2, <1>3, PTL DEF Spec

(* When the hash leaves out the oldest bit of the history, which shifting  *)
(* back loses, train updates the counter that predict has read.            *)
THEOREM CounterKept ==
  ASSUME OneControlPerWord, HISTBITS < HISTLEN
  PROVE  Spec => []TrainsPredictedCounter
<1>1. Init => Base /\ TrainsPredictedCounter
  <2>1. Init => TrainsPredictedCounter
    BY DEF Init, TrainsPredictedCounter
  <2> QED
    BY <2>1, BaseInit
<1>2. ASSUME Base, TrainsPredictedCounter, [Next]_vars
      PROVE  TrainsPredictedCounter'
  <2>1. CASE Predict
    <3> SUFFICES ASSUME line'.ci = "Branch", pred'.btbhit
                 PROVE  TrainedCounter(ghr', line'.pc) = pred'.counter
      BY DEF TrainsPredictedCounter
    <3>1. PICK t \in {0, 1} : ghr' = ShiftIn(t, ghr)
      BY <1>2, <2>1, Predictions
    <3>2. pred'.counter = <<hi_val(line'.pc), fn_hash(ghr, line'.pc)>>
      BY <1>2, <2>1, Predictions
    <3>3. ghr \in Bits(HISTLEN) /\ HISTBITS \in Nat
      BY <1>2, HistoryAssumption DEF Base, TypeOK, BPUTypeOK
    <3>4. SubSeq(ShiftLeft(ghr', 1), 1, HISTBITS) = SubSeq(ghr, 1, HISTBITS)
      BY <3>1, <3>3, HistoryAssumption, ShiftBack
    <3>5. fn_hash(ShiftLeft(ghr', 1), line'.pc) = fn_hash(ghr, line'.pc)
      BY <3>4, Zenon DEF fn_hash, hist_hash
    <3> QED
      BY <3>2, <3>5 DEF TrainedCounter
  <2>2. CASE Train \/ Mispredict
    <3>1. phase' # "train"
      BY <2>2 DEF Train, Mispredict
    <3> QED
      BY <3>1 DEF TrainsPredictedCounter
  <2>3. CASE UNCHANGED vars
    BY <1>2, <2>3 DEF vars, TrainsPredictedCounter, TrainedCounter
  <2> QED
    BY <1>2, <2>1, <2>2, <2>3 DEF Next
<1>3. Base /\ TrainsPredictedCounter /\ [Next]_vars => (Base /\ TrainsPredictedCounter)'
  BY <1>2, BaseStep
<1> QED
  BY <1>1, <1>3, PTL DEF Spec
=============================================================================
