-------------------------- MODULE UTageTrace_proofs --------------------------
(***************************************************************************)
(* The micro-TAGE model and its trace runner.  The runner passes every     *)
(* control transfer as a branch, so every entry of the buffer is that of a *)
(* branch, whatever the trace; a prediction that hits has therefore        *)
(* shifted one bit into the history, and the repair of that bit leaves the *)
(* outcome.  For every trace and every size of the tables.                 *)
(***************************************************************************)
EXTENDS UTageTrace, PredictorLemmas

OnlyBranches == \A s \in Sets : \A w \in Ways : btb_entry[s][w].ci = "Branch"

Rows(t) == [state : 0 .. 3, tag : Bits(TAG_WIDTHS[t]), valid : BOOLEAN]
AnyRow  == [state : 0 .. 3, tag : Seq({0, 1}), valid : BOOLEAN]

TablesTyped ==
  /\ bht_base \in [{0, 1} -> [Bits(INDEX_BITS) -> 0 .. 3]]
  /\ bht_tagged \in [Tables -> [{0, 1} -> [Bits(INDEX_BITS) -> AnyRow]]]
  /\ \A t \in Tables : \A hi \in {0, 1} : \A i \in Bits(INDEX_BITS) :
       bht_tagged[t][hi][i] \in Rows(t)

PredOK ==
  /\ pred.btbhit \in BOOLEAN /\ pred.prediction \in 0 .. 3
  /\ ~pred.btbhit => pred.prediction = 1

(* What the history is between the calls: what the branches did, with the  *)
(* last one as predicted until the misprediction is repaired.              *)
HistoryInv ==
  /\ phase = "predict" => ghr = outcomes
  /\ phase = "train" =>
       ghr = IF pred.btbhit THEN ShiftIn(pred.prediction \div 2, outcomes) ELSE outcomes
  /\ phase = "mispredict" =>
       outcomes = IF pred.btbhit THEN NegateNewest(ghr) ELSE ghr

IInv ==
  /\ TypeOK /\ BufferShape /\ TablesTyped
  /\ OnlyBranches /\ PredOK
  /\ HistoryInv /\ ProviderFoundIfZeroDropped

-----------------------------------------------------------------------------
LEMMA Sizes ==
  /\ MAX_HISTLEN \in Nat \ {0} /\ INDEX_BITS \in Nat
  /\ \A t \in Tables : TAG_WIDTHS[t] \in Nat
<1>1. Longest \in Tables
  BY DEF Longest, Tables
<1> QED
  BY <1>1, TableAssumption DEF MAX_HISTLEN

LEMMA IndexTypes ==
  ASSUME NEW h, NEW pc, NEW t
  PROVE  index_of(h, pc, t) \in Bits(INDEX_BITS)
BY Sizes, BitsOfBits, XorBits DEF index_of

LEMMA TagTypes ==
  ASSUME NEW h, NEW pc, NEW t \in Tables
  PROVE  tag_of(h, pc, t) \in Bits(TAG_WIDTHS[t])
BY Sizes, BitsOfBits, XorBits DEF tag_of

LEMMA ProviderTypes ==
  ASSUME NEW h, NEW pc, NEW hi
  PROVE  provider_id(h, pc, hi) \in 0 .. 3
<1> DEFINE hits == {t \in Tables : LET e == bht_tagged[t][hi][index_of(h, pc, t)]
                                   IN e.valid /\ e.tag = tag_of(h, pc, t)}
<1>1. hits \subseteq {1, 2, 3}
  BY DEF Tables
<1>2. provider_id(h, pc, hi) = IF hits = {} THEN 0 ELSE CHOOSE t \in hits : \A u \in hits : t >= u
  BY DEF provider_id
<1> HIDE DEF hits
<1>3. ASSUME hits # {} PROVE \E t \in hits : \A u \in hits : t >= u
  <2>1. CASE 3 \in hits
    BY <1>1, <2>1
  <2>2. CASE 3 \notin hits /\ 2 \in hits
    BY <1>1, <2>2
  <2>3. CASE 3 \notin hits /\ 2 \notin hits
    <3>1. hits = {1}
      BY <1>1, <1>3, <2>3
    <3> QED
      BY <3>1
  <2> QED
    BY <2>1, <2>2, <2>3
<1>4. CASE hits = {}
  BY <1>2, <1>4
<1>5. CASE hits # {}
  <2>1. provider_id(h, pc, hi) \in hits
    BY <1>2, <1>3, <1>5
  <2>2. provider_id(h, pc, hi) \in {1, 2, 3}
    BY <1>1, <2>1
  <2> QED
    BY <2>2
<1> QED
  BY <1>4, <1>5

LEMMA CounterStates ==
  ASSUME TablesTyped, NEW t \in 0 .. 3, NEW hi \in {0, 1}, NEW i \in Bits(INDEX_BITS)
  PROVE  CounterOf(t, hi, i) \in 0 .. 3
<1>1. t = 0 \/ t \in Tables
  BY DEF Tables
<1> QED
  BY <1>1 DEF CounterOf, TablesTyped, Rows

LEMMA RecordFields ==
  ASSUME NEW r \in Records
  PROVE  r.pc \in Nat /\ r.taken \in BOOLEAN /\ r.next \in Nat
BY RecordAssumption

(* A table is written by rows.                                             *)
LEMMA RowWritten ==
  ASSUME NEW f \in [Tables -> [{0, 1} -> [Bits(INDEX_BITS) -> AnyRow]]],
         \A t \in Tables : \A hi \in {0, 1} : \A i \in Bits(INDEX_BITS) : f[t][hi][i] \in Rows(t),
         NEW u \in Tables, NEW b \in {0, 1}, NEW j \in Bits(INDEX_BITS), NEW r \in Rows(u)
  PROVE  LET g == [f EXCEPT ![u][b][j] = r]
         IN /\ g \in [Tables -> [{0, 1} -> [Bits(INDEX_BITS) -> AnyRow]]]
            /\ \A t \in Tables : \A hi \in {0, 1} : \A i \in Bits(INDEX_BITS) : g[t][hi][i] \in Rows(t)
<1> DEFINE g == [f EXCEPT ![u][b][j] = r]
<1>1. r \in AnyRow
  <2>1. r.tag \in Seq({0, 1})
    BY Sizes, BitsAreSequences DEF Rows
  <2> QED
    BY <2>1 DEF Rows, AnyRow
<1>2. g \in [Tables -> [{0, 1} -> [Bits(INDEX_BITS) -> AnyRow]]]
  BY <1>1
<1>3. \A t \in Tables : \A hi \in {0, 1} : \A i \in Bits(INDEX_BITS) :
        g[t][hi][i] = IF t = u /\ hi = b /\ i = j THEN r ELSE f[t][hi][i]
  BY <1>1
<1> QED
  BY <1>2, <1>3

(* Shifting back a history whose oldest bit was zero loses nothing.        *)
LEMMA ShiftBackWhole ==
  ASSUME NEW n \in Nat \ {0}, NEW t \in {0, 1}, NEW h \in Bits(n), Last(h) = 0
  PROVE  ShiftLeft(ShiftIn(t, h), 1) = h
<1> DEFINE g == ShiftIn(t, h)
           z == Zeros(IF 1 < n THEN 1 ELSE n)
           s == SubSeq(g, 2, n) \o z
<1>1. g \in Seq({0, 1}) /\ Len(g) = n /\ \A i \in 1..n : g[i] = IF i = 1 THEN t ELSE h[i - 1]
  BY ShiftInBits, BitsAreSequences
<1>2. z \in Seq({0, 1}) /\ Len(z) = 1 /\ z[1] = 0
  <2>1. (IF 1 < n THEN 1 ELSE n) = 1
    OBVIOUS
  <2>2. Zeros(1) \in Bits(1)
    BY ZerosBits
  <2>3. Zeros(1)[1] = 0
    <3>1. 1 \in 1..1
      OBVIOUS
    <3> QED
      BY <3>1 DEF Zeros
  <2> QED
    BY <2>1, <2>2, <2>3, BitsAreSequences
<1>3. ShiftLeft(g, 1) = s
  BY <1>1 DEF ShiftLeft
<1>4. h \in Seq({0, 1}) /\ Len(h) = n /\ h[n] = 0
  BY BitsAreSequences DEF Last
<1> HIDE DEF g, z
<1>5. SubSeq(g, 2, n) \in Seq({0, 1}) /\ Len(SubSeq(g, 2, n)) = n - 1
  <2>1. \A i \in 2..n : i \in DOMAIN g
    BY <1>1
  <2>2. Len(SubSeq(g, 2, n)) = n - 1
    BY <1>1
  <2> QED
    BY <1>1, <2>1, <2>2, SubSeqProperties
<1>6. s \in Seq({0, 1}) /\ Len(s) = n
  BY <1>2, <1>5, ConcatProperties
<1>7. ASSUME NEW i \in 1..n PROVE s[i] = h[i]
  <2>1. CASE i = n
    <3>1. \A k \in 1..Len(z) : s[Len(SubSeq(g, 2, n)) + k] = z[k]
      BY <1>2, <1>5, ConcatProperties
    <3>2. Len(SubSeq(g, 2, n)) + 1 = n /\ 1 \in 1..Len(z)
      BY <1>2, <1>5
    <3>3. s[n] = z[1]
      BY <3>1, <3>2
    <3> QED
      BY <1>2, <1>4, <2>1, <3>3
  <2>2. CASE i # n
    <3>1. i + 1 \in 1..n /\ i \in 1..n - 1 /\ (i + 1) - 1 = i
      BY <2>2
    <3>2. s[i] = SubSeq(g, 2, n)[i]
      BY <1>1, <1>2, <3>1
    <3>3. SubSeq(g, 2, n)[i] = g[i + 1]
      BY <1>1, <3>1
    <3> QED
      BY <1>1, <3>1, <3>2, <3>3
  <2> QED
    BY <2>1, <2>2
<1> HIDE DEF s
<1>8. s = h
  BY <1>4, <1>6, <1>7
<1> QED
  BY <1>3, <1>8 DEF g

-----------------------------------------------------------------------------
LEMMA Initially == Init => IInv
<1> SUFFICES ASSUME Init PROVE IInv
  OBVIOUS
<1>1. /\ InitBuffer /\ line \in Records /\ phase = "predict" /\ dropped = 0
      /\ ghr = Zeros(MAX_HISTLEN) /\ outcomes = Zeros(MAX_HISTLEN)
      /\ pred = [btbhit |-> FALSE, prediction |-> 1, nextpc |-> 0, provider |-> <<>>]
  BY DEF Init, InitBPU
<1>2. 0 \in Ways /\ RAS_DEPTH >= 0 /\ BTB_WAYS \in Nat /\ BTB_SETS \in Nat
  BY SizeAssumption DEF Ways
<1>3. [target |-> 0, ci |-> "Branch", instr16 |-> FALSE, hi |-> 0] \in Entry
  BY DEF Entry, ControlTypes
<1>4. /\ BufferTypeOK /\ TagsTypeOK
      /\ \A s \in Sets : \A w \in Ways : ~btb_tag[s][w].valid /\ btb_entry[s][w].ci = "Branch"
  <2>1. btb_entry \in [Sets -> [Ways -> Entry]]
    BY <1>1, <1>3 DEF InitBuffer
  <2>2. btb_tag \in [Sets -> [Ways -> [tag : Nat, valid : BOOLEAN]]] /\ allocate_ptr \in [Sets -> Ways]
    BY <1>1, <1>2 DEF InitBuffer
  <2>3. ras \in Seq(Nat) /\ Len(ras) <= RAS_DEPTH
    BY <1>1, <1>2 DEF InitBuffer
  <2>4. \A s \in Sets : \A w \in Ways : ~btb_tag[s][w].valid /\ btb_entry[s][w].ci = "Branch"
    BY <1>1 DEF InitBuffer
  <2> QED
    BY <2>1, <2>2, <2>3, <2>4 DEF BufferTypeOK, TagsTypeOK
<1>5. OneEntryPerWord /\ FilledInOrder
  BY <1>1, <1>2, <1>4 DEF InitBuffer, OneEntryPerWord, FilledInOrder, Ways
<1>6. TablesTyped
  <2>1. \A t \in Tables : Zeros(TAG_WIDTHS[t]) \in Bits(TAG_WIDTHS[t])
                        /\ Zeros(TAG_WIDTHS[t]) \in Seq({0, 1})
    BY Sizes, ZerosBits, BitsAreSequences
  <2>2. \A t \in Tables :
          [state |-> 2, tag |-> Zeros(TAG_WIDTHS[t]), valid |-> FALSE] \in Rows(t) \cap AnyRow
    BY <2>1 DEF Rows, AnyRow
  <2>3. /\ bht_base = [hi \in {0, 1} |-> [i \in Bits(INDEX_BITS) |-> 2]]
        /\ bht_tagged = [t \in Tables |-> [hi \in {0, 1} |-> [i \in Bits(INDEX_BITS) |->
             [state |-> 2, tag |-> Zeros(TAG_WIDTHS[t]), valid |-> FALSE]]]]
    BY DEF Init, InitBPU
  <2> DEFINE r(t) == [state |-> 2, tag |-> Zeros(TAG_WIDTHS[t]), valid |-> FALSE]
  <2>4. \A t \in Tables : r(t) \in Rows(t) /\ r(t) \in AnyRow
    BY <2>2
  <2> HIDE DEF r
  <2>5. bht_tagged = [t \in Tables |-> [hi \in {0, 1} |-> [i \in Bits(INDEX_BITS) |-> r(t)]]]
    BY <2>3 DEF r
  <2>6. bht_tagged \in [Tables -> [{0, 1} -> [Bits(INDEX_BITS) -> AnyRow]]]
    BY <2>4, <2>5
  <2>7. \A t \in Tables : \A hi \in {0, 1} : \A i \in Bits(INDEX_BITS) : bht_tagged[t][hi][i] \in Rows(t)
    BY <2>4, <2>5
  <2>8. bht_base \in [{0, 1} -> [Bits(INDEX_BITS) -> 0 .. 3]]
    BY <2>3
  <2> QED
    BY <2>6, <2>7, <2>8 DEF TablesTyped
<1>7. ghr \in Bits(MAX_HISTLEN) /\ outcomes \in Bits(MAX_HISTLEN)
  BY <1>1, Sizes, ZerosBits
<1>8. TypeOK
  BY <1>1, <1>4, <1>6, <1>7 DEF TypeOK, BPUTypeOK, TablesTyped, Rows
<1>9. PredOK
  BY <1>1 DEF PredOK
<1> QED
  BY <1>1, <1>4, <1>5, <1>6, <1>8, <1>9
  DEF IInv, BufferShape, OnlyBranches, HistoryInv, ProviderFoundIfZeroDropped

(* What predict does to a buffer of branches.                              *)
LEMMA Predicted ==
  ASSUME IInv, Predict
  PROVE  /\ line' \in Records /\ phase' = "train" /\ dropped' = Last(ghr) /\ outcomes' = outcomes
         /\ UNCHANGED <<btb_entry, btb_tag, allocate_ptr, ras, bht_base, bht_tagged>>
         /\ pred'.btbhit \in BOOLEAN /\ pred'.prediction \in 0 .. 3
         /\ IF pred'.btbhit
            THEN /\ ghr' = ShiftIn(pred'.prediction \div 2, ghr)
                 /\ \E hi \in {0, 1} :
                      LET t == provider_id(ghr, line'.pc, hi)
                      IN pred'.provider = <<t, hi, index_of(ghr, line'.pc, t)>>
            ELSE ghr' = ghr /\ pred'.prediction = 1
<1> DEFINE pc     == line'.pc
           hit    == BufferHit(pc)
           e      == HitEntry(pc)
           used   == hit /\ (e.hi = 1 \/ ~FALSE)
           branch == used /\ e.ci = "Branch"
           t      == provider_id(ghr, pc, e.hi)
           index  == index_of(ghr, pc, t)
           state  == CounterOf(t, e.hi, index)
           pr     == CASE branch -> state
                       [] used /\ ~branch -> 3
                       [] OTHER -> 1
           pv     == IF branch THEN <<t, e.hi, index>> ELSE <<>>
<1>1. line' \in Records /\ pc \in Nat
  <2>1. line' \in Records
    BY RecordAssumption DEF Predict, IInv, TypeOK
  <2> QED
    BY <2>1, RecordFields
<1>2. /\ phase' = "train" /\ dropped' = Last(ghr) /\ outcomes' = outcomes
      /\ UNCHANGED <<btb_entry, btb_tag, allocate_ptr, bht_base, bht_tagged>>
      /\ ras' = IF used THEN StackAfter(e, pc, FALSE) ELSE ras
      /\ ghr' = IF branch THEN ShiftIn(state \div 2, ghr) ELSE ghr
      /\ (pred'.btbhit <=> hit) /\ pred'.btbhit \in BOOLEAN
      /\ pred'.prediction = pr /\ pred'.provider = pv
  <2>1. phase' = "train" /\ dropped' = Last(ghr) /\ outcomes' = outcomes
    BY DEF Predict
  <2>2. UNCHANGED <<btb_entry, btb_tag, allocate_ptr, bht_base, bht_tagged>>
    BY DEF Predict, predict, btbVars, bhtVars
  <2>3. ras' = IF used THEN StackAfter(e, pc, FALSE) ELSE ras
    BY DEF Predict, predict
  <2>4. ghr' = IF branch THEN ShiftIn(state \div 2, ghr) ELSE ghr
    BY DEF Predict, predict
  <2>5. (pred'.btbhit <=> hit) /\ pred'.btbhit \in BOOLEAN
    BY DEF Predict, predict
  <2>6. pred'.prediction = pr
    BY DEF Predict, predict
  <2>7. pred'.provider = pv
    BY DEF Predict, predict
  <2> QED
    BY <2>1, <2>2, <2>3, <2>4, <2>5, <2>6, <2>7
<1>3. hit \in BOOLEAN
  BY DEF BufferHit
<1>4. ASSUME hit PROVE e \in Entry /\ e.ci = "Branch"
  <2>1. HitWay(pc) \in Ways /\ btb_index(pc) \in Sets
    BY <1>1, <1>4, Addressing, HitWayMatches DEF IInv, BufferShape
  <2> QED
    BY <2>1 DEF HitEntry, IInv, OnlyBranches, TypeOK, BPUTypeOK, BufferTypeOK
<1>5. ASSUME hit PROVE e.hi \in {0, 1} /\ state \in 0 .. 3
  <2>1. e.hi \in {0, 1}
    BY <1>4, <1>5 DEF Entry
  <2>2. t \in 0 .. 3 /\ index \in Bits(INDEX_BITS)
    BY ProviderTypes, IndexTypes
  <2>3. TablesTyped
    BY DEF IInv
  <2> HIDE DEF t, index, e
  <2> QED
    BY <2>1, <2>2, <2>3, CounterStates
<1>6. (branch <=> hit) /\ (used <=> hit)
  BY <1>4
<1>7. /\ hit => pr = state /\ pv = <<t, e.hi, index>>
      /\ ~hit => pr = 1
  <2> HIDE DEF state, t, index, e, hit
  <2> QED
    BY <1>6
<1>8. ras' = ras
  <2>1. hit => StackAfter(e, pc, FALSE) = ras
    BY <1>4 DEF StackAfter
  <2> QED
    BY <1>2, <1>6, <2>1
<1> HIDE DEF pr, pv
<1>9. /\ (pred'.btbhit <=> hit) /\ pred'.btbhit \in BOOLEAN
      /\ pred'.prediction = pr /\ pred'.provider = pv
  BY <1>2, <1>3
<1> HIDE DEF hit, e, state, used, branch
<1>10. pred'.btbhit \in BOOLEAN /\ pred'.prediction \in 0 .. 3
  BY <1>3, <1>5, <1>7, <1>9
<1>11. CASE hit
  <2>1. ghr' = ShiftIn(pred'.prediction \div 2, ghr)
    BY <1>2, <1>6, <1>7, <1>9, <1>11
  <2>2. pred'.provider = <<t, e.hi, index>>
    BY <1>7, <1>9, <1>11
  <2>3. e.hi \in {0, 1}
    BY <1>5, <1>11
  <2> QED
    BY <1>1, <1>2, <1>8, <1>9, <1>10, <1>11, <2>1, <2>2, <2>3
<1>12. CASE ~hit
  <2>1. ghr' = ghr /\ pred'.prediction = 1
    BY <1>2, <1>6, <1>7, <1>9, <1>12
  <2> QED
    BY <1>1, <1>2, <1>8, <1>9, <1>10, <1>12, <2>1
<1> QED
  BY <1>11, <1>12

LEMMA PredictKeeps == IInv /\ Predict => IInv'
<1> SUFFICES ASSUME IInv, Predict PROVE IInv'
  OBVIOUS
<1>1. /\ line' \in Records /\ phase' = "train" /\ dropped' = Last(ghr) /\ outcomes' = outcomes
      /\ UNCHANGED <<btb_entry, btb_tag, allocate_ptr, ras, bht_base, bht_tagged>>
      /\ pred'.btbhit \in BOOLEAN /\ pred'.prediction \in 0 .. 3
      /\ IF pred'.btbhit
         THEN /\ ghr' = ShiftIn(pred'.prediction \div 2, ghr)
              /\ \E hi \in {0, 1} :
                   LET t == provider_id(ghr, line'.pc, hi)
                   IN pred'.provider = <<t, hi, index_of(ghr, line'.pc, t)>>
         ELSE ghr' = ghr /\ pred'.prediction = 1
  BY Predicted
<1>2. phase = "predict" /\ ghr = outcomes /\ ghr \in Bits(MAX_HISTLEN)
  BY DEF Predict, IInv, HistoryInv, TypeOK, BPUTypeOK
<1>3. pred'.prediction \div 2 \in {0, 1}
  BY <1>1
<1>4. ghr' \in Bits(MAX_HISTLEN)
  BY <1>1, <1>2, <1>3, Sizes, ShiftInBits
<1>5. dropped' \in {0, 1}
  <2>1. ghr \in Seq({0, 1}) /\ Len(ghr) = MAX_HISTLEN /\ MAX_HISTLEN \in Nat \ {0}
    BY <1>2, Sizes, BitsAreSequences
  <2>2. ghr[Len(ghr)] \in {0, 1}
    BY <2>1
  <2> QED
    BY <1>1, <2>2 DEF Last
<1>6. TypeOK'
  <2>1. BufferTypeOK'
    BY <1>1 DEF IInv, TypeOK, BPUTypeOK, BufferTypeOK
  <2>2. BPUTypeOK'
    BY <1>1, <1>4, <2>1 DEF IInv, TypeOK, BPUTypeOK
  <2> QED
    BY <1>1, <1>5, <2>2 DEF IInv, TypeOK
<1>7. BufferShape' /\ TablesTyped' /\ OnlyBranches'
  BY <1>1 DEF IInv, BufferShape, TagsTypeOK, OneEntryPerWord, FilledInOrder, TablesTyped, OnlyBranches
<1>8. PredOK'
  BY <1>1 DEF PredOK
<1>9. HistoryInv'
  BY <1>1, <1>2 DEF HistoryInv
<1>10. ProviderFoundIfZeroDropped'
  <2> SUFFICES ASSUME pred'.btbhit, dropped' = 0, pred'.provider[2] = hi_val(line'.pc)
               PROVE  TrainedProvider(ghr, line.pc)' = pred'.provider
    BY DEF ProviderFoundIfZeroDropped, hi_val
  <2>1. PICK hi \in {0, 1} :
          pred'.provider = <<provider_id(ghr, line'.pc, hi), hi,
                             index_of(ghr, line'.pc, provider_id(ghr, line'.pc, hi))>>
    BY <1>1
  <2>2. hi = hi_val(line'.pc)
    BY <2>1
  <2>3. Last(ghr) = 0 /\ ghr' = ShiftIn(pred'.prediction \div 2, ghr)
    BY <1>1
  <2>4. shifted_history(ghr') = ghr
    BY <1>2, <1>3, <2>3, Sizes, ShiftBackWhole DEF shifted_history
  <2>5. TrainedProvider(ghr, line.pc)' =
          <<provider_id(ghr, line'.pc, hi_val(line'.pc)), hi_val(line'.pc),
            index_of(ghr, line'.pc, provider_id(ghr, line'.pc, hi_val(line'.pc)))>>
    <3> DEFINE Found(tables, h, pc, b) ==
                 LET hits == {u \in Tables : LET e == tables[u][b][index_of(h, pc, u)]
                                             IN e.valid /\ e.tag = tag_of(h, pc, u)}
                 IN IF hits = {} THEN 0 ELSE CHOOSE u \in hits : \A v \in hits : u >= v
               t == Found(bht_tagged', shifted_history(ghr'), line'.pc, hi_val(line'.pc))
    <3>1. TrainedProvider(ghr, line.pc)' =
            <<t, hi_val(line'.pc), index_of(shifted_history(ghr'), line'.pc, t)>>
      BY Zenon DEF TrainedProvider, provider_id
    <3>2. \A h, pc, b : Found(bht_tagged, h, pc, b) = provider_id(h, pc, b)
      BY Zenon DEF provider_id
    <3>3. t = provider_id(ghr, line'.pc, hi_val(line'.pc))
      <4>1. t = Found(bht_tagged, ghr, line'.pc, hi_val(line'.pc))
        <5> HIDE DEF Found
        <5> QED
          BY <1>1, <2>4
      <4> HIDE DEF t, Found
      <4> QED
        BY <3>2, <4>1
    <3> HIDE DEF t, Found
    <3> QED
      BY <2>4, <3>1, <3>3
  <2> QED
    BY <2>1, <2>2, <2>5
<1> QED
  BY <1>6, <1>7, <1>8, <1>9, <1>10 DEF IInv

(* Training writes a counter and at most one row of a longer table.        *)
LEMMA TrainTyped ==
  ASSUME IInv, Train
  PROVE  TablesTyped'
<1> DEFINE pc      == line.pc
           h       == shifted_history(ghr)
           hi      == hi_val(pc)
           t       == provider_id(h, pc, hi)
           i       == index_of(h, pc, t)
           up      == t + 1
           k       == index_of(h, pc, up)
           new     == [valid |-> TRUE, tag |-> tag_of(h, pc, up),
                       state |-> IF line.taken THEN 2 ELSE 1]
           c       == Saturate(bht_tagged[t][hi][i].state, line.taken)
           row     == [bht_tagged[t][hi][i] EXCEPT !.state = c]
           counted == IF t = 0 THEN bht_tagged
                      ELSE [bht_tagged EXCEPT ![t][hi][i] = row]
           base    == IF t = 0
                      THEN [bht_base EXCEPT ![hi][i] = Saturate(bht_base[hi][i], line.taken)]
                      ELSE bht_base
<1>1. \/ UNCHANGED <<bht_base, bht_tagged>>
      \/ /\ bht_base' = base
         /\ bht_tagged' = counted \/ (t < 3 /\ bht_tagged' = [counted EXCEPT ![up][hi][k] = new])
  BY DEF Train, train, bhtVars, alloc_id, Longest
<1>2. line.pc \in Nat /\ line.taken \in BOOLEAN
  BY RecordFields DEF IInv, TypeOK
<1>3. t \in 0 .. 3 /\ i \in Bits(INDEX_BITS) /\ k \in Bits(INDEX_BITS) /\ hi \in {0, 1}
  BY <1>2, ProviderTypes, IndexTypes, HalfOfWord
<1>4. TablesTyped
  BY DEF IInv
<1> DEFINE Good(f) == /\ f \in [Tables -> [{0, 1} -> [Bits(INDEX_BITS) -> AnyRow]]]
                      /\ \A u \in Tables : \A b \in {0, 1} : \A j \in Bits(INDEX_BITS) : f[u][b][j] \in Rows(u)
<1>5. ASSUME t # 0 PROVE t \in Tables /\ row \in Rows(t)
  <2> HIDE DEF t, i, h, hi
  <2>1. t \in Tables
    BY <1>3, <1>5 DEF Tables
  <2>2. bht_tagged[t][hi][i] \in Rows(t)
    BY <1>3, <1>4, <2>1 DEF TablesTyped
  <2>3. c \in 0 .. 3
    BY <1>2, <2>2, CounterTypes DEF Rows
  <2> HIDE DEF c
  <2> QED
    BY <2>1, <2>2, <2>3 DEF Rows
<1>6. ASSUME t < 3 PROVE up \in Tables /\ new \in Rows(up)
  <2> HIDE DEF t, h
  <2>1. up \in Tables
    BY <1>3, <1>6 DEF Tables
  <2>2. tag_of(h, pc, up) \in Bits(TAG_WIDTHS[up])
    BY <2>1, TagTypes
  <2>3. (IF line.taken THEN 2 ELSE 1) \in 0 .. 3
    OBVIOUS
  <2> QED
    BY <2>1, <2>2, <2>3 DEF Rows
<1>7. base \in [{0, 1} -> [Bits(INDEX_BITS) -> 0 .. 3]]
  <2> HIDE DEF t, i, h, hi
  <2>1. bht_base[hi][i] \in 0 .. 3 /\ bht_base \in [{0, 1} -> [Bits(INDEX_BITS) -> 0 .. 3]]
    BY <1>3, <1>4 DEF TablesTyped
  <2>2. Saturate(bht_base[hi][i], line.taken) \in 0 .. 3
    BY <1>2, <2>1, CounterTypes
  <2> QED
    BY <1>3, <2>1, <2>2
<1>8. Good(bht_tagged)
  BY <1>4 DEF TablesTyped
<1> HIDE DEF t, i, k, row, new, up, hi, base
<1>9. Good(counted)
  <2>1. CASE t = 0
    BY <1>8, <2>1
  <2>2. CASE t # 0
    BY SMTT(20), <1>3, <1>5, <1>8, <2>2, RowWritten
  <2> QED
    BY <2>1, <2>2
<1> HIDE DEF counted
<1>10. t < 3 => Good([counted EXCEPT ![up][hi][k] = new])
  BY <1>3, <1>6, <1>9, RowWritten
<1>11. Good(bht_tagged')
  <2> HIDE DEF Good
  <2> QED
    BY <1>1, <1>8, <1>9, <1>10
<1>12. bht_base' \in [{0, 1} -> [Bits(INDEX_BITS) -> 0 .. 3]]
  BY <1>1, <1>4, <1>7 DEF TablesTyped
<1> QED
  BY <1>11, <1>12 DEF TablesTyped

LEMMA TrainKeeps == IInv /\ Train => IInv'
<1> SUFFICES ASSUME IInv, Train PROVE IInv'
  OBVIOUS
<1>1. /\ phase = "train" /\ UNCHANGED <<line, dropped, ras, ghr, pred>>
      /\ TrainBuffer(line.pc, line.next, "Branch", FALSE)
      /\ phase' = IF predicted_taken # line.taken THEN "mispredict" ELSE "predict"
      /\ outcomes' = IF pred.btbhit THEN ShiftIn(IF line.taken THEN 1 ELSE 0, outcomes) ELSE outcomes
  BY DEF Train, train
<1>2. line.pc \in Nat /\ line.taken \in BOOLEAN /\ line.next \in Int /\ line \in Records
  BY RecordFields DEF IInv, TypeOK
<1>3. BufferTypeOK /\ BufferShape /\ outcomes \in Bits(MAX_HISTLEN)
  BY DEF IInv, TypeOK, BPUTypeOK
<1>4. BufferShape' /\ allocate_ptr' \in [Sets -> Ways]
      /\ btb_tag' \in [Sets -> [Ways -> [tag : Nat, valid : BOOLEAN]]]
  BY <1>1, <1>2, <1>3, TrainingKeepsShape DEF BufferShape, TagsTypeOK
<1>5. "Branch" \in ControlTypes /\ FALSE \in BOOLEAN
  BY DEF ControlTypes
<1>6. /\ btb_entry' \in [Sets -> [Ways -> Entry]]
      /\ \E w \in Ways :
           /\ btb_entry'[btb_index(line.pc)][w] = [target |-> line.next, ci |-> "Branch",
                                                   instr16 |-> FALSE, hi |-> hi_val(line.pc)]
           /\ \A s \in Sets : \A v \in Ways : s # btb_index(line.pc) \/ v # w =>
                btb_entry'[s][v] = btb_entry[s][v]
  <2>1. ASSUME NEW a \in Nat, NEW b \in Int, NEW ci \in ControlTypes, NEW n \in BOOLEAN,
               TrainBuffer(a, b, ci, n)
        PROVE  /\ btb_entry' \in [Sets -> [Ways -> Entry]]
               /\ \E w \in Ways :
                    /\ btb_entry'[btb_index(a)][w] = [target |-> b, ci |-> ci,
                                                      instr16 |-> n, hi |-> hi_val(a)]
                    /\ \A s \in Sets : \A v \in Ways : s # btb_index(a) \/ v # w =>
                         btb_entry'[s][v] = btb_entry[s][v]
    BY <1>3, <2>1, TrainWrites
  <2> QED
    BY <1>1, <1>2, <1>5, <2>1
<1>7. OnlyBranches'
  BY <1>6 DEF IInv, OnlyBranches
<1>8. TablesTyped'
  BY TrainTyped
<1>9. predicted_taken \in BOOLEAN /\ pred.prediction \in 0 .. 3 /\ pred.btbhit \in BOOLEAN
      /\ (predicted_taken <=> pred.prediction \div 2 = 1)
      /\ (~pred.btbhit => pred.prediction = 1)
  BY DEF IInv, PredOK, predicted_taken
<1>10. outcomes' \in Bits(MAX_HISTLEN)
  <2>1. (IF line.taken THEN 1 ELSE 0) \in {0, 1}
    OBVIOUS
  <2> QED
    BY <1>1, <1>3, <2>1, Sizes, ShiftInBits
<1>11. TypeOK'
  <2>1. BufferTypeOK'
    BY <1>1, <1>3, <1>4, <1>6 DEF BufferTypeOK
  <2>2. BPUTypeOK'
    BY <1>1, <1>8, <2>1 DEF IInv, TypeOK, BPUTypeOK, TablesTyped, Rows
  <2>3. phase' \in {"predict", "train", "mispredict"}
    BY <1>1
  <2> QED
    BY <1>1, <1>2, <1>10, <2>2, <2>3 DEF IInv, TypeOK
<1>12. PredOK'
  BY <1>1 DEF IInv, PredOK
<1>13. HistoryInv'
  <2> DEFINE p == pred.prediction \div 2
             o == IF line.taken THEN 1 ELSE 0
  <2>1. p \in {0, 1} /\ o \in {0, 1} /\ (predicted_taken # line.taken <=> p # o)
    BY <1>2, <1>9
  <2>2. ghr = IF pred.btbhit THEN ShiftIn(p, outcomes) ELSE outcomes
    BY <1>1 DEF IInv, HistoryInv
  <2>3. pred'.btbhit = pred.btbhit /\ ghr' = ghr
    BY <1>1
  <2>4. CASE p = o
    <3>1. phase' = "predict"
      BY <1>1, <2>1, <2>4
    <3> QED
      BY <1>1, <2>2, <2>3, <2>4, <3>1 DEF HistoryInv
  <2>5. CASE p # o
    <3>1. phase' = "mispredict"
      BY <1>1, <2>1, <2>5
    <3>2. o = 1 - p
      BY <2>1, <2>5
    <3>3. NegateNewest(ShiftIn(p, outcomes)) = ShiftIn(o, outcomes)
      BY <1>3, <2>1, <3>2, Sizes, RepairShiftIn
    <3> HIDE DEF p, o
    <3>4. outcomes' = IF pred'.btbhit THEN NegateNewest(ghr') ELSE ghr'
      BY <1>1, <2>2, <2>3, <3>3 DEF o
    <3> QED
      BY <3>1, <3>4 DEF HistoryInv
  <2> QED
    BY <2>4, <2>5
<1>14. ProviderFoundIfZeroDropped'
  BY <1>1 DEF ProviderFoundIfZeroDropped
<1> QED
  BY <1>4, <1>7, <1>8, <1>11, <1>12, <1>13, <1>14 DEF IInv

LEMMA MispredictKeeps == IInv /\ Mispredict => IInv'
<1> SUFFICES ASSUME IInv, Mispredict PROVE IInv'
  OBVIOUS
<1>1. /\ phase = "mispredict" /\ phase' = "predict"
      /\ ghr' = IF pred.btbhit THEN NegateNewest(ghr) ELSE ghr
      /\ UNCHANGED <<btb_entry, btb_tag, allocate_ptr, ras, bht_base, bht_tagged, pred,
                     line, dropped, outcomes>>
  BY DEF Mispredict, mispredict, btbVars, bhtVars
<1>2. ghr' = outcomes
  BY <1>1 DEF IInv, HistoryInv
<1>3. TypeOK'
  BY <1>1, <1>2 DEF IInv, TypeOK, BPUTypeOK, BufferTypeOK
<1>4. BufferShape' /\ TablesTyped' /\ OnlyBranches' /\ PredOK'
  BY <1>1 DEF IInv, BufferShape, TagsTypeOK, OneEntryPerWord, FilledInOrder, TablesTyped,
              OnlyBranches, PredOK
<1>5. HistoryInv' /\ ProviderFoundIfZeroDropped'
  BY <1>1, <1>2 DEF HistoryInv, ProviderFoundIfZeroDropped
<1> QED
  BY <1>3, <1>4, <1>5 DEF IInv

LEMMA Inductive == Spec => []IInv
<1>1. IInv /\ [Next]_vars => IInv'
  <2> SUFFICES ASSUME IInv, [Next]_vars PROVE IInv'
    OBVIOUS
  <2>1. CASE UNCHANGED vars
    <3>1. UNCHANGED <<btb_entry, btb_tag, allocate_ptr, ras, bht_base, bht_tagged, ghr, pred,
                      line, phase, dropped, outcomes>>
      BY <2>1 DEF vars, btbVars, bhtVars
    <3>2. TypeOK' /\ BufferShape'
      BY <3>1 DEF IInv, TypeOK, BPUTypeOK, BufferTypeOK, BufferShape, TagsTypeOK,
                  OneEntryPerWord, FilledInOrder
    <3>3. TablesTyped' /\ OnlyBranches' /\ PredOK' /\ HistoryInv'
      BY <3>1 DEF IInv, TablesTyped, OnlyBranches, PredOK, HistoryInv
    <3>4. ProviderFoundIfZeroDropped'
      <4> DEFINE Found(tables, h, pc) ==
                   LET hits == {u \in Tables : LET e == tables[u][hi_val(pc)][index_of(h, pc, u)]
                                               IN e.valid /\ e.tag = tag_of(h, pc, u)}
                       t == IF hits = {} THEN 0
                            ELSE CHOOSE u \in hits : \A v \in hits : u >= v
                   IN <<t, hi_val(pc), index_of(h, pc, t)>>
      <4>1. TrainedProvider(ghr, line.pc)' = Found(bht_tagged', shifted_history(ghr'), line'.pc)
        BY Zenon DEF TrainedProvider, provider_id
      <4>2. TrainedProvider(ghr, line.pc) = Found(bht_tagged, shifted_history(ghr), line.pc)
        BY Zenon DEF TrainedProvider, provider_id
      <4> HIDE DEF Found
      <4> QED
        BY <3>1, <4>1, <4>2, SMTT(20) DEF IInv, ProviderFoundIfZeroDropped
    <3> QED
      BY <3>2, <3>3, <3>4 DEF IInv
  <2> QED
    BY <2>1, PredictKeeps, TrainKeeps, MispredictKeeps DEF Next
<1> QED
  BY Initially, <1>1, PTL DEF Spec

-----------------------------------------------------------------------------
(* Every table holds what it should, whatever the trace.                   *)
THEOREM TypeCorrect == Spec => []TypeOK
<1>1. IInv => TypeOK
  BY DEF IInv
<1> QED
  BY Inductive, <1>1, PTL

(* Between two branches the history is what the branches in the buffer did.*)
THEOREM HistoryKept == Spec => []HistoryIsOutcomes
<1>1. IInv => HistoryIsOutcomes
  BY DEF IInv, HistoryInv, HistoryIsOutcomes
<1> QED
  BY Inductive, <1>1, PTL

(* The counter trained is the one that predicted, when the bit shifted out *)
(* of the history was zero and the half of the word is the entry's.        *)
THEOREM ProviderFound == Spec => []ProviderFoundIfZeroDropped
<1>1. IInv => ProviderFoundIfZeroDropped
  BY DEF IInv
<1> QED
  BY Inductive, <1>1, PTL
=============================================================================
