------------------------ MODULE UTageInFlight_proofs ------------------------
(***************************************************************************)
(* Proofs about the micro-TAGE predictor in hardware: nothing is refused   *)
(* while it clears itself, what hits is a control transfer of the program  *)
(* as it is now, and the history is the path, for every program, every     *)
(* size of the tables and every order in which the stages move.            *)
(***************************************************************************)
EXTENDS UTageInFlight, PredictorLemmas

(* The inductive invariant: what types leave open, what a fence keeps out, *)
(* and what the buffer, the training data and the histories say.           *)
Words == {n \in Nat : n % 4 = 0}

Answers == [pc : Words, btbhit : BOOLEAN, branch : BOOLEAN, prediction : 0..3,
            history : Bits(MAX_HISTLEN), nextpc : Words]
TrainingData == [pc : Words, target : Words, ci : {"Branch", "JAL"}, btbhit : BOOLEAN,
                 history : Bits(MAX_HISTLEN), prediction : 0..3, state : 0..3]

(* What TypeOK leaves open.                                                *)
Shape ==
  /\ BufferShape
  /\ \A s \in Sets : \A w \in Ways : btb_entry[s][w].target \in Words
  /\ bht_tagged \in [Tables -> [Bits(INDEX_BITS) ->
                       [state : 0..3, tag : Seq({0, 1}), valid : BOOLEAN]]]
  /\ rg_pc \in Words
  /\ in_flight \in Seq(Answers)
  /\ wr_training_data \in Seq(TrainingData)
  /\ code \in Codes
  /\ pattern \in Seq({0, 1}) \ {<<>>}
  /\ outcomes \in Bits(MAX_HISTLEN)

(* A fence waits for what is before it and lets nothing in behind it.      *)
Quiet ==
  /\ rg_fence \/ rg_initialize => in_flight = <<>> /\ ~retiring
  /\ rg_initialize => wr_training_data = <<>> /\ ~rg_fence
  /\ ~rg_initialize => rg_bht_index = 0

(* Until a fence, the buffer and what is to be trained speak of the        *)
(* program as it is.                                                       *)
OfCode(s, e, tag) ==
  \E pc \in DOMAIN code : /\ btb_index(pc) = s /\ btb_tag_value(pc) = tag
                          /\ code[pc].ci # "none"
                          /\ e.ci = code[pc].ci /\ e.target = code[pc].target

EntriesOfCode ==
  ~rg_fence /\ ~rg_initialize =>
    \A s \in Sets : \A w \in Ways :
      btb_tag[s][w].valid => OfCode(s, btb_entry[s][w], btb_tag[s][w].tag)

ClearedFirst ==
  rg_initialize /\ rg_bht_index > 0 => \A s \in Sets : \A w \in Ways : ~btb_tag[s][w].valid

DataOfCode ==
  ~rg_fence => \A k \in DOMAIN wr_training_data : LET d == wr_training_data[k] IN
    d.pc \in DOMAIN code /\ d.ci = code[d.pc].ci /\ d.target = code[d.pc].target

(* A branch carries the direction it was predicted in.                     *)
Directions ==
  /\ \A k \in DOMAIN in_flight : LET x == in_flight[k] IN
       x.branch => x.btbhit /\ x.history[1] = x.prediction \div 2
  /\ \A k \in DOMAIN wr_training_data : LET d == wr_training_data[k] IN
       d.ci = "Branch" =>
         /\ d.state = Saturate(d.prediction, Last(pattern) = 1)
         /\ d.btbhit => d.history[1] = d.prediction \div 2

IInv ==
  /\ TypeOK /\ Shape /\ Quiet
  /\ EntriesOfCode /\ ClearedFirst /\ DataOfCode /\ HitsAreControl
  /\ HistoryFollowsPath /\ Directions

-----------------------------------------------------------------------------
(* The constants.                                                          *)
LEMMA Sizes ==
  /\ MAX_HISTLEN \in Nat \ {0} /\ INDEX_BITS \in Nat
  /\ LastRow \in Nat
  /\ \A t \in Tables : TAG_WIDTHS[t] \in Nat
<1>1. Longest \in Tables
  BY DEF Longest, Tables
<1>2. MAX_HISTLEN \in Nat \ {0}
  BY <1>1, HardwareAssumption DEF MAX_HISTLEN
<1>3. INDEX_BITS \in Nat /\ \A t \in Tables : TAG_WIDTHS[t] \in Nat
  BY <1>2, HardwareAssumption
<1>4. 2 ^ INDEX_BITS \in Nat \ {0}
  BY <1>3, Subsets
<1> QED
  BY <1>2, <1>3, <1>4 DEF LastRow

(* The instruction at an address, in a program there may be.               *)
LEMMA Instructions ==
  ASSUME NEW c \in Codes, NEW pc \in DOMAIN c
  PROVE  /\ pc \in Words /\ c[pc].target \in Words
         /\ c[pc].ci \in {"none", "Branch", "JAL"}
BY HardwareAssumption DEF Words

LEMMA InsnTypes ==
  ASSUME code \in Codes, NEW pc
  PROVE  /\ Insn(pc).ci \in {"none", "Branch", "JAL"} /\ Insn(pc).target \in Words
         /\ Insn(pc).ci # "none" => pc \in DOMAIN code /\ Insn(pc) = code[pc]
<1>1. CASE pc \in DOMAIN code
  BY <1>1, Instructions DEF Insn
<1>2. CASE pc \notin DOMAIN code
  BY <1>2 DEF Insn, Plain, Words
<1> QED
  BY <1>1, <1>2

-----------------------------------------------------------------------------
(* Reading the tables.                                                     *)
LEMMA IndexTypes ==
  ASSUME NEW h, NEW pc, NEW t
  PROVE  fn_get_index(h, pc, t) \in Bits(INDEX_BITS)
BY Sizes, BitsOfBits, XorBits DEF fn_get_index

LEMMA TagTypes ==
  ASSUME NEW h, NEW pc, NEW t \in Tables
  PROVE  fn_get_tag(h, pc, t) \in Bits(TAG_WIDTHS[t])
BY Sizes, BitsOfBits, XorBits DEF fn_get_tag

LEMMA ProviderTypes == ASSUME NEW h, NEW pc PROVE Provider(h, pc) \in 0..3
<1> DEFINE hits == {t \in Tables : LET e == bht_tagged[t][fn_get_index(h, pc, t)]
                                   IN e.valid /\ e.tag = fn_get_tag(h, pc, t)}
<1>1. hits \subseteq {1, 2, 3}
  BY DEF Tables
<1>2. Provider(h, pc) = IF hits = {} THEN 0 ELSE CHOOSE t \in hits : \A u \in hits : t >= u
  BY DEF Provider
<1> HIDE DEF hits
<1>3. ASSUME hits # {} PROVE \E t \in hits : \A u \in hits : t >= u
  <2>1. CASE 3 \in hits
    BY <1>1, <2>1
  <2>2. CASE 3 \notin hits /\ 2 \in hits
    BY <1>1, <2>2
  <2>3. CASE 3 \notin hits /\ 2 \notin hits
    <3>1. hits = {1}
      BY <1>1, <1>3, <2>3
    <3> QED
      BY <3>1
  <2> QED
    BY <2>1, <2>2, <2>3
<1>4. CASE hits = {}
  BY <1>2, <1>4
<1>5. CASE hits # {}
  <2>1. Provider(h, pc) \in hits
    BY <1>2, <1>3, <1>5
  <2>2. Provider(h, pc) \in {1, 2, 3}
    BY <1>1, <2>1
  <2> QED
    BY <2>2
<1> QED
  BY <1>4, <1>5

LEMMA StateTypes ==
  ASSUME TypeOK, Shape, NEW t \in 0..3, NEW i \in Bits(INDEX_BITS)
  PROVE  StateOf(t, i) \in 0..3
<1>1. t = 0 \/ t \in Tables
  BY DEF Tables
<1> QED
  BY <1>1 DEF StateOf, TypeOK, Shape

(* What stage 0 is answered, and what it makes of it.                      *)
LEMMA Answered ==
  ASSUME TypeOK, Shape
  PROVE  /\ Response \in Answers
         /\ Response.pc = rg_pc /\ (Response.btbhit <=> BufferHit(rg_pc))
         /\ Response.branch <=> BufferHit(rg_pc) /\ HitEntry(rg_pc).ci = "Branch"
         /\ Response.history = IF Response.branch
                               THEN ShiftIn(Response.prediction \div 2, rg_ghr) ELSE rg_ghr
<1> DEFINE hit    == BufferHit(rg_pc)
           e      == HitEntry(rg_pc)
           branch == hit /\ e.ci = "Branch"
           t      == Provider(rg_ghr, rg_pc)
           state  == CASE branch -> StateOf(t, fn_get_index(rg_ghr, rg_pc, t))
                       [] hit /\ ~branch -> 3
                       [] OTHER -> 1
           g      == IF branch THEN ShiftIn(state \div 2, rg_ghr) ELSE rg_ghr
           next   == IF hit /\ state \div 2 = 1 THEN e.target ELSE rg_pc + 4
<1>1. Response = [pc |-> rg_pc, btbhit |-> hit, branch |-> branch, prediction |-> state,
                  history |-> g, nextpc |-> next]
  BY DEF Response
<1>2. hit \in BOOLEAN /\ branch \in BOOLEAN
  BY DEF BufferHit
<1>3. state \in 0..3
  <2>1. StateOf(t, fn_get_index(rg_ghr, rg_pc, t)) \in 0..3
    BY ProviderTypes, IndexTypes, StateTypes
  <2>2. state = StateOf(t, fn_get_index(rg_ghr, rg_pc, t)) \/ state = 3 \/ state = 1
    BY Zenon
  <2> HIDE DEF state
  <2> QED
    BY <2>1, <2>2
<1>4. g \in Bits(MAX_HISTLEN)
  <2>1. rg_ghr \in Bits(MAX_HISTLEN)
    BY DEF TypeOK
  <2> HIDE DEF state
  <2>2. state \div 2 \in {0, 1}
    BY <1>3
  <2>3. ShiftIn(state \div 2, rg_ghr) \in Bits(MAX_HISTLEN)
    BY <2>1, <2>2, Sizes, ShiftInBits
  <2> QED
    BY <2>1, <2>3
<1>5. rg_pc \in Words /\ rg_pc + 4 \in Words
  BY DEF Shape, Words
<1>6. ASSUME hit PROVE e.target \in Words
  <2>1. rg_pc \in Nat
    BY <1>5 DEF Words
  <2>2. HitWay(rg_pc) \in Ways /\ btb_index(rg_pc) \in Sets
    BY <1>6, <2>1, Addressing, HitWayMatches DEF Shape, BufferShape
  <2> QED
    BY <2>2 DEF HitEntry, Shape
<1>7. next \in Words
  <2> HIDE DEF state, hit, e
  <2> QED
    BY <1>5, <1>6
<1> HIDE DEF hit, e, branch, state, g, next
<1>8. Response \in Answers
  BY <1>1, <1>2, <1>3, <1>4, <1>5, <1>7 DEF Answers
<1>9. /\ Response.pc = rg_pc /\ (Response.btbhit <=> hit) /\ (Response.branch <=> branch)
      /\ Response.prediction = state /\ Response.history = g
  BY <1>1
<1> QED
  BY <1>8, <1>9 DEF hit, branch, g, e

-----------------------------------------------------------------------------
(* Writing the tables: a row of a table is one however it is written.      *)
Rows(t) == [state : 0..3, tag : Bits(TAG_WIDTHS[t]), valid : BOOLEAN]

TablesTyped ==
  /\ bht_base \in [Bits(INDEX_BITS) -> 0..3]
  /\ bht_tagged \in [Tables -> [Bits(INDEX_BITS) ->
                       [state : 0..3, tag : Seq({0, 1}), valid : BOOLEAN]]]
  /\ \A t \in Tables : \A i \in Bits(INDEX_BITS) : bht_tagged[t][i] \in Rows(t)

LEMMA RowTypes ==
  ASSUME NEW t \in Tables, NEW r \in Rows(t)
  PROVE  r \in [state : 0..3, tag : Seq({0, 1}), valid : BOOLEAN]
<1>1. r.tag \in Seq({0, 1})
  BY Sizes, BitsAreSequences DEF Rows
<1> QED
  BY <1>1 DEF Rows

(* A table is a function of tables, so a write to it is one of a row.      *)
LEMMA RowWritten ==
  ASSUME NEW f \in [Tables -> [Bits(INDEX_BITS) ->
                       [state : 0..3, tag : Seq({0, 1}), valid : BOOLEAN]]],
         \A t \in Tables : \A i \in Bits(INDEX_BITS) : f[t][i] \in Rows(t),
         NEW u \in Tables, NEW j \in Bits(INDEX_BITS), NEW r \in Rows(u)
  PROVE  /\ [f EXCEPT ![u][j] = r] \in [Tables -> [Bits(INDEX_BITS) ->
                       [state : 0..3, tag : Seq({0, 1}), valid : BOOLEAN]]]
         /\ \A t \in Tables : \A i \in Bits(INDEX_BITS) : [f EXCEPT ![u][j] = r][t][i] \in Rows(t)
<1> DEFINE R == [state : 0..3, tag : Seq({0, 1}), valid : BOOLEAN]
           g == [f EXCEPT ![u][j] = r]
<1>1. r \in R /\ f \in [Tables -> [Bits(INDEX_BITS) -> R]]
  BY RowTypes
<1> HIDE DEF R
<1>2. g \in [Tables -> [Bits(INDEX_BITS) -> R]]
  BY <1>1
<1>3. \A t \in Tables : \A i \in Bits(INDEX_BITS) :
        g[t][i] = IF t = u /\ i = j THEN r ELSE f[t][i]
  BY <1>1
<1> QED
  BY <1>2, <1>3 DEF R

LEMMA TrainTyped ==
  ASSUME TypeOK, Shape, NEW d \in TrainingData, ma_train_bpu(d)
  PROVE  TablesTyped'
<1> DEFINE h   == ShiftLeft(d.history, 1)
           t   == Provider(h, d.pc)
           i   == fn_get_index(h, d.pc, t)
           up  == t + 1
           row == [state |-> d.state, tag |-> fn_get_tag(h, d.pc, t), valid |-> TRUE]
           set == IF t = 0 THEN bht_tagged ELSE [bht_tagged EXCEPT ![t][i] = row]
           new == [state |-> IF actual_taken(d) THEN 2 ELSE 1,
                   tag |-> fn_get_tag(h, d.pc, up), valid |-> TRUE]
           k   == fn_get_index(h, d.pc, up)
<1>1. t \in 0..3 /\ i \in Bits(INDEX_BITS) /\ k \in Bits(INDEX_BITS)
  BY ProviderTypes, IndexTypes
<1>2. d.state \in 0..3
  BY DEF TrainingData
<1>3. \/ UNCHANGED <<bht_base, bht_tagged>>
      \/ /\ bht_base' = IF t = 0 THEN [bht_base EXCEPT ![i] = d.state] ELSE bht_base
         /\ \/ bht_tagged' = set
            \/ t < 3 /\ bht_tagged' = [set EXCEPT ![up][k] = new]
  BY DEF ma_train_bpu, Longest
<1>4. TablesTyped
  BY DEF TypeOK, Shape, TablesTyped, Rows
<1> DEFINE R == [Tables -> [Bits(INDEX_BITS) ->
                   [state : 0..3, tag : Seq({0, 1}), valid : BOOLEAN]]]
           Good(f) == f \in R /\ \A x \in Tables : \A y \in Bits(INDEX_BITS) : f[x][y] \in Rows(x)
<1>5. ASSUME t # 0 PROVE t \in Tables /\ row \in Rows(t)
  <2> HIDE DEF t, h
  <2>1. t \in Tables
    BY <1>1, <1>5 DEF Tables
  <2> QED
    BY <2>1, <1>2, TagTypes DEF Rows
<1>6. ASSUME t < 3 PROVE up \in Tables /\ new \in Rows(up)
  <2> HIDE DEF t, h
  <2>1. up \in Tables
    BY <1>1, <1>6 DEF Tables
  <2>2. fn_get_tag(h, d.pc, up) \in Bits(TAG_WIDTHS[up])
    BY <2>1, TagTypes
  <2>3. (IF actual_taken(d) THEN 2 ELSE 1) \in 0..3
    OBVIOUS
  <2> QED
    BY <2>1, <2>2, <2>3 DEF Rows
<1>7. Good(bht_tagged) /\ bht_base \in [Bits(INDEX_BITS) -> 0..3]
  BY <1>4 DEF TablesTyped
<1> HIDE DEF t, i, k, row, new, up
<1>8. Good(set)
  <2>1. CASE t = 0
    BY <1>7, <2>1
  <2>2. CASE t # 0
    BY <1>1, <1>5, <1>7, <2>2, RowWritten
  <2> QED
    BY <2>1, <2>2
<1> HIDE DEF set
<1>9. t < 3 => Good([set EXCEPT ![up][k] = new])
  BY <1>1, <1>6, <1>8, RowWritten
<1>10. Good(bht_tagged')
  <2> HIDE DEF Good
  <2> QED
    BY <1>3, <1>7, <1>8, <1>9
<1>11. bht_base' \in [Bits(INDEX_BITS) -> 0..3]
  BY <1>1, <1>2, <1>3, <1>7
<1> QED
  BY <1>10, <1>11 DEF TablesTyped

LEMMA ClearTyped ==
  ASSUME TypeOK, Shape, rl_initialize
  PROVE  TablesTyped'
<1> DEFINE i == BitsOf(rg_bht_index, INDEX_BITS)
<1>1. i \in Bits(INDEX_BITS)
  BY Sizes, BitsOfBits
<1>2. TablesTyped
  BY DEF TypeOK, Shape, TablesTyped, Rows
<1>3. /\ bht_base' = [bht_base EXCEPT ![i] = 1]
      /\ bht_tagged' = [t \in Tables |-> [bht_tagged[t] EXCEPT ![i] =
                          Row(t, [state |-> 1, valid |-> FALSE])]]
  BY DEF rl_initialize
<1>4. ASSUME NEW t \in Tables
      PROVE  /\ Row(t, [state |-> 1, valid |-> FALSE]) \in Rows(t)
             /\ Row(t, [state |-> 1, valid |-> FALSE])
                  \in [state : 0..3, tag : Seq({0, 1}), valid : BOOLEAN]
  <2>1. Row(t, [state |-> 1, valid |-> FALSE]) \in Rows(t)
    BY Sizes, ZerosBits DEF Row, Rows
  <2> QED
    BY <2>1, RowTypes
<1> HIDE DEF i
<1> DEFINE R == [state : 0..3, tag : Seq({0, 1}), valid : BOOLEAN]
           r(t) == Row(t, [state |-> 1, valid |-> FALSE])
<1>5. \A t \in Tables : r(t) \in Rows(t) /\ r(t) \in R
  BY <1>4
<1>6. /\ bht_tagged \in [Tables -> [Bits(INDEX_BITS) -> R]]
      /\ \A t \in Tables : \A j \in Bits(INDEX_BITS) : bht_tagged[t][j] \in Rows(t)
      /\ bht_base \in [Bits(INDEX_BITS) -> 0..3]
  BY <1>2 DEF TablesTyped
<1>7. bht_tagged' = [t \in Tables |-> [bht_tagged[t] EXCEPT ![i] = r(t)]]
  BY <1>3
<1> HIDE DEF R, r
<1>8. /\ bht_tagged' \in [Tables -> [Bits(INDEX_BITS) -> R]]
      /\ \A t \in Tables : \A j \in Bits(INDEX_BITS) :
           bht_tagged'[t][j] = IF j = i THEN r(t) ELSE bht_tagged[t][j]
  BY <1>1, <1>5, <1>6, <1>7
<1>9. \A t \in Tables : \A j \in Bits(INDEX_BITS) : bht_tagged'[t][j] \in Rows(t)
  BY <1>5, <1>6, <1>8
<1>10. bht_base' \in [Bits(INDEX_BITS) -> 0..3]
  BY <1>1, <1>3, <1>6
<1> QED
  BY <1>8, <1>9, <1>10 DEF TablesTyped, R

-----------------------------------------------------------------------------
(* What a cycle does, seen from the instruction at the head.               *)
LEMMA HeadTypes ==
  ASSUME TypeOK, Shape, in_flight # <<>>
  PROVE  /\ Head(in_flight) = in_flight[1] /\ Head(in_flight) \in Answers
         /\ 1 \in DOMAIN in_flight /\ Tail(in_flight) \in Seq(Answers)
         /\ Len(Tail(in_flight)) = Len(in_flight) - 1
         /\ \A k \in DOMAIN Tail(in_flight) :
              k + 1 \in DOMAIN in_flight /\ Tail(in_flight)[k] = in_flight[k + 1]
BY DEF Shape

LEMMA FlushTypes ==
  ASSUME Shape, NEW flush \in Flushes
  PROVE  /\ flush.on \in BOOLEAN /\ flush.fence \in BOOLEAN
         /\ flush.fence => flush.on
         /\ flush.on => flush.pc \in Words
<1>1. CASE flush = NoFlush
  BY <1>1 DEF NoFlush
<1>2. CASE flush \in [on : {TRUE}, fence : BOOLEAN, pc : DOMAIN code]
  BY <1>2, Instructions DEF Shape
<1> QED
  BY <1>1, <1>2 DEF Flushes

LEMMA DirectionTypes ==
  ASSUME Shape
  PROVE  /\ pattern[1] \in {0, 1} /\ Head(pattern) = pattern[1]
         /\ Append(Tail(pattern), Head(pattern)) \in Seq({0, 1}) \ {<<>>}
         /\ Last(Append(Tail(pattern), Head(pattern))) = pattern[1]
<1>1. pattern \in Seq({0, 1}) /\ pattern # <<>>
  BY DEF Shape
<1>2. Tail(pattern) \in Seq({0, 1}) /\ Head(pattern) = pattern[1] /\ pattern[1] \in {0, 1}
  BY <1>1
<1> DEFINE q == Append(Tail(pattern), Head(pattern))
<1>3. /\ q \in Seq({0, 1}) /\ Len(q) = Len(Tail(pattern)) + 1
      /\ q[Len(Tail(pattern)) + 1] = Head(pattern)
  BY <1>2, AppendProperties
<1>4. Len(Tail(pattern)) \in Nat
  BY <1>2
<1> HIDE DEF q
<1>5. q # <<>> /\ Last(q) = Head(pattern)
  BY <1>3, <1>4 DEF Last
<1> QED
  BY <1>2, <1>3, <1>5 DEF q

LEMMA GoesTypes ==
  ASSUME Shape, NEW x \in Answers
  PROVE  Goes(x) \in Words
<1>1. x.pc + 4 \in Words
  BY DEF Answers, Words
<1>2. Insn(x.pc).target \in Words
  BY InsnTypes DEF Shape
<1> QED
  BY <1>1, <1>2 DEF Goes

LEMMA RestoredTypes ==
  ASSUME NEW x \in Answers
  PROVE  Restored(x) \in Bits(MAX_HISTLEN)
BY Sizes, NegateBits DEF Restored, Answers

LEMMA TrainingTypes ==
  ASSUME Shape, NEW x \in Answers, Insn(x.pc).ci # "none"
  PROVE  Training(x) \in TrainingData
<1>1. Insn(x.pc).target \in Words /\ Insn(x.pc).ci \in {"Branch", "JAL"}
  BY InsnTypes DEF Shape
<1>2. x.prediction \in 0..3 /\ (pattern[1] = 1) \in BOOLEAN
  BY DEF Answers
<1>3. Saturate(x.prediction, pattern[1] = 1) \in 0..3
  BY <1>2, CounterTypes
<1>4. (IF Insn(x.pc).ci = "Branch" THEN Saturate(x.prediction, pattern[1] = 1) ELSE 3) \in 0..3
  BY <1>3
<1> QED
  BY <1>1, <1>2, <1>4 DEF Training, TrainingData, Answers

(* The instructions under way after a cycle.                               *)
LEMMA QueueTypes ==
  ASSUME TypeOK, Shape, NEW fetch \in BOOLEAN, NEW exec \in BOOLEAN, NEW flush \in Flushes,
         fetch => CanFetch, exec => CanExecute
  PROVE  /\ NextInFlight(fetch, exec, flush) \in Seq(Answers)
         /\ Len(NextInFlight(fetch, exec, flush)) <= IN_FLIGHT
<1> DEFINE old == IF exec THEN Tail(in_flight) ELSE in_flight
           new == IF fetch /\ ~rg_fence THEN <<Response>> ELSE <<>>
<1>1. old \in Seq(Answers) /\ Len(old) <= Len(in_flight)
  BY HeadTypes DEF CanExecute, Shape
<1>2. /\ new \in Seq(Answers) /\ Len(new) <= 1
      /\ ~fetch => Len(new) = 0
  <2>1. <<Response>> \in Seq(Answers) /\ Len(<<Response>>) = 1
    BY Answered
  <2> QED
    BY <2>1
<1>3. Len(in_flight) \in Nat /\ Len(in_flight) <= IN_FLIGHT /\ IN_FLIGHT \in Nat
      /\ (fetch => Len(in_flight) < IN_FLIGHT)
  BY HardwareAssumption DEF TypeOK, Shape, CanFetch
<1>4. NextInFlight(fetch, exec, flush) = <<>> \/ NextInFlight(fetch, exec, flush) = old \o new
  BY DEF NextInFlight
<1> HIDE DEF old, new
<1>5. old \o new \in Seq(Answers) /\ Len(old \o new) = Len(old) + Len(new)
  BY <1>1, <1>2
<1>6. Len(old \o new) <= IN_FLIGHT
  BY <1>1, <1>2, <1>3, <1>5
<1>7. <<>> \in Seq(Answers) /\ Len(<<>>) <= IN_FLIGHT
  BY <1>3
<1> QED
  BY <1>4, <1>5, <1>6, <1>7, Zenon

-----------------------------------------------------------------------------
(* Types are kept.                                                         *)
TargetsTyped == \A s \in Sets : \A w \in Ways : btb_entry[s][w].target \in Words

TablesStep ==
  CASE rg_initialize -> rl_initialize
    [] ~rg_initialize /\ wr_training_data # <<>> -> ma_train_bpu(wr_training_data[1])
    [] OTHER -> UNCHANGED tableVars

LEMMA TablesSteps ==
  ASSUME Shape, TablesStep
  PROVE  \/ rg_initialize /\ rl_initialize
         \/ /\ ~rg_initialize /\ 1 \in DOMAIN wr_training_data
            /\ ma_train_bpu(wr_training_data[1])
         \/ ~rg_initialize /\ UNCHANGED tableVars
<1>1. \/ rg_initialize /\ rl_initialize
      \/ ~rg_initialize /\ wr_training_data # <<>> /\ ma_train_bpu(wr_training_data[1])
      \/ ~rg_initialize /\ UNCHANGED tableVars
  BY Zenon DEF TablesStep
<1>2. wr_training_data # <<>> => 1 \in DOMAIN wr_training_data
  BY DEF Shape
<1> QED
  BY <1>1, <1>2

LEMMA ClearKeepsBuffer ==
  ASSUME TypeOK, Shape, rl_initialize
  PROVE  /\ BufferTypeOK' /\ BufferShape' /\ TargetsTyped'
         /\ \A s \in Sets : \A w \in Ways : ~btb_tag'[s][w].valid
<1>1. /\ btb_tag' = [s \in Sets |-> [w \in Ways |-> [tag |-> 0, valid |-> FALSE]]]
      /\ allocate_ptr' = [s \in Sets |-> 0]
      /\ btb_entry' = btb_entry /\ ras' = ras
  BY DEF rl_initialize
<1>2. 0 \in Ways
  BY SizeAssumption DEF Ways
<1>3. /\ btb_tag' \in [Sets -> [Ways -> [tag : Nat, valid : BOOLEAN]]]
      /\ allocate_ptr' \in [Sets -> Ways]
  BY <1>1, <1>2
<1>4. \A s \in Sets : \A w \in Ways : ~btb_tag'[s][w].valid
  BY <1>1
<1>5. FilledInOrder'
  <2>1. \A s \in Sets : \A w \in Ways : ~(w < allocate_ptr'[s])
    BY <1>1 DEF Ways
  <2> QED
    BY <1>4, <2>1 DEF FilledInOrder
<1>6. OneEntryPerWord'
  BY <1>4 DEF OneEntryPerWord
<1> QED
  BY <1>1, <1>3, <1>4, <1>5, <1>6 DEF TypeOK, Shape, BufferTypeOK, BufferShape, TagsTypeOK,
                                      TargetsTyped

LEMMA TrainKeepsBuffer ==
  ASSUME TypeOK, Shape, NEW d \in TrainingData, ma_train_bpu(d)
  PROVE  BufferTypeOK' /\ BufferShape' /\ TargetsTyped'
<1>1. /\ d.pc \in Nat /\ d.target \in Words /\ d.target \in Int /\ d.ci \in ControlTypes
      /\ FALSE \in BOOLEAN
  BY DEF TrainingData, Words, ControlTypes
<1>2. TrainBuffer(d.pc, d.target, d.ci, FALSE) /\ ras' = ras
  BY DEF ma_train_bpu
<1>3. BufferTypeOK /\ BufferShape /\ TargetsTyped
  BY DEF TypeOK, Shape, TargetsTyped
<1>4. BufferShape'
  BY <1>1, <1>2, <1>3, TrainingKeepsShape DEF BufferShape, TagsTypeOK
<1> DEFINE n == [target |-> d.target, ci |-> d.ci, instr16 |-> FALSE, hi |-> hi_val(d.pc)]
<1>5. /\ btb_entry' \in [Sets -> [Ways -> Entry]]
      /\ \A s \in Sets : \A w \in Ways :
           btb_entry'[s][w] = btb_entry[s][w] \/ btb_entry'[s][w] = n
  <2>1. ASSUME NEW a \in Nat, NEW b \in Int, NEW c \in ControlTypes, NEW h \in BOOLEAN,
               TrainBuffer(a, b, c, h)
        PROVE  /\ btb_entry' \in [Sets -> [Ways -> Entry]]
               /\ \A s \in Sets : \A w \in Ways :
                    \/ btb_entry'[s][w] = btb_entry[s][w]
                    \/ btb_entry'[s][w] = [target |-> b, ci |-> c, instr16 |-> h, hi |-> hi_val(a)]
    BY <1>3, <2>1, TrainWrites
  <2> QED
    BY <1>1, <1>2, <2>1
<1>6. TargetsTyped'
  <2>1. n.target = d.target
    OBVIOUS
  <2> HIDE DEF n
  <2> QED
    BY <1>1, <1>3, <1>5, <2>1 DEF TargetsTyped
<1> QED
  BY <1>2, <1>3, <1>4, <1>5, <1>6 DEF BufferTypeOK, BufferShape, TagsTypeOK

LEMMA TablesTypes ==
  ASSUME TypeOK, Shape, TablesStep
  PROVE  BufferTypeOK' /\ BufferShape' /\ TargetsTyped' /\ TablesTyped'
<1>1. CASE rg_initialize /\ rl_initialize
  BY <1>1, ClearKeepsBuffer, ClearTyped
<1>2. CASE 1 \in DOMAIN wr_training_data /\ ma_train_bpu(wr_training_data[1])
  <2>1. wr_training_data[1] \in TrainingData
    BY <1>2 DEF Shape
  <2> QED
    BY <1>2, <2>1, TrainKeepsBuffer, TrainTyped
<1>3. CASE UNCHANGED tableVars
  <2>1. UNCHANGED <<btb_entry, btb_tag, allocate_ptr, ras, bht_base, bht_tagged>>
    BY <1>3 DEF tableVars, btbVars
  <2>2. BufferTypeOK'
    BY <2>1 DEF TypeOK, BufferTypeOK
  <2>3. BufferShape'
    BY <2>1 DEF Shape, BufferShape, TagsTypeOK, OneEntryPerWord, FilledInOrder
  <2>4. TargetsTyped'
    BY <2>1 DEF Shape, TargetsTyped
  <2>5. TablesTyped'
    BY <2>1 DEF TypeOK, Shape, TablesTyped, Rows
  <2> QED
    BY <2>2, <2>3, <2>4, <2>5
<1> QED
  BY <1>1, <1>2, <1>3, TablesSteps

LEMMA HistoryTypes ==
  ASSUME TypeOK, Shape, NEW fetch \in BOOLEAN, NEW exec \in BOOLEAN, exec => CanExecute
  PROVE  NextHistory(fetch, exec) \in Bits(MAX_HISTLEN)
<1>1. Response.history \in Bits(MAX_HISTLEN)
  BY Answered DEF Answers
<1>2. exec => Restored(Head(in_flight)) \in Bits(MAX_HISTLEN)
  BY HeadTypes, RestoredTypes DEF CanExecute
<1>3. Zeros(MAX_HISTLEN) \in Bits(MAX_HISTLEN) /\ rg_ghr \in Bits(MAX_HISTLEN)
  BY Sizes, ZerosBits DEF TypeOK
<1>4. \/ NextHistory(fetch, exec) = Zeros(MAX_HISTLEN)
      \/ exec /\ NextHistory(fetch, exec) = Restored(Head(in_flight))
      \/ NextHistory(fetch, exec) = Response.history
      \/ NextHistory(fetch, exec) = rg_ghr
  BY Zenon DEF NextHistory
<1> QED
  BY <1>1, <1>2, <1>3, <1>4

LEMMA NextPCTypes ==
  ASSUME TypeOK, Shape, NEW fetch \in BOOLEAN, NEW exec \in BOOLEAN, NEW flush \in Flushes,
         exec => CanExecute
  PROVE  NextPC(fetch, exec, flush) \in Words
<1>1. Response.nextpc \in Words
  BY Answered DEF Answers
<1>2. exec => Goes(Head(in_flight)) \in Words
  BY HeadTypes, GoesTypes DEF CanExecute
<1>3. (flush.on => flush.pc \in Words) /\ rg_pc \in Words
  BY FlushTypes DEF Shape
<1>4. \/ flush.on /\ NextPC(fetch, exec, flush) = flush.pc
      \/ exec /\ NextPC(fetch, exec, flush) = Goes(Head(in_flight))
      \/ NextPC(fetch, exec, flush) = Response.nextpc
      \/ NextPC(fetch, exec, flush) = rg_pc
  BY Zenon DEF NextPC
<1> QED
  BY <1>1, <1>2, <1>3, <1>4

LEMMA OutcomesTypes ==
  ASSUME Shape, NEW exec \in BOOLEAN, NEW flush \in Flushes, rg_ghr' \in Bits(MAX_HISTLEN)
  PROVE  NextOutcomes(exec, flush) \in Bits(MAX_HISTLEN)
<1>1. outcomes \in Bits(MAX_HISTLEN) /\ pattern[1] \in {0, 1}
  BY DirectionTypes DEF Shape
<1>2. ShiftIn(pattern[1], outcomes) \in Bits(MAX_HISTLEN)
  BY <1>1, Sizes, ShiftInBits
<1>3. \/ NextOutcomes(exec, flush) = rg_ghr'
      \/ NextOutcomes(exec, flush) = ShiftIn(pattern[1], outcomes)
      \/ NextOutcomes(exec, flush) = outcomes
  BY Zenon DEF NextOutcomes
<1> QED
  BY <1>1, <1>2, <1>3

(* The counter of rows wraps to 0 after the last one.                      *)
LEMMA RowCounter ==
  ASSUME TypeOK
  PROVE  /\ (rg_bht_index + 1) % (LastRow + 1) =
              IF rg_bht_index = LastRow THEN 0 ELSE rg_bht_index + 1
         /\ (rg_bht_index + 1) % (LastRow + 1) \in 0..LastRow
<1>1. LastRow \in Nat /\ rg_bht_index \in 0..LastRow
  BY Sizes DEF TypeOK
<1>2. CASE rg_bht_index = LastRow
  BY <1>1, <1>2
<1>3. CASE rg_bht_index # LastRow
  BY <1>1, <1>3
<1> QED
  BY <1>2, <1>3, <1>1

LEMMA CycleTypes ==
  ASSUME TypeOK, Shape, NEW fetch \in BOOLEAN, NEW exec \in BOOLEAN, NEW flush \in Flushes,
         Cycle(fetch, exec, flush)
  PROVE  TypeOK' /\ Shape'
<1>1. (fetch => CanFetch) /\ (exec => CanExecute)
  BY DEF Cycle
<1>2. BufferTypeOK' /\ BufferShape' /\ TargetsTyped' /\ TablesTyped'
  BY TablesTypes DEF Cycle, TablesStep
<1>3. rg_ghr' \in Bits(MAX_HISTLEN)
  BY <1>1, HistoryTypes DEF Cycle
<1>4. rg_pc' \in Words
  BY <1>1, NextPCTypes DEF Cycle
<1>5. in_flight' \in Seq(Answers) /\ Len(in_flight') <= IN_FLIGHT
  BY <1>1, QueueTypes DEF Cycle
<1>6. outcomes' \in Bits(MAX_HISTLEN)
  BY <1>3, OutcomesTypes DEF Cycle
<1>7. rg_bht_index' \in 0..LastRow
  BY RowCounter DEF Cycle, TypeOK
<1>8. rg_initialize' \in BOOLEAN /\ rg_fence' \in BOOLEAN /\ retiring' \in BOOLEAN
  <2>1. flush.fence \in BOOLEAN
    BY FlushTypes
  <2>2. rg_initialize' = (IF rg_initialize THEN ~LastCycle(rg_bht_index) ELSE fetch /\ rg_fence)
    BY DEF Cycle
  <2>3. rg_fence' = (IF flush.on THEN flush.fence ELSE rg_fence /\ ~fetch)
    BY DEF Cycle, NextFence
  <2>4. retiring' = (~flush.on /\ (exec \/ retiring))
    BY DEF Cycle
  <2> QED
    BY <2>1, <2>2, <2>3, <2>4 DEF LastCycle
<1>9. wr_training_data' \in Seq(TrainingData) /\ Len(wr_training_data') <= 1
  <2> DEFINE x == Head(in_flight)
  <2>1. ASSUME exec, Insn(x.pc).ci # "none" PROVE Training(x) \in TrainingData
    BY <1>1, <2>1, HeadTypes, TrainingTypes DEF CanExecute
  <2>2. wr_training_data' = IF exec /\ Insn(x.pc).ci # "none" THEN <<Training(x)>> ELSE <<>>
    BY DEF Cycle
  <2> HIDE DEF x
  <2> QED
    BY <2>1, <2>2
<1>10. pattern' \in Seq({0, 1}) \ {<<>>}
  <2>1. pattern' = Append(Tail(pattern), Head(pattern)) \/ pattern' = pattern
    BY DEF Cycle
  <2> QED
    BY <2>1, DirectionTypes DEF Shape
<1>11. code' \in Codes
  BY DEF Cycle, Shape
<1>12. TypeOK'
  BY <1>2, <1>3, <1>5, <1>7, <1>8, <1>9 DEF TypeOK, TablesTyped, Rows
<1>13. Shape'
  BY <1>2, <1>4, <1>5, <1>6, <1>9, <1>10, <1>11 DEF Shape, TablesTyped, TargetsTyped
<1> QED
  BY <1>12, <1>13

-----------------------------------------------------------------------------
(* A fence keeps everything else out.                                      *)
LEMMA StandsStill ==
  ASSUME Quiet, NEW fetch \in BOOLEAN, NEW exec \in BOOLEAN, NEW flush \in Flushes,
         Cycle(fetch, exec, flush), rg_fence \/ rg_initialize
  PROVE  /\ ~exec /\ ~flush.on /\ in_flight = <<>> /\ (rg_initialize => ~fetch)
         /\ in_flight' = <<>> /\ wr_training_data' = <<>> /\ ~retiring'
<1>1. ~exec /\ ~flush.on /\ in_flight = <<>> /\ ~retiring
  BY DEF Quiet, Cycle, CanExecute
<1>2. rg_initialize => ~fetch
  BY DEF Cycle, CanFetch
<1>3. in_flight' = <<>>
  <2>1. ~(fetch /\ ~rg_fence)
    BY <1>2
  <2>2. in_flight' = <<>> \o <<>>
    BY <1>1, <2>1 DEF Cycle, NextInFlight
  <2> QED
    BY <2>2
<1>4. wr_training_data' = <<>> /\ ~retiring'
  BY <1>1 DEF Cycle
<1> QED
  BY <1>1, <1>2, <1>3, <1>4

LEMMA QuietStep ==
  ASSUME TypeOK, Shape, Quiet,
         NEW fetch \in BOOLEAN, NEW exec \in BOOLEAN, NEW flush \in Flushes,
         Cycle(fetch, exec, flush)
  PROVE  Quiet'
<1>1. /\ rg_initialize' = (IF rg_initialize THEN ~LastCycle(rg_bht_index) ELSE fetch /\ rg_fence)
      /\ rg_fence' = (IF flush.on THEN flush.fence ELSE rg_fence /\ ~fetch)
      /\ rg_bht_index' = IF rg_initialize THEN (rg_bht_index + 1) % (LastRow + 1)
                                          ELSE rg_bht_index
  BY DEF Cycle, NextFence
<1>2. CASE rg_fence \/ rg_initialize
  <2>1. /\ ~exec /\ ~flush.on /\ (rg_initialize => ~fetch)
        /\ in_flight' = <<>> /\ wr_training_data' = <<>> /\ ~retiring'
    BY <1>2, StandsStill
  <2>2. rg_initialize' => ~rg_fence'
    BY <1>1, <2>1 DEF Quiet
  <2>3. ~rg_initialize' => rg_bht_index' = 0
    BY <1>1, RowCounter DEF Quiet, LastCycle
  <2> QED
    BY <2>1, <2>2, <2>3 DEF Quiet
<1>3. CASE ~rg_fence /\ ~rg_initialize
  <2>1. ~rg_initialize' /\ rg_bht_index' = 0
    BY <1>1, <1>3 DEF Quiet
  <2>2. rg_fence' => flush.on
    BY <1>1, <1>3
  <2>3. flush.on => in_flight' = <<>> /\ ~retiring'
    BY DEF Cycle, NextInFlight
  <2> QED
    BY <2>1, <2>2, <2>3 DEF Quiet
<1> QED
  BY <1>2, <1>3

-----------------------------------------------------------------------------
(* What the buffer and the training data say of the program.               *)
LEMMA ProgramKept ==
  ASSUME Shape, NEW fetch \in BOOLEAN, NEW exec \in BOOLEAN, NEW flush \in Flushes,
         Cycle(fetch, exec, flush)
  PROVE  /\ ~rg_fence' => code' = code
         /\ ~flush.on => code' = code
         /\ ~rg_fence' /\ ~rg_initialize' /\ ~rg_initialize => ~rg_fence \/ flush.on
<1>1. /\ rg_initialize' = (IF rg_initialize THEN ~LastCycle(rg_bht_index) ELSE fetch /\ rg_fence)
      /\ rg_fence' = (IF flush.on THEN flush.fence ELSE rg_fence /\ ~fetch)
      /\ flush.fence \/ code' = code
  BY DEF Cycle, NextFence
<1> QED
  BY <1>1, FlushTypes

LEMMA ClearedStep ==
  ASSUME TypeOK, Shape, Quiet,
         NEW fetch \in BOOLEAN, NEW exec \in BOOLEAN, NEW flush \in Flushes,
         Cycle(fetch, exec, flush)
  PROVE  ClearedFirst'
<1> SUFFICES ASSUME rg_initialize', rg_bht_index' > 0
             PROVE  \A s \in Sets : \A w \in Ways : ~btb_tag'[s][w].valid
  BY DEF ClearedFirst
<1>1. rg_initialize
  BY DEF Cycle, Quiet
<1>2. rl_initialize
  BY <1>1, TablesSteps DEF Cycle, TablesStep
<1> QED
  BY <1>2, ClearKeepsBuffer

LEMMA EntriesStep ==
  ASSUME TypeOK, Shape, Quiet, EntriesOfCode, DataOfCode,
         NEW fetch \in BOOLEAN, NEW exec \in BOOLEAN, NEW flush \in Flushes,
         Cycle(fetch, exec, flush)
  PROVE  EntriesOfCode'
<1> SUFFICES ASSUME ~rg_fence', ~rg_initialize',
                    NEW s \in Sets, NEW w \in Ways, btb_tag'[s][w].valid
             PROVE  OfCode(s, btb_entry[s][w], btb_tag[s][w].tag)'
  BY DEF EntriesOfCode
<1>1. code' = code
  BY ProgramKept
<1>2. TablesStep
  BY DEF Cycle, TablesStep
<1>3. ~rg_initialize
  <2>1. rg_initialize => rl_initialize
    BY <1>2, TablesSteps
  <2> QED
    BY <2>1, ClearKeepsBuffer
<1>4. ~rg_fence
  <2>1. rg_fence => ~flush.on
    BY StandsStill
  <2> QED
    BY <1>3, <2>1, ProgramKept
<1>5. \A t \in Sets : \A v \in Ways :
        btb_tag[t][v].valid => OfCode(t, btb_entry[t][v], btb_tag[t][v].tag)
  BY <1>3, <1>4 DEF EntriesOfCode
<1>6. CASE UNCHANGED tableVars
  BY <1>1, <1>5, <1>6 DEF tableVars, btbVars, OfCode
<1>7. CASE 1 \in DOMAIN wr_training_data /\ ma_train_bpu(wr_training_data[1])
  <2> DEFINE d == wr_training_data[1]
  <2>1. /\ d \in TrainingData /\ d.pc \in DOMAIN code
        /\ d.ci = code[d.pc].ci /\ d.target = code[d.pc].target
    BY <1>4, <1>7 DEF Shape, DataOfCode
  <2>2. /\ d.pc \in Nat /\ d.target \in Int /\ d.ci \in ControlTypes /\ d.ci # "none"
        /\ FALSE \in BOOLEAN /\ TrainBuffer(d.pc, d.target, d.ci, FALSE)
    <3>1. TrainBuffer(d.pc, d.target, d.ci, FALSE)
      BY <1>7 DEF ma_train_bpu
    <3> HIDE DEF d
    <3>2. d.pc \in Nat /\ d.target \in Int /\ d.ci \in ControlTypes /\ d.ci # "none"
      BY <2>1 DEF TrainingData, Words, ControlTypes
    <3> QED
      BY <3>1, <3>2
  <2>3. BufferTypeOK /\ BufferShape
    BY DEF TypeOK, Shape
  <2>4. ASSUME NEW a \in Nat, NEW b \in Int, NEW c \in ControlTypes, NEW h \in BOOLEAN,
               TrainBuffer(a, b, c, h)
        PROVE  \/ btb_entry'[s][w] = btb_entry[s][w] /\ btb_tag'[s][w] = btb_tag[s][w]
               \/ /\ s = btb_index(a) /\ btb_tag'[s][w].tag = btb_tag_value(a)
                  /\ btb_entry'[s][w] = [target |-> b, ci |-> c, instr16 |-> h, hi |-> hi_val(a)]
    BY <2>3, <2>4, TrainWrites
  <2> HIDE DEF d
  <2>5. \/ btb_entry'[s][w] = btb_entry[s][w] /\ btb_tag'[s][w] = btb_tag[s][w]
        \/ /\ s = btb_index(d.pc) /\ btb_tag'[s][w].tag = btb_tag_value(d.pc)
           /\ btb_entry'[s][w] = [target |-> d.target, ci |-> d.ci, instr16 |-> FALSE,
                                  hi |-> hi_val(d.pc)]
    BY <2>2, <2>4
  <2>6. CASE btb_entry'[s][w] = btb_entry[s][w] /\ btb_tag'[s][w] = btb_tag[s][w]
    BY <1>1, <1>5, <2>6 DEF OfCode
  <2>7. CASE /\ s = btb_index(d.pc) /\ btb_tag'[s][w].tag = btb_tag_value(d.pc)
             /\ btb_entry'[s][w] = [target |-> d.target, ci |-> d.ci, instr16 |-> FALSE,
                                    hi |-> hi_val(d.pc)]
    <3>1. btb_entry'[s][w].ci = d.ci /\ btb_entry'[s][w].target = d.target
      BY <2>7
    <3> QED
      BY <1>1, <2>1, <2>2, <2>7, <3>1 DEF OfCode
  <2> QED
    BY <2>5, <2>6, <2>7
<1> QED
  BY <1>2, <1>3, <1>6, <1>7, TablesSteps

LEMMA DataStep ==
  ASSUME TypeOK, Shape,
         NEW fetch \in BOOLEAN, NEW exec \in BOOLEAN, NEW flush \in Flushes,
         Cycle(fetch, exec, flush)
  PROVE  DataOfCode'
<1> DEFINE x == Head(in_flight)
<1>1. CASE exec /\ Insn(x.pc).ci # "none"
  <2>1. wr_training_data' = <<Training(x)>>
    BY <1>1 DEF Cycle
  <2>2. /\ Training(x).pc = x.pc /\ Training(x).ci = Insn(x.pc).ci
        /\ Training(x).target = Insn(x.pc).target
    BY DEF Training
  <2>3. x.pc \in DOMAIN code /\ Insn(x.pc) = code[x.pc]
    BY <1>1, InsnTypes DEF Shape
  <2>4. ~rg_fence' => code' = code
    BY ProgramKept
  <2> DEFINE d == Training(x)
  <2>5. d.pc \in DOMAIN code /\ d.ci = code[d.pc].ci /\ d.target = code[d.pc].target
    BY <2>2, <2>3
  <2>6. \A k \in DOMAIN wr_training_data' : wr_training_data'[k] = d
    BY <2>1
  <2> HIDE DEF d
  <2> QED
    BY <2>4, <2>5, <2>6 DEF DataOfCode
<1>2. CASE ~(exec /\ Insn(x.pc).ci # "none")
  <2>1. wr_training_data' = <<>>
    BY <1>2 DEF Cycle
  <2> QED
    BY <2>1 DEF DataOfCode
<1> QED
  BY <1>1, <1>2

(* What hits is a control instruction of the program, of the kind the      *)
(* entry says.                                                             *)
LEMMA AnswerOfCode ==
  ASSUME TypeOK, Shape, EntriesOfCode, ~rg_fence, ~rg_initialize
  PROVE  Response.btbhit =>
           /\ Insn(Response.pc).ci # "none"
           /\ Response.branch <=> Insn(Response.pc).ci = "Branch"
<1> SUFFICES ASSUME BufferHit(rg_pc)
             PROVE  /\ Insn(rg_pc).ci # "none"
                    /\ HitEntry(rg_pc).ci = Insn(rg_pc).ci
  BY Answered
<1> DEFINE s == btb_index(rg_pc)
           w == HitWay(rg_pc)
<1>1. rg_pc \in Words /\ rg_pc \in Nat
  BY DEF Shape, Words
<1>2. s \in Sets /\ w \in Ways /\ btb_tag[s][w].valid /\ btb_tag[s][w].tag = btb_tag_value(rg_pc)
  BY <1>1, Addressing, HitWayMatches DEF Shape, BufferShape
<1>3. PICK pc \in DOMAIN code : /\ btb_index(pc) = s /\ btb_tag_value(pc) = btb_tag[s][w].tag
                                /\ code[pc].ci # "none" /\ btb_entry[s][w].ci = code[pc].ci
  BY <1>2 DEF EntriesOfCode, OfCode
<1>4. pc \in Words /\ pc \in Nat
  BY Instructions DEF Shape, Words
<1>5. pc \div 4 = rg_pc \div 4
  BY <1>1, <1>2, <1>3, <1>4, IndexAndTag
<1>6. pc = rg_pc
  BY <1>1, <1>4, <1>5 DEF Words
<1> QED
  BY <1>3, <1>6 DEF Insn, HitEntry

(* Who is under way after a cycle: whoever was and has not been executed,  *)
(* and behind them what stage 0 has just been answered.                    *)
LEMMA QueueNext ==
  ASSUME TypeOK, Shape,
         NEW fetch \in BOOLEAN, NEW exec \in BOOLEAN, NEW flush \in Flushes,
         Cycle(fetch, exec, flush), ~flush.on, ~(exec /\ Redirection(Head(in_flight)))
  PROVE  \E n \in Nat :
           /\ Len(in_flight) = n + (IF exec THEN 1 ELSE 0)
           /\ Len(in_flight') = n + (IF fetch /\ ~rg_fence THEN 1 ELSE 0)
           /\ \A k \in 1..n : in_flight'[k] = in_flight[k + (IF exec THEN 1 ELSE 0)]
           /\ fetch /\ ~rg_fence => in_flight'[n + 1] = Response
<1> DEFINE old == IF exec THEN Tail(in_flight) ELSE in_flight
           new == IF fetch /\ ~rg_fence THEN <<Response>> ELSE <<>>
           n   == Len(old)
<1>1. /\ old \in Seq(Answers) /\ n \in Nat
      /\ Len(in_flight) = n + (IF exec THEN 1 ELSE 0)
      /\ \A k \in 1..n : old[k] = in_flight[k + (IF exec THEN 1 ELSE 0)]
  <2>1. CASE exec
    BY <2>1, HeadTypes DEF Cycle, CanExecute, Shape
  <2>2. CASE ~exec
    BY <2>2 DEF Shape
  <2> QED
    BY <2>1, <2>2
<1>2. /\ new \in Seq(Answers) /\ Len(new) = (IF fetch /\ ~rg_fence THEN 1 ELSE 0)
      /\ fetch /\ ~rg_fence => new[1] = Response
  <2>1. CASE fetch /\ ~rg_fence
    BY <2>1, Answered
  <2>2. CASE ~(fetch /\ ~rg_fence)
    BY <2>2
  <2> QED
    BY <2>1, <2>2
<1>3. in_flight' = old \o new
  BY DEF Cycle, NextInFlight
<1> HIDE DEF old, new
<1>4. /\ Len(in_flight') = n + Len(new)
      /\ \A k \in 1..n : in_flight'[k] = old[k]
      /\ Len(new) = 1 => in_flight'[n + 1] = new[1]
  BY <1>1, <1>2, <1>3
<1> HIDE DEF n
<1> QED
  BY <1>1, <1>2, <1>4

(* What holds of every instruction under way, when it holds of an answer.  *)
LEMMA Newcomers ==
  ASSUME TypeOK, Shape, Quiet,
         NEW fetch \in BOOLEAN, NEW exec \in BOOLEAN, NEW flush \in Flushes,
         Cycle(fetch, exec, flush), NEW k \in DOMAIN in_flight'
  PROVE  /\ code' = code
         /\ \/ \E j \in DOMAIN in_flight : in_flight'[k] = in_flight[j]
            \/ ~rg_fence /\ ~rg_initialize /\ in_flight'[k] = Response
<1>1. ~(flush.on \/ (exec /\ Redirection(Head(in_flight))))
  <2>1. flush.on \/ (exec /\ Redirection(Head(in_flight))) => in_flight' = <<>>
    BY DEF Cycle, NextInFlight
  <2>2. DOMAIN <<>> = {}
    OBVIOUS
  <2> QED
    BY <2>1, <2>2
<1>2. PICK n \in Nat :
        /\ Len(in_flight) = n + (IF exec THEN 1 ELSE 0)
        /\ Len(in_flight') = n + (IF fetch /\ ~rg_fence THEN 1 ELSE 0)
        /\ \A i \in 1..n : in_flight'[i] = in_flight[i + (IF exec THEN 1 ELSE 0)]
        /\ fetch /\ ~rg_fence => in_flight'[n + 1] = Response
  BY <1>1, QueueNext
<1>3. k \in 1..Len(in_flight') /\ in_flight \in Seq(Answers) /\ DOMAIN in_flight = 1..Len(in_flight)
  BY CycleTypes DEF Shape
<1>4. code' = code
  BY <1>1, ProgramKept
<1>5. CASE k \in 1..n
  <2>1. k + (IF exec THEN 1 ELSE 0) \in DOMAIN in_flight
    BY <1>2, <1>3, <1>5
  <2> QED
    BY <1>2, <1>4, <1>5, <2>1
<1>6. CASE k \notin 1..n
  <2>1. fetch /\ ~rg_fence /\ k = n + 1
    BY <1>2, <1>3, <1>6
  <2>2. ~rg_initialize
    BY <2>1 DEF Cycle, CanFetch
  <2> QED
    BY <1>2, <1>4, <2>1, <2>2
<1> QED
  BY <1>5, <1>6

LEMMA HitsStep ==
  ASSUME TypeOK, Shape, Quiet, EntriesOfCode, HitsAreControl,
         NEW fetch \in BOOLEAN, NEW exec \in BOOLEAN, NEW flush \in Flushes,
         Cycle(fetch, exec, flush)
  PROVE  HitsAreControl'
<1>1. ASSUME NEW k \in DOMAIN in_flight', in_flight'[k].btbhit
      PROVE  /\ code' = code
             /\ Insn(in_flight'[k].pc).ci # "none"
             /\ in_flight'[k].branch = (Insn(in_flight'[k].pc).ci = "Branch")
  <2>1. /\ code' = code
        /\ \/ \E j \in DOMAIN in_flight : in_flight'[k] = in_flight[j]
           \/ ~rg_fence /\ ~rg_initialize /\ in_flight'[k] = Response
    BY Newcomers
  <2>2. CASE \E j \in DOMAIN in_flight : in_flight'[k] = in_flight[j]
    BY <1>1, <2>1, <2>2 DEF HitsAreControl
  <2>3. CASE ~rg_fence /\ ~rg_initialize /\ in_flight'[k] = Response
    <3>1. Response.branch \in BOOLEAN
      BY Answered DEF Answers
    <3>2. /\ Insn(Response.pc).ci # "none"
          /\ Response.branch <=> Insn(Response.pc).ci = "Branch"
      BY <1>1, <2>3, AnswerOfCode
    <3>3. Response.branch = (Insn(Response.pc).ci = "Branch")
      BY <3>1, <3>2
    <3> QED
      BY <2>1, <2>3, <3>2, <3>3
  <2> QED
    BY <2>1, <2>2, <2>3
<1> QED
  BY <1>1 DEF HitsAreControl, Insn

-----------------------------------------------------------------------------
(* The histories under way.                                                *)

(* Executing an instruction that was predicted right moves its outcome     *)
(* from the predictions to the outcomes; a wrong one is repaired.          *)
LEMMA Executed ==
  ASSUME TypeOK, Shape, HitsAreControl, HistoryFollowsPath, Directions,
         NEW exec \in BOOLEAN, NEW flush \in Flushes, exec, CanExecute,
         ~rg_initialize, ~flush.on
  PROVE  LET x == Head(in_flight) IN
           IF Redirection(x) THEN NextOutcomes(exec, flush) = Restored(x)
                             ELSE NextOutcomes(exec, flush) = x.history
<1> DEFINE x == Head(in_flight)
           p == x.prediction \div 2
<1>1. x = in_flight[1] /\ x \in Answers /\ 1 \in DOMAIN in_flight
  BY HeadTypes DEF CanExecute
<1>2. /\ x.branch => x.btbhit
      /\ x.btbhit => (x.branch <=> Insn(x.pc).ci = "Branch")
  <2>1. x.branch \in BOOLEAN
    BY <1>1 DEF Answers
  <2> QED
    BY <1>1, <2>1 DEF Directions, HitsAreControl
<1>3. x.history = IF x.branch THEN ShiftIn(p, outcomes) ELSE outcomes
  BY <1>1 DEF HistoryFollowsPath, HistoryBefore
<1>4. NextOutcomes(exec, flush) = IF x.branch THEN ShiftIn(pattern[1], outcomes) ELSE outcomes
  BY Zenon DEF NextOutcomes
<1>5. p \in {0, 1} /\ pattern[1] \in {0, 1} /\ outcomes \in Bits(MAX_HISTLEN)
  <2>1. x.prediction \in 0..3
    BY <1>1 DEF Answers
  <2> HIDE DEF x
  <2> QED
    BY <2>1, DirectionTypes DEF Shape
<1> HIDE DEF x, p
<1>6. CASE x.branch
  <2>1. Redirection(x) <=> pattern[1] # p
    <3>1. Insn(x.pc).ci = "Branch"
      BY <1>2, <1>6
    <3> QED
      BY <3>1, Zenon DEF Redirection, p
  <2>2. Restored(x) = NegateNewest(ShiftIn(p, outcomes))
    BY <1>2, <1>3, <1>6 DEF Restored
  <2>3. NegateNewest(ShiftIn(p, outcomes)) = ShiftIn(1 - p, outcomes)
    BY <1>5, Sizes, RepairShiftIn
  <2>4. pattern[1] # p => 1 - p = pattern[1]
    BY <1>5
  <2> QED
    BY <1>3, <1>4, <1>6, <2>1, <2>2, <2>3, <2>4 DEF x
<1>7. CASE ~x.branch
  <2>1. Restored(x) = x.history
    BY <1>2, <1>7 DEF Restored
  <2> QED
    BY <1>3, <1>4, <1>7, <2>1 DEF x
<1> QED
  BY <1>6, <1>7

LEMMA EmptyPath ==
  ASSUME in_flight' = <<>>, outcomes' = rg_ghr'
  PROVE  HistoryFollowsPath'
BY DEF HistoryFollowsPath, HistoryBefore

LEMMA PathStep ==
  ASSUME TypeOK, Shape, Quiet, HitsAreControl, HistoryFollowsPath, Directions,
         NEW fetch \in BOOLEAN, NEW exec \in BOOLEAN, NEW flush \in Flushes,
         Cycle(fetch, exec, flush)
  PROVE  HistoryFollowsPath'
<1> DEFINE x == Head(in_flight)
<1>1. /\ outcomes' = NextOutcomes(exec, flush) /\ rg_ghr' = NextHistory(fetch, exec)
      /\ in_flight' = NextInFlight(fetch, exec, flush) /\ (exec => CanExecute)
  BY DEF Cycle
<1>2. CASE rg_initialize \/ flush.on
  <2>1. outcomes' = rg_ghr'
    BY <1>1, <1>2, Zenon DEF NextOutcomes
  <2>2. in_flight' = <<>>
    BY <1>1, <1>2, StandsStill DEF NextInFlight
  <2> QED
    BY <2>1, <2>2, EmptyPath
<1>3. CASE ~rg_initialize /\ ~flush.on /\ exec /\ Redirection(x)
  <2>1. outcomes' = Restored(x)
    BY <1>1, <1>3, Executed
  <2>2. rg_ghr' = Restored(x)
    BY <1>1, <1>3, Zenon DEF NextHistory
  <2>3. in_flight' = <<>>
    BY <1>1, <1>3 DEF NextInFlight
  <2> QED
    BY <2>1, <2>2, <2>3, EmptyPath
<1>4. CASE ~rg_initialize /\ ~flush.on /\ ~(exec /\ Redirection(x))
  <2> DEFINE e == IF exec THEN 1 ELSE 0
  <2>1. PICK n \in Nat :
          /\ Len(in_flight) = n + (IF exec THEN 1 ELSE 0)
          /\ Len(in_flight') = n + (IF fetch /\ ~rg_fence THEN 1 ELSE 0)
          /\ \A k \in 1..n : in_flight'[k] = in_flight[k + (IF exec THEN 1 ELSE 0)]
          /\ fetch /\ ~rg_fence => in_flight'[n + 1] = Response
    BY <1>4, QueueNext
  <2>2. exec => outcomes' = x.history /\ x = in_flight[1]
    BY <1>1, <1>4, Executed, HeadTypes DEF CanExecute
  <2>3. ~exec => outcomes' = outcomes
    BY <1>1, <1>4, Zenon DEF NextOutcomes
  <2>4. rg_ghr' = IF fetch /\ ~rg_fence THEN Response.history ELSE rg_ghr
    BY <1>1, <1>4, Zenon DEF NextHistory
  <2>5. \A k \in 1..n + 1 : HistoryBefore(k)' = HistoryBefore(k + e)
    BY <2>1, <2>2, <2>3 DEF HistoryBefore
  <2>6. rg_ghr = HistoryBefore(n + e + 1)
    BY <2>1 DEF HistoryFollowsPath
  <2>7. ASSUME NEW k \in 1..n
        PROVE  LET y == in_flight'[k] IN
                 y.history = IF y.branch THEN ShiftIn(y.prediction \div 2, HistoryBefore(k)')
                                         ELSE HistoryBefore(k)'
    <3>1. k + e \in DOMAIN in_flight /\ k \in 1..n + 1
      BY <2>1 DEF Shape
    <3> QED
      BY <2>1, <2>5, <3>1 DEF HistoryFollowsPath
  <2>8. rg_ghr = HistoryBefore(n + 1)'
    <3>1. n + 1 \in 1..n + 1 /\ n + 1 + e = n + e + 1
      OBVIOUS
    <3> QED
      BY <2>5, <2>6, <3>1
  <2>9. CASE fetch /\ ~rg_fence
    <3>1. Response.history = IF Response.branch
                             THEN ShiftIn(Response.prediction \div 2, rg_ghr) ELSE rg_ghr
      BY Answered
    <3>2. Len(in_flight') = n + 1 /\ in_flight'[n + 1] = Response
      BY <2>1, <2>9
    <3>3. HistoryBefore(Len(in_flight) + 1)' = Response.history
      BY <3>2 DEF HistoryBefore
    <3>4. \A k \in 1..n + 1 : k \in 1..n \/ k = n + 1
      OBVIOUS
    <3>5. DOMAIN in_flight' = 1..n + 1
      BY <3>2, CycleTypes DEF Shape
    <3> QED
      BY <2>4, <2>7, <2>8, <2>9, <3>1, <3>2, <3>3, <3>4, <3>5 DEF HistoryFollowsPath
  <2>10. CASE ~(fetch /\ ~rg_fence)
    <3>1. Len(in_flight') = n /\ DOMAIN in_flight' = 1..n
      BY <2>1, <2>10, CycleTypes DEF Shape
    <3> QED
      BY <2>4, <2>7, <2>8, <2>10, <3>1 DEF HistoryFollowsPath
  <2> QED
    BY <2>9, <2>10
<1> QED
  BY <1>2, <1>3, <1>4

LEMMA DirectionsStep ==
  ASSUME TypeOK, Shape, Quiet, HitsAreControl, Directions,
         NEW fetch \in BOOLEAN, NEW exec \in BOOLEAN, NEW flush \in Flushes,
         Cycle(fetch, exec, flush)
  PROVE  Directions'
<1>1. ASSUME NEW k \in DOMAIN in_flight', in_flight'[k].branch
      PROVE  in_flight'[k].btbhit /\ in_flight'[k].history[1] = in_flight'[k].prediction \div 2
  <2>1. CASE \E j \in DOMAIN in_flight : in_flight'[k] = in_flight[j]
    BY <1>1, <2>1 DEF Directions
  <2>2. CASE in_flight'[k] = Response
    <3>1. Response \in Answers /\ Response.branch /\ Response.btbhit
      BY <1>1, <2>2, Answered
    <3>2. Response.prediction \div 2 \in {0, 1} /\ rg_ghr \in Bits(MAX_HISTLEN)
      <4>1. Response.prediction \in 0..3
        BY <3>1 DEF Answers
      <4> QED
        BY <4>1 DEF TypeOK
    <3>3. Response.history = ShiftIn(Response.prediction \div 2, rg_ghr)
      BY <3>1, Answered
    <3>4. 1 \in 1..MAX_HISTLEN
      BY Sizes
    <3>5. Response.history[1] = Response.prediction \div 2
      BY <3>2, <3>3, <3>4, Sizes, ShiftInBits
    <3> QED
      BY <2>2, <3>1, <3>5
  <2> QED
    BY <2>1, <2>2, Newcomers
<1> DEFINE x == Head(in_flight)
<1>2. CASE exec /\ Insn(x.pc).ci # "none"
  <2> DEFINE d == Training(x)
  <2>1. wr_training_data' = <<d>>
    BY <1>2 DEF Cycle
  <2>2. x = in_flight[1] /\ x \in Answers /\ 1 \in DOMAIN in_flight
    BY <1>2, HeadTypes DEF Cycle, CanExecute
  <2>3. ASSUME d.ci = "Branch"
        PROVE  /\ d.state = Saturate(d.prediction, Last(pattern') = 1)
               /\ d.btbhit => d.history[1] = d.prediction \div 2
    <3>1. /\ Insn(x.pc).ci = "Branch" /\ d.prediction = x.prediction /\ d.btbhit = x.btbhit
          /\ d.history = x.history /\ d.state = Saturate(x.prediction, pattern[1] = 1)
      BY <2>3 DEF Training
    <3>2. pattern' = Append(Tail(pattern), Head(pattern))
      BY <1>2, <3>1 DEF Cycle
    <3>3. Last(pattern') = pattern[1]
      BY <3>2, DirectionTypes
    <3>4. x.btbhit => x.branch
      BY <2>2, <3>1 DEF HitsAreControl
    <3>5. x.branch => x.history[1] = x.prediction \div 2
      BY <2>2 DEF Directions
    <3> QED
      BY <3>1, <3>3, <3>4, <3>5
  <2>4. \A k \in DOMAIN wr_training_data' : wr_training_data'[k] = d
    BY <2>1
  <2> HIDE DEF d
  <2> QED
    BY <1>1, <2>3, <2>4 DEF Directions
<1>3. CASE ~(exec /\ Insn(x.pc).ci # "none")
  <2>1. wr_training_data' = <<>>
    BY <1>3 DEF Cycle
  <2> QED
    BY <1>1, <2>1 DEF Directions
<1> QED
  BY <1>2, <1>3

-----------------------------------------------------------------------------
LEMMA Initially == Init => IInv
<1> SUFFICES ASSUME Init PROVE IInv
  OBVIOUS
<1>1. PICK r \in PowerUp :
        /\ bht_base = [i \in Bits(INDEX_BITS) |-> r.state]
        /\ bht_tagged = [t \in Tables |-> [i \in Bits(INDEX_BITS) |-> Row(t, r)]]
  BY DEF Init
<1>2. r.state \in 0..3 /\ r.valid \in BOOLEAN
  BY HardwareAssumption
<1>3. /\ code \in Codes /\ rg_pc \in Words /\ pattern \in Seq({0, 1}) \ {<<>>}
      /\ rg_ghr = Zeros(MAX_HISTLEN) /\ outcomes = rg_ghr /\ rg_bht_index = 0
      /\ rg_initialize = FALSE /\ rg_fence = FALSE /\ retiring = FALSE
      /\ in_flight = <<>> /\ wr_training_data = <<>> /\ InitBuffer
  BY HardwareAssumption, Instructions DEF Init
<1>4. rg_ghr \in Bits(MAX_HISTLEN) /\ outcomes \in Bits(MAX_HISTLEN)
  BY <1>3, Sizes, ZerosBits
<1>5. /\ 0 \in Ways /\ [target |-> 0, ci |-> "Branch", instr16 |-> FALSE, hi |-> 0] \in Entry
      /\ <<>> \in Seq(Nat) /\ Len(<<>>) = 0 /\ 0 \in Words /\ RAS_DEPTH \in Nat
  BY SizeAssumption DEF Ways, Entry, ControlTypes, Words
<1>6. BufferTypeOK /\ TargetsTyped
  BY <1>3, <1>5 DEF InitBuffer, BufferTypeOK, TargetsTyped
<1>7. BufferShape /\ \A s \in Sets : \A w \in Ways : ~btb_tag[s][w].valid
  <2>1. \A s \in Sets : \A w \in Ways : ~btb_tag[s][w].valid /\ ~(w < allocate_ptr[s])
    BY <1>3 DEF InitBuffer, Ways
  <2> QED
    BY <1>6, <2>1 DEF BufferShape, BufferTypeOK, TagsTypeOK, OneEntryPerWord, FilledInOrder
<1>8. TablesTyped
  <2>1. ASSUME NEW t \in Tables
        PROVE  /\ Row(t, r) \in Rows(t)
               /\ Row(t, r) \in [state : 0..3, tag : Seq({0, 1}), valid : BOOLEAN]
    <3>1. Row(t, r) \in Rows(t)
      BY <1>2, Sizes, ZerosBits DEF Row, Rows
    <3> QED
      BY <3>1, RowTypes
  <2> DEFINE R == [state : 0..3, tag : Seq({0, 1}), valid : BOOLEAN]
  <2>2. \A t \in Tables : Row(t, r) \in R
    BY <2>1
  <2> HIDE DEF R
  <2>3. bht_tagged \in [Tables -> [Bits(INDEX_BITS) -> R]]
    BY <1>1, <2>2
  <2>4. bht_base \in [Bits(INDEX_BITS) -> 0..3]
    BY <1>1, <1>2
  <2>5. \A t \in Tables : \A i \in Bits(INDEX_BITS) : bht_tagged[t][i] \in Rows(t)
    BY <1>1, <2>1
  <2> QED
    BY <2>3, <2>4, <2>5 DEF TablesTyped, R
<1>9. TypeOK
  <2>1. 0 \in 0..LastRow /\ 0 <= IN_FLIGHT
    BY Sizes, HardwareAssumption
  <2>2. Len(in_flight) <= IN_FLIGHT /\ Len(wr_training_data) <= 1
    BY <1>3, <1>5, <2>1
  <2> QED
    BY <1>3, <1>4, <1>6, <1>8, <2>1, <2>2 DEF TypeOK, TablesTyped, Rows
<1>10. Shape
  BY <1>3, <1>4, <1>6, <1>7, <1>8 DEF Shape, TablesTyped, TargetsTyped
<1>11. HistoryFollowsPath
  BY <1>3 DEF HistoryFollowsPath, HistoryBefore
<1> QED
  BY <1>3, <1>7, <1>9, <1>10, <1>11
     DEF IInv, Quiet, EntriesOfCode, ClearedFirst, DataOfCode, HitsAreControl, Directions

LEMMA StutterKeeps == IInv /\ UNCHANGED vars => IInv'
<1> SUFFICES ASSUME IInv, UNCHANGED vars PROVE IInv'
  OBVIOUS
<1>1. /\ UNCHANGED <<btb_entry, btb_tag, allocate_ptr, ras, bht_base, bht_tagged>>
      /\ UNCHANGED <<rg_ghr, rg_initialize, rg_bht_index, rg_pc, rg_fence, in_flight>>
      /\ UNCHANGED <<wr_training_data, retiring, code, pattern, outcomes>>
  BY DEF vars, tableVars, btbVars
<1>2. TypeOK'
  BY <1>1 DEF IInv, TypeOK, BufferTypeOK
<1>3. Shape'
  BY <1>1 DEF IInv, Shape, BufferShape, TagsTypeOK, OneEntryPerWord, FilledInOrder
<1>4. Quiet' /\ ClearedFirst' /\ Directions'
  BY <1>1 DEF IInv, Quiet, ClearedFirst, Directions
<1>5. EntriesOfCode' /\ DataOfCode' /\ HitsAreControl'
  BY <1>1 DEF IInv, EntriesOfCode, OfCode, DataOfCode, HitsAreControl, Insn
<1>6. HistoryFollowsPath'
  BY <1>1 DEF IInv, HistoryFollowsPath, HistoryBefore
<1> QED
  BY <1>2, <1>3, <1>4, <1>5, <1>6 DEF IInv

LEMMA StepKeeps == IInv /\ [Next]_vars => IInv'
<1> SUFFICES ASSUME IInv, [Next]_vars PROVE IInv'
  OBVIOUS
<1>1. CASE UNCHANGED vars
  BY <1>1, StutterKeeps
<1>2. CASE Next
  <2>1. PICK fetch \in BOOLEAN, exec \in BOOLEAN, flush \in Flushes : Cycle(fetch, exec, flush)
    BY <1>2 DEF Next
  <2>2. /\ TypeOK /\ Shape /\ Quiet /\ EntriesOfCode /\ ClearedFirst /\ DataOfCode
        /\ HitsAreControl /\ HistoryFollowsPath /\ Directions
    BY DEF IInv
  <2>3. TypeOK' /\ Shape'
    BY <2>1, <2>2, CycleTypes
  <2>4. Quiet' /\ ClearedFirst'
    BY <2>1, <2>2, QuietStep, ClearedStep
  <2>5. EntriesOfCode' /\ DataOfCode' /\ HitsAreControl'
    BY <2>1, <2>2, EntriesStep, DataStep, HitsStep
  <2>6. HistoryFollowsPath' /\ Directions'
    BY <2>1, <2>2, PathStep, DirectionsStep
  <2> QED
    BY <2>3, <2>4, <2>5, <2>6 DEF IInv
<1> QED
  BY <1>1, <1>2

LEMMA Inductive == Spec => []IInv
BY Initially, StepKeeps, PTL DEF Spec

(* Whatever the register files hold at power up and however stale counters *)
(* are written back, a row stays a row and an index in its table.          *)
THEOREM TypeCorrect == Spec => []TypeOK
<1>1. IInv => TypeOK
  BY DEF IInv
<1> QED
  BY <1>1, Inductive, PTL

(* The history is the path: every instruction under way has the history    *)
(* its predecessor left, and rg_ghr is the newest.                         *)
THEOREM History == Spec => []HistoryFollowsPath
<1>1. IInv => HistoryFollowsPath
  BY DEF IInv
<1> QED
  BY <1>1, Inductive, PTL

(* Training is never lost to a predictor that clears itself.               *)
THEOREM AcceptsAll == Spec => []NothingRefused
<1>1. IInv => NothingRefused
  BY DEF IInv, Quiet, NothingRefused
<1> QED
  BY <1>1, Inductive, PTL

(* What hits is a control transfer of the program as it is now.            *)
THEOREM OnlyControlHits == Spec => []HitsAreControl
<1>1. IInv => HitsAreControl
  BY DEF IInv
<1> QED
  BY <1>1, Inductive, PTL

(* However instructions train the buffer and fences clear it, a word has   *)
(* one entry.                                                              *)
THEOREM OneEntry == Spec => []OneEntryPerWord
<1>1. IInv => OneEntryPerWord
  BY DEF IInv, Shape, BufferShape
<1> QED
  BY <1>1, Inductive, PTL

(* A counter that moved by Saturate says which way it moved, at the ends   *)
(* of its range too.                                                       *)
LEMMA DirectionRecovered ==
  ASSUME NEW c \in 0..3, NEW taken \in BOOLEAN
  PROVE  (Saturate(c, taken) > c \/ Saturate(c, taken) = 3) <=> taken
BY DEF Saturate

(* As long as a branch finds the counter it was predicted from, the tables *)
(* learn the direction it took, and that it was mispredicted if it was.    *)
THEOREM Allocation == Spec => []AllocatesWhenWrong
<1>1. ASSUME IInv PROVE AllocatesWhenWrong
  <2> SUFFICES ASSUME NEW d \in Range(wr_training_data), d.ci = "Branch", d.btbhit,
                      OriginalState(d) = d.prediction
               PROVE  /\ actual_taken(d) = (Last(pattern) = 1)
                      /\ predicted_taken(d) = (d.history[1] = 1)
    BY DEF AllocatesWhenWrong
  <2>1. PICK k \in DOMAIN wr_training_data : d = wr_training_data[k]
    BY DEF Range
  <2>2. /\ d \in TrainingData /\ d.prediction \in 0..3
        /\ d.state = Saturate(d.prediction, Last(pattern) = 1)
        /\ d.history[1] = d.prediction \div 2
    <3>1. d \in TrainingData
      BY <1>1, <2>1 DEF IInv, Shape
    <3>2. d.prediction \in 0..3
      BY <3>1 DEF TrainingData
    <3>3. /\ d.state = Saturate(d.prediction, Last(pattern) = 1)
          /\ d.history[1] = d.prediction \div 2
      BY <1>1, <2>1, Zenon DEF IInv, Directions
    <3> QED
      BY <3>1, <3>2, <3>3
  <2>3. actual_taken(d) <=> Last(pattern) = 1
    <3>1. (Last(pattern) = 1) \in BOOLEAN
      OBVIOUS
    <3> QED
      BY <2>2, <3>1, DirectionRecovered DEF actual_taken
  <2>4. predicted_taken(d) <=> d.history[1] = 1
    BY <2>2 DEF predicted_taken
  <2>5. actual_taken(d) \in BOOLEAN /\ predicted_taken(d) \in BOOLEAN
    BY DEF actual_taken, predicted_taken
  <2> QED
    BY <2>3, <2>4, <2>5
<1> QED
  BY <1>1, Inductive, PTL

-----------------------------------------------------------------------------
(* While the tables are cleared, the rows below the counter are.           *)
Reset(i) == bht_base[i] = 1 /\ \A t \in Tables : ~bht_tagged[t][i].valid

Swept ==
  rg_initialize =>
    \A k \in Nat : k < rg_bht_index => Reset(BitsOf(k, INDEX_BITS))

LEMMA RowCleared ==
  ASSUME TypeOK, Shape, rl_initialize, NEW i \in Bits(INDEX_BITS),
         Reset(i) \/ i = BitsOf(rg_bht_index, INDEX_BITS)
  PROVE  Reset(i)'
<1> DEFINE j == BitsOf(rg_bht_index, INDEX_BITS)
           r(t) == Row(t, [state |-> 1, valid |-> FALSE])
<1>1. /\ bht_base' = [bht_base EXCEPT ![j] = 1]
      /\ bht_tagged' = [t \in Tables |-> [bht_tagged[t] EXCEPT ![j] = r(t)]]
  BY DEF rl_initialize
<1>2. \A t \in Tables : ~r(t).valid
  BY DEF Row
<1>3. bht_base \in [Bits(INDEX_BITS) -> 0..3]
  BY DEF TypeOK
<1> HIDE DEF j, r
<1>4. bht_base'[i] = IF i = j THEN 1 ELSE bht_base[i]
  BY <1>1, <1>3
<1> DEFINE R == [state : 0..3, tag : Seq({0, 1}), valid : BOOLEAN]
<1>5. bht_tagged \in [Tables -> [Bits(INDEX_BITS) -> R]]
  BY DEF Shape
<1> HIDE DEF R
<1>6. \A t \in Tables : bht_tagged'[t][i] = IF i = j THEN r(t) ELSE bht_tagged[t][i]
  BY <1>1, <1>5
<1> QED
  BY <1>2, <1>4, <1>6 DEF Reset, j

LEMMA SweptStep ==
  ASSUME IInv, Swept, NEW fetch \in BOOLEAN, NEW exec \in BOOLEAN, NEW flush \in Flushes,
         Cycle(fetch, exec, flush)
  PROVE  /\ Swept'
         /\ rg_initialize /\ ~rg_initialize' =>
              \A k \in 0..LastRow : Reset(BitsOf(k, INDEX_BITS))'
<1>1. TypeOK /\ Shape /\ Quiet /\ rg_bht_index \in 0..LastRow /\ LastRow \in Nat
  BY Sizes DEF IInv, TypeOK
<1>2. /\ rg_initialize' = (IF rg_initialize THEN ~LastCycle(rg_bht_index) ELSE fetch /\ rg_fence)
      /\ rg_bht_index' = IF rg_initialize THEN (rg_bht_index + 1) % (LastRow + 1)
                                          ELSE rg_bht_index
  BY DEF Cycle
<1>3. CASE ~rg_initialize
  <2>1. rg_bht_index' = 0
    BY <1>1, <1>2, <1>3 DEF Quiet
  <2>2. \A k \in Nat : ~(k < 0)
    OBVIOUS
  <2> QED
    BY <1>3, <2>1, <2>2 DEF Swept
<1>4. CASE rg_initialize
  <2>1. rl_initialize
    BY <1>1, <1>4, TablesSteps DEF Cycle, TablesStep
  <2>2. ASSUME NEW k \in Nat, k <= rg_bht_index PROVE Reset(BitsOf(k, INDEX_BITS))'
    <3>1. BitsOf(k, INDEX_BITS) \in Bits(INDEX_BITS)
      BY Sizes, BitsOfBits
    <3>2. Reset(BitsOf(k, INDEX_BITS)) \/ BitsOf(k, INDEX_BITS) = BitsOf(rg_bht_index, INDEX_BITS)
      <4>1. k < rg_bht_index \/ k = rg_bht_index
        BY <1>1, <2>2
      <4> QED
        BY <1>4, <4>1 DEF Swept
    <3> QED
      BY <1>1, <2>1, <3>1, <3>2, RowCleared
  <2>3. CASE rg_bht_index = LastRow
    <3>1. ~rg_initialize'
      BY <1>2, <1>4, <2>3 DEF LastCycle
    <3>2. \A k \in 0..LastRow : k \in Nat /\ k <= rg_bht_index
      BY <1>1, <2>3
    <3> QED
      BY <2>2, <3>1, <3>2 DEF Swept
  <2>4. CASE rg_bht_index # LastRow
    <3>1. rg_initialize' /\ rg_bht_index' = rg_bht_index + 1
      BY <1>1, <1>2, <1>4, <2>4, RowCounter DEF LastCycle
    <3>2. \A k \in Nat : k < rg_bht_index + 1 => k <= rg_bht_index
      BY <1>1
    <3> QED
      BY <2>2, <3>1, <3>2 DEF Swept
  <2> QED
    BY <2>3, <2>4
<1> QED
  BY <1>3, <1>4

LEMMA SweptKept == IInv /\ Swept /\ [Next]_vars => Swept'
<1> SUFFICES ASSUME IInv, Swept, [Next]_vars PROVE Swept'
  OBVIOUS
<1>1. CASE UNCHANGED vars
  BY <1>1 DEF vars, tableVars, Swept, Reset
<1>2. CASE Next
  BY <1>2, SweptStep DEF Next
<1> QED
  BY <1>1, <1>2

(* When the predictor answers again, everything it knew is gone: each row  *)
(* of each table has a number that the counter has passed.                 *)
THEOREM Forgets == Spec => ForgetsAtFence
<1> DEFINE Done ==
      rg_initialize /\ ~rg_initialize' =>
        /\ \A s \in Sets : \A w \in Ways : ~btb_tag'[s][w].valid
        /\ \A i \in Bits(INDEX_BITS) :
             bht_base'[i] = 1 /\ \A t \in Tables : ~bht_tagged'[t][i].valid
        /\ rg_ghr' = Zeros(MAX_HISTLEN)
<1>1. Init => Swept
  BY DEF Init, Swept
<1>2. ASSUME IInv, Swept, Next, rg_initialize, ~rg_initialize'
      PROVE  /\ \A s \in Sets : \A w \in Ways : ~btb_tag'[s][w].valid
             /\ \A i \in Bits(INDEX_BITS) :
                  bht_base'[i] = 1 /\ \A t \in Tables : ~bht_tagged'[t][i].valid
             /\ rg_ghr' = Zeros(MAX_HISTLEN)
  <2>1. PICK fetch \in BOOLEAN, exec \in BOOLEAN, flush \in Flushes : Cycle(fetch, exec, flush)
    BY <1>2 DEF Next
  <2>2. TypeOK /\ Shape
    BY <1>2 DEF IInv
  <2>3. rl_initialize
    BY <1>2, <2>1, <2>2, TablesSteps DEF Cycle, TablesStep
  <2>4. \A s \in Sets : \A w \in Ways : ~btb_tag'[s][w].valid
    BY <2>2, <2>3, ClearKeepsBuffer
  <2>5. ASSUME NEW i \in Bits(INDEX_BITS)
        PROVE  bht_base'[i] = 1 /\ \A t \in Tables : ~bht_tagged'[t][i].valid
    <3>1. PICK k \in 0..LastRow : BitsOf(k, INDEX_BITS) = i
      BY Sizes, EveryRowHasANumber DEF LastRow
    <3>2. Reset(BitsOf(k, INDEX_BITS))'
      BY <1>2, <2>1, SweptStep
    <3> QED
      BY <3>1, <3>2 DEF Reset
  <2>6. rg_ghr' = Zeros(MAX_HISTLEN)
    BY <1>2, <2>1, Zenon DEF Cycle, NextHistory
  <2> QED
    BY <2>4, <2>5, <2>6
<1>3. IInv /\ Swept /\ [Next]_vars => [Done]_vars
  BY <1>2
<1> QED
  BY <1>1, <1>3, Inductive, SweptKept, PTL DEF Spec, ForgetsAtFence
=============================================================================
