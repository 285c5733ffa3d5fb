---------------------------- MODULE UTageInFlight ----------------------------
(***************************************************************************)
(* The micro-TAGE predictor in hardware (u_tage.bsv) between the stage     *)
(* that asks it (stage0.bsv) and the one that corrects it (stage3.bsv), a  *)
(* clock cycle per step.  Several predictions are under way at a time, a   *)
(* branch trains the tables in the cycle after it is executed, and fence.i *)
(* clears them row by row.  The build without compressed instructions and  *)
(* without a return address stack.                                         *)
(***************************************************************************)
EXTENDS TargetBuffer, BitVectors

CONSTANTS
  HIST_LENS,    (* length of the history each tagged table uses            *)
  TAG_WIDTHS,   (* width of the tags of each tagged table                  *)
  INDEX_BITS,   (* log2 of bhtdepth                                        *)
  IN_FLIGHT,    (* instructions between stage 0 and stage 3                *)
  Codes,        (* the programs: address to [ci, target]                   *)
  Patterns,     (* what the branches do, repeated for ever                 *)
  PowerUp       (* rows the register files may hold before the first fence *)

Tables  == 1 .. 3
Longest == 3
MAX_HISTLEN == HIST_LENS[Longest]
LastRow     == 2 ^ INDEX_BITS - 1
Plain       == [ci |-> "none", target |-> 0]

ASSUME HardwareAssumption ==
  /\ HIST_LENS \in [Tables -> Nat \ {0}]
  /\ \A i, j \in Tables : i < j => HIST_LENS[i] <= HIST_LENS[j]
  /\ TAG_WIDTHS \in [Tables -> 1 .. MAX_HISTLEN]
  /\ INDEX_BITS \in 1 .. MAX_HISTLEN
  /\ IN_FLIGHT \in Nat \ {0, 1}
  /\ \A code \in Codes : \A pc \in DOMAIN code :
       /\ pc \in Nat /\ pc % 4 = 0
       /\ code[pc].ci \in {"none", "Branch", "JAL"}
       /\ code[pc].target \in DOMAIN code
  /\ Patterns \subseteq Seq({0, 1}) \ {<<>>}
  /\ PowerUp \subseteq [state : 0 .. 3, valid : BOOLEAN]

VARIABLES
  bht_base, bht_tagged,       (* the tables, with one bank                 *)
  rg_ghr, rg_initialize, rg_bht_index,
  rg_pc, rg_fence,            (* of stage 0                                *)
  in_flight,                  (* what stage 0 has sent and stage 3 not had *)
  wr_training_data,           (* of stage 3: <<>> or <<data>>              *)
  retiring,                   (* an instruction is past stage 3            *)
  code, pattern,              (* the program and what its branches do next *)
  outcomes                    (* history: what the branches found in the   *)
                              (* buffer did, since the last trap           *)

tableVars == <<btbVars, ras, bht_base, bht_tagged>>
vars == <<tableVars, rg_ghr, rg_initialize, rg_bht_index, rg_pc, rg_fence,
          in_flight, wr_training_data, retiring, code, pattern, outcomes>>

Insn(pc) == IF pc \in DOMAIN code THEN code[pc] ELSE Plain
Row(t, r) == [state |-> r.state, tag |-> Zeros(TAG_WIDTHS[t]), valid |-> r.valid]

(* The register files have no reset value.                                 *)
Init ==
  /\ InitBuffer
  /\ \E r \in PowerUp :
       /\ bht_base = [i \in Bits(INDEX_BITS) |-> r.state]
       /\ bht_tagged = [t \in Tables |-> [i \in Bits(INDEX_BITS) |-> Row(t, r)]]
  /\ rg_ghr = Zeros(MAX_HISTLEN)
  /\ rg_initialize = FALSE
  /\ rg_bht_index = 0
  /\ code \in Codes
  /\ rg_pc \in DOMAIN code
  /\ rg_fence = FALSE
  /\ in_flight = <<>>
  /\ wr_training_data = <<>>
  /\ retiring = FALSE
  /\ pattern \in Patterns
  /\ outcomes = rg_ghr

-----------------------------------------------------------------------------
(* Indices and tags: a table takes the last, oldest bits of the history.   *)
masked_h(h, t) == SubSeq(h, Len(h) - HIST_LENS[t] + 1, Len(h))

fn_get_index(h, pc, t) ==
  IF t = 0 THEN BitsOf(pc \div 4, INDEX_BITS)
           ELSE Xor(BitsOf(pc \div 4, INDEX_BITS),
                    Fold(masked_h(h, t), INDEX_BITS, INDEX_BITS))

fn_get_tag(h, pc, t) ==
  Xor(BitsOf(pc \div 8, TAG_WIDTHS[t]),
      Fold(masked_h(h, t), TAG_WIDTHS[t], TAG_WIDTHS[t]))

Provider(h, pc) ==
  LET hits == {t \in Tables : LET e == bht_tagged[t][fn_get_index(h, pc, t)]
                              IN e.valid /\ e.tag = fn_get_tag(h, pc, t)}
  IN IF hits = {} THEN 0 ELSE CHOOSE t \in hits : \A u \in hits : t >= u

StateOf(t, index) == IF t = 0 THEN bht_base[index] ELSE bht_tagged[t][index].state

(* What mav_prediction_response answers for rg_pc, with the next pc that   *)
(* stage 0 makes of it.                                                    *)
Response ==
  LET hit    == BufferHit(rg_pc)
      e      == HitEntry(rg_pc)
      branch == hit /\ e.ci = "Branch"
      t      == Provider(rg_ghr, rg_pc)
      state  == CASE branch -> StateOf(t, fn_get_index(rg_ghr, rg_pc, t))
                  [] hit /\ ~branch -> 3
                  [] OTHER -> 1
  IN [pc |-> rg_pc, btbhit |-> hit, branch |-> branch, prediction |-> state,
      history |-> IF branch THEN ShiftIn(state \div 2, rg_ghr) ELSE rg_ghr,
      nextpc |-> IF hit /\ state \div 2 = 1 THEN e.target ELSE rg_pc + 4]

-----------------------------------------------------------------------------
(* rl_exe_base_control for the instruction x at the head, when the next    *)
(* instruction is known: where it goes, and whether the pipe went there.   *)
Goes(x) ==
  LET i == Insn(x.pc)
  IN IF i.ci = "JAL" \/ (i.ci = "Branch" /\ pattern[1] = 1) THEN i.target ELSE x.pc + 4

Redirection(x) ==
  CASE Insn(x.pc).ci = "Branch" -> pattern[1] # x.prediction \div 2
    [] Insn(x.pc).ci = "JAL"    -> in_flight[2].pc # Goes(x)
    [] OTHER                    -> FALSE

(* The field prediction is not in Training_data; only a property reads it. *)
Training(x) ==
  [pc |-> x.pc, target |-> Insn(x.pc).target, ci |-> Insn(x.pc).ci,
   btbhit |-> x.btbhit, history |-> x.history, prediction |-> x.prediction,
   state |-> IF Insn(x.pc).ci = "Branch" THEN Saturate(x.prediction, pattern[1] = 1) ELSE 3]

(* ma_mispredict: the history that came with the prediction, corrected.    *)
RestoredUnflipped(x) == x.history   (* mutant: the wrong direction is kept *)

Restored(x) ==
  IF x.btbhit /\ Insn(x.pc).ci = "Branch" THEN NegateNewest(x.history) ELSE x.history

(* ma_train_bpu.  The provider is looked for again, in the tables as they  *)
(* are now, and the direction the branch took is guessed from the counter  *)
(* it holds now and the one that execute has computed.                     *)
OriginalState(d) ==
  LET h == ShiftLeft(d.history, 1)
      t == Provider(h, d.pc)
  IN StateOf(t, fn_get_index(h, d.pc, t))

actual_taken_strict(d) == d.state > OriginalState(d)   (* mutant: a full counter does not grow *)
actual_taken(d)        == d.state > OriginalState(d) \/ d.state = 3
predicted_taken(d)     == OriginalState(d) \div 2 = 1

ma_train_bpu(d) ==
  LET h      == ShiftLeft(d.history, 1)
      t      == Provider(h, d.pc)
      i      == fn_get_index(h, d.pc, t)
      up     == t + 1
      set    == IF t = 0 THEN bht_tagged
                ELSE [bht_tagged EXCEPT ![t][i] =
                        [state |-> d.state, tag |-> fn_get_tag(h, d.pc, t), valid |-> TRUE]]
      new    == [state |-> IF actual_taken(d) THEN 2 ELSE 1, tag |-> fn_get_tag(h, d.pc, up),
                 valid |-> TRUE]
  IN /\ TrainBuffer(d.pc, d.target, d.ci, FALSE)
     /\ UNCHANGED ras
     /\ IF d.ci # "Branch" \/ ~d.btbhit THEN UNCHANGED <<bht_base, bht_tagged>>
        ELSE /\ bht_base' = IF t = 0 THEN [bht_base EXCEPT ![i] = d.state] ELSE bht_base
             /\ bht_tagged' = IF predicted_taken(d) # actual_taken(d) /\ t < Longest
                              THEN [set EXCEPT ![up][fn_get_index(h, d.pc, up)] = new]
                              ELSE set

(* rl_initialize: the whole buffer and one row of every table a cycle.     *)
LastCycleEarly(row) == row = LastRow - 1   (* mutant: stops before the last row *)
LastCycleNever(row) == row = LastRow + 1   (* mutant: beyond the counter's width *)
LastCycle(row)      == row = LastRow

rl_initialize ==
  LET i == BitsOf(rg_bht_index, INDEX_BITS)
  IN /\ btb_tag' = [s \in Sets |-> [w \in Ways |-> [tag |-> 0, valid |-> FALSE]]]
     /\ allocate_ptr' = [s \in Sets |-> 0]
     /\ bht_base' = [bht_base EXCEPT ![i] = 1]
     /\ bht_tagged' = [t \in Tables |-> [bht_tagged[t] EXCEPT ![i] =
                         Row(t, [state |-> 1, valid |-> FALSE])]]
     /\ UNCHANGED <<btb_entry, ras>>

-----------------------------------------------------------------------------
NoFlush == [on |-> FALSE, fence |-> FALSE, pc |-> 0]
Flushes == {NoFlush} \cup [on : {TRUE}, fence : BOOLEAN, pc : DOMAIN code]

CanFetch == ~rg_initialize /\ Len(in_flight) < IN_FLIGHT

CanExecute ==
  /\ in_flight # <<>>
  /\ Insn(Head(in_flight).pc).ci # "none" => Len(in_flight) > 1

(* In a cycle the port of rg_ghr that a repair or rl_initialize writes     *)
(* shadows the one a prediction writes, a redirection shadows the next pc  *)
(* that stage 0 computes, and a flush by stage 5 shadows both.             *)
NextHistory(fetch, exec) ==
  CASE rg_initialize -> Zeros(MAX_HISTLEN)
    [] ~rg_initialize /\ exec /\ Redirection(Head(in_flight)) -> Restored(Head(in_flight))
    [] OTHER -> IF fetch /\ ~rg_fence THEN Response.history ELSE rg_ghr

NextPC(fetch, exec, flush) ==
  CASE flush.on -> flush.pc
    [] ~flush.on /\ exec /\ Redirection(Head(in_flight)) -> Goes(Head(in_flight))
    [] OTHER -> IF fetch /\ ~rg_fence THEN Response.nextpc ELSE rg_pc

(* What a change of epoch makes stages 1 to 3 drop is gone at once.        *)
NextInFlightKept(fetch, exec, flush) ==   (* mutant: a flush by stage 5 drops nothing *)
  IF exec /\ Redirection(Head(in_flight)) THEN <<>>
  ELSE (IF exec THEN Tail(in_flight) ELSE in_flight) \o
       (IF fetch /\ ~rg_fence THEN <<Response>> ELSE <<>>)

NextInFlight(fetch, exec, flush) ==
  IF flush.on \/ (exec /\ Redirection(Head(in_flight))) THEN <<>>
  ELSE (IF exec THEN Tail(in_flight) ELSE in_flight) \o
       (IF fetch /\ ~rg_fence THEN <<Response>> ELSE <<>>)

NextFenceLost(fetch, flush) == rg_fence /\ ~fetch /\ ~flush.on   (* mutant *)
NextFence(fetch, flush) == IF flush.on THEN flush.fence ELSE rg_fence /\ ~fetch

NextOutcomes(exec, flush) ==
  CASE rg_initialize \/ flush.on -> rg_ghr'
    [] ~rg_initialize /\ ~flush.on /\ exec /\ Head(in_flight).branch ->
         ShiftIn(pattern[1], outcomes)
    [] OTHER -> outcomes

(* A cycle in which stage 0 and stage 3 fire or not and stage 5 flushes or *)
(* not.  The program may have been overwritten when a fence.i flushes.     *)
Cycle(fetch, exec, flush) ==
  /\ fetch => CanFetch
  /\ exec => CanExecute
  /\ flush.on => retiring
  /\ CASE rg_initialize -> rl_initialize
       [] ~rg_initialize /\ wr_training_data # <<>> -> ma_train_bpu(wr_training_data[1])
       [] OTHER -> UNCHANGED tableVars
  /\ rg_initialize' = IF rg_initialize THEN ~LastCycle(rg_bht_index) ELSE fetch /\ rg_fence
  /\ rg_bht_index' = IF rg_initialize THEN (rg_bht_index + 1) % (LastRow + 1)
                                      ELSE rg_bht_index
  /\ rg_ghr' = NextHistory(fetch, exec)
  /\ rg_fence' = NextFence(fetch, flush)
  /\ rg_pc' = NextPC(fetch, exec, flush)
  /\ in_flight' = NextInFlight(fetch, exec, flush)
  /\ LET x == Head(in_flight)
         control == exec /\ Insn(x.pc).ci # "none"
     IN /\ wr_training_data' = IF control THEN <<Training(x)>> ELSE <<>>
        /\ pattern' = IF control /\ Insn(x.pc).ci = "Branch"
                      THEN Append(Tail(pattern), Head(pattern)) ELSE pattern
  /\ retiring' = (~flush.on /\ (exec \/ retiring))
  /\ IF flush.fence THEN code' \in Codes ELSE UNCHANGED code
  /\ outcomes' = NextOutcomes(exec, flush)

Next == \E fetch, exec \in BOOLEAN : \E flush \in Flushes : Cycle(fetch, exec, flush)

Spec == Init /\ [][Next]_vars

(* The stages do not all stand still for ever.  Some step is possible in   *)
(* every state, so that this says what WF_vars(Next) would; stage 0 needs  *)
(* no more, for after a flush nothing else can move before it fetches.     *)
FairSpec == Spec /\ []<><<TRUE>>_vars

-----------------------------------------------------------------------------
(* Type correctness: counters stay in two bits and rows in the tables,     *)
(* while stale counters are written back to tables that have moved on.     *)
TypeOK ==
  /\ BufferTypeOK
  /\ bht_base \in [Bits(INDEX_BITS) -> 0 .. 3]
  /\ \A t \in Tables : \A i \in Bits(INDEX_BITS) :
       bht_tagged[t][i] \in [state : 0 .. 3, tag : Bits(TAG_WIDTHS[t]), valid : BOOLEAN]
  /\ rg_ghr \in Bits(MAX_HISTLEN)
  /\ rg_bht_index \in 0 .. LastRow
  /\ Len(in_flight) <= IN_FLIGHT /\ Len(wr_training_data) <= 1
  /\ rg_initialize \in BOOLEAN /\ rg_fence \in BOOLEAN /\ retiring \in BOOLEAN

(* The history is what the branches in the buffer have done, then the      *)
(* predictions under way, each shifted in by one branch: every instruction *)
(* carries the history it left, and rg_ghr is that of the newest, however  *)
(* repairs meet new predictions (rg_ghr has two ports for that).  Only a   *)
(* trap leaves the predictions of dropped instructions in it.              *)
HistoryBefore(k) == IF k = 1 THEN outcomes ELSE in_flight[k - 1].history

HistoryFollowsPath ==
  /\ \A k \in DOMAIN in_flight : LET x == in_flight[k] IN
       x.history = IF x.branch THEN ShiftIn(x.prediction \div 2, HistoryBefore(k))
                               ELSE HistoryBefore(k)
  /\ rg_ghr = HistoryBefore(Len(in_flight) + 1)

(* A predictor that clears itself refuses training and repairs; there are  *)
(* none to refuse, since fence.i waits for everything before it and drops  *)
(* everything after it.                                                    *)
NothingRefused == rg_initialize => in_flight = <<>> /\ wr_training_data = <<>>

(* "Non-branch instructions could be treated as predicted taken leading to *)
(* wrong behavior" if entries outlived the program they were made for:     *)
(* what hits in the buffer is a control transfer of the program as it is   *)
(* now, and of the kind the buffer says.                                   *)
HitsAreControl ==
  \A k \in DOMAIN in_flight : LET x == in_flight[k] IN
    x.btbhit => /\ Insn(x.pc).ci # "none"
                /\ x.branch = (Insn(x.pc).ci = "Branch")

(* The direction a branch took is recovered from two counters, also at the *)
(* ends of their range, so that a longer table is given an entry exactly   *)
(* when the branch was mispredicted -- as long as its counter is the one   *)
(* it was predicted from (section 5 of README.md says what follows if not).*)
AllocatesWhenWrong ==
  \A d \in Range(wr_training_data) :
    d.ci = "Branch" /\ d.btbhit /\ OriginalState(d) = d.prediction =>
      /\ actual_taken(d) = (Last(pattern) = 1)
      /\ predicted_taken(d) = (d.history[1] = 1)

(* When the predictor answers again after fence.i, all of it is reset:     *)
(* every row, the history and the buffer, with nothing trained meanwhile.  *)
ForgetsAtFence ==
  [][rg_initialize /\ ~rg_initialize' =>
       /\ \A s \in Sets : \A w \in Ways : ~btb_tag'[s][w].valid
       /\ \A i \in Bits(INDEX_BITS) :
            bht_base'[i] = 1 /\ \A t \in Tables : ~bht_tagged'[t][i].valid
       /\ rg_ghr' = Zeros(MAX_HISTLEN)]_vars

(* After a fence.i instructions are fetched again.                         *)
FetchResumes == rg_fence ~> in_flight # <<>>
=============================================================================
