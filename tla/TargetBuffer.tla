---------------------------- MODULE TargetBuffer ----------------------------
(***************************************************************************)
(* The branch target buffer and the return address stack of the Python     *)
(* predictor models (gshare_sa_py_model.py; u_tage_py_model.py repeats it  *)
(* line by line).  The buffer is set associative, replaced round robin,    *)
(* and has one entry for the two halves of a word: pc and pc + 2 share an  *)
(* entry, whose field hi says which half trained it.                       *)
(***************************************************************************)
EXTENDS Integers, Sequences, SequencesExt

CONSTANTS
  BTB_SETS, BTB_WAYS,   (* a set is chosen by the low bits of the word address *)
  RAS_DEPTH

ASSUME SizeAssumption ==
  BTB_SETS \in Nat \ {0} /\ BTB_WAYS \in Nat \ {0} /\ RAS_DEPTH \in Nat

VARIABLES btb_entry, btb_tag, allocate_ptr, ras

btbVars == <<btb_entry, btb_tag, allocate_ptr>>

Sets == 0 .. BTB_SETS - 1
Ways == 0 .. BTB_WAYS - 1
ControlTypes == {"Branch", "JAL", "Call", "Ret"}
Entry == [target : Int, ci : ControlTypes, instr16 : BOOLEAN, hi : {0, 1}]

InitBuffer ==
  /\ btb_entry = [s \in Sets |-> [w \in Ways |->
       [target |-> 0, ci |-> "Branch", instr16 |-> FALSE, hi |-> 0]]]
  /\ btb_tag = [s \in Sets |-> [w \in Ways |-> [tag |-> 0, valid |-> FALSE]]]
  /\ allocate_ptr = [s \in Sets |-> 0]
  /\ ras = <<>>

btb_index(pc)     == (pc \div 4) % BTB_SETS
btb_tag_value(pc) == (pc \div 4) \div BTB_SETS
hi_val(pc)        == (pc \div 2) % 2

Matches(pc) ==
  {w \in Ways : LET t == btb_tag[btb_index(pc)][w]
                IN t.valid /\ t.tag = btb_tag_value(pc)}

BufferHit(pc) == Matches(pc) # {}

(* Both loops stop at the first way that matches.                          *)
HitWay(pc)   == CHOOSE w \in Matches(pc) : \A v \in Matches(pc) : w <= v
HitEntry(pc) == btb_entry[btb_index(pc)][HitWay(pc)]

-----------------------------------------------------------------------------
(* The part of predict that looks at the entry e found for pc.             *)
ras_push_offset(e, discard) ==
  CASE e.hi = 1 /\ discard -> 2
    [] e.hi = 1 /\ ~discard -> IF e.instr16 THEN 4 ELSE 6
    [] OTHER -> IF e.instr16 THEN 2 ELSE 4

StackAfter(e, pc, discard) ==
  CASE e.ci = "Call" /\ Len(ras) < RAS_DEPTH -> Append(ras, pc + ras_push_offset(e, discard))
    [] e.ci = "Ret" /\ ras # <<>>            -> Front(ras)
    [] OTHER                                 -> ras

PredictedTarget(e) ==
  IF e.ci = "Ret" /\ ras # <<>> THEN Last(ras) ELSE e.target

-----------------------------------------------------------------------------
(* The part of train that finds or allocates an entry.                     *)
TrainBufferByPointer(pc, target, ci, instr16) ==  (* mutant: no look-up first *)
  LET s == btb_index(pc)
      w == allocate_ptr[s]
  IN /\ btb_entry' = [btb_entry EXCEPT ![s][w] =
          [target |-> target, ci |-> ci, instr16 |-> instr16, hi |-> hi_val(pc)]]
     /\ btb_tag' = [btb_tag EXCEPT ![s][w] = [tag |-> btb_tag_value(pc), valid |-> TRUE]]
     /\ allocate_ptr' = [allocate_ptr EXCEPT ![s] = (w + 1) % BTB_WAYS]

TrainBufferKeepPointer(pc, target, ci, instr16) ==  (* mutant: the pointer stays *)
  LET s == btb_index(pc)
      w == IF BufferHit(pc) THEN HitWay(pc) ELSE allocate_ptr[s]
  IN /\ btb_entry' = [btb_entry EXCEPT ![s][w] =
          [target |-> target, ci |-> ci, instr16 |-> instr16, hi |-> hi_val(pc)]]
     /\ btb_tag' = [btb_tag EXCEPT ![s][w] = [tag |-> btb_tag_value(pc), valid |-> TRUE]]
     /\ UNCHANGED allocate_ptr

TrainBuffer(pc, target, ci, instr16) ==
  LET s == btb_index(pc)
      w == IF BufferHit(pc) THEN HitWay(pc) ELSE allocate_ptr[s]
  IN /\ btb_entry' = [btb_entry EXCEPT ![s][w] =
          [target |-> target, ci |-> ci, instr16 |-> instr16, hi |-> hi_val(pc)]]
     /\ IF BufferHit(pc)
        THEN UNCHANGED <<btb_tag, allocate_ptr>>
        ELSE /\ btb_tag' = [btb_tag EXCEPT ![s][w] =
                              [tag |-> btb_tag_value(pc), valid |-> TRUE]]
             /\ allocate_ptr' = [allocate_ptr EXCEPT ![s] = (w + 1) % BTB_WAYS]

-----------------------------------------------------------------------------
BufferTypeOK ==
  /\ btb_entry \in [Sets -> [Ways -> Entry]]
  /\ btb_tag \in [Sets -> [Ways -> [tag : Nat, valid : BOOLEAN]]]
  /\ allocate_ptr \in [Sets -> Ways]
  /\ ras \in Seq(Nat) /\ Len(ras) <= RAS_DEPTH

(* No address has two entries, so that the order of the search cannot      *)
(* matter: "only one entry is a hit in the entire BTB".                    *)
OneEntryPerWord ==
  \A s \in Sets : \A v, w \in Ways :
    /\ btb_tag[s][v].valid /\ btb_tag[s][w].valid
    /\ btb_tag[s][v].tag = btb_tag[s][w].tag
    => v = w

(* Nothing is evicted while its set has a free way.                        *)
EvictsOnlyWhenFull ==
  [][\A s \in Sets : \A w \in Ways :
       btb_tag[s][w].valid /\ btb_tag'[s][w] # btb_tag[s][w] =>
         \A v \in Ways : btb_tag[s][v].valid]_btbVars
=============================================================================
