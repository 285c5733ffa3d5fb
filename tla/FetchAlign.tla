----------------------------- MODULE FetchAlign -----------------------------
(***************************************************************************)
(* Fetch on a core with compressed: stage0 asks the I-cache for aligned    *)
(* words along the predicted path, stage1 cuts instructions of 16 and 32   *)
(* bits out of them and gives each its prediction.  The predictor has one  *)
(* entry for a word, of an instruction in its lower or its upper half; a   *)
(* 32-bit instruction may lie across two words.                            *)
(*                                                                         *)
(* Addresses count half-words.  The I-cache and the rest of the pipeline   *)
(* are the environment: words are answered in order, any of them may       *)
(* fault, and execute or write-back redirect the path because of an        *)
(* instruction that was handed to them.                                    *)
(***************************************************************************)
EXTENDS Naturals, Sequences

CONSTANTS
  HALVES, Long, Start, Targets,   (* the code, as in FetchStream           *)
  Jumps,     (* the control instructions that are always predicted taken   *)
  D01        (* isb_s0s1                                                   *)

Half == 0 .. HALVES - 1
NoPC == HALVES

plus(h, n) == (h + n) % HALVES
WordOf(h)  == h - (h % 2)
Size(h)    == IF Long[h] THEN 2 ELSE 1

(* Instructions follow each other, without gaps and without overlap, and   *)
(* predicted targets are instructions.                                     *)
ASSUME CodeAssumption ==
  /\ HALVES \in Nat /\ HALVES % 2 = 0
  /\ Long \in [Half -> BOOLEAN]
  /\ Start \subseteq Half /\ Start # {}
  /\ Targets \in [Half -> SUBSET Start]
  /\ \A h \in Start : plus(h, Size(h)) \in Start
  /\ \A h \in Start : Long[h] => plus(h, 1) \notin Start
  /\ \A h \in Half \ Start : Targets[h] = {}

(* isb_s0s1 has at least two places, as in all sample configurations.       *)
ASSUME DepthAssumption == D01 \in Nat \ {0, 1}

VARIABLES
  rg_pc,                (* stage0: the address fetched next                *)
  rg_delayed_redirect,  (* stage0: target to go to after the next word     *)
  rg_fence,             (* stage0: a fence is still to be sent             *)
  epochs,               (* the execute and write-back epochs               *)
  pipe0,                (* words requested and not yet taken by stage1     *)
  rg_action,            (* stage1: whether rg_prev is to be looked at      *)
  rg_prev,              (* stage1: the upper half of an earlier word       *)
  rg_receiving_upper,   (* stage1: the next word starts with a second half *)
  sent,                 (* history: what was handed on last, or redirected *)
  spoiled,              (* history: a word of this path has faulted        *)
  trapped,              (* history: an instruction of it carries a fault   *)
  inflight              (* what may redirect: execute and write-back       *)
                        (* ("current"), write-back only ("older"), none    *)

stage0Vars == <<rg_pc, rg_delayed_redirect, rg_fence>>
vars == <<stage0Vars, epochs, pipe0, rg_action, rg_prev, rg_receiving_upper,
          sent, spoiled, trapped, inflight>>

(* A BTB response: the control instruction it is of (NoPC on a miss), in   *)
(* which half that lies and whether in 16 bits, and what is predicted.     *)
NoHit == [of |-> NoPC, hi |-> FALSE, instr16 |-> FALSE, taken |-> FALSE, target |-> NoPC]

(* mav_prediction_response: any control instruction of the word may be in  *)
(* the BTB; the lower one is not predicted for a pc behind it.             *)
Responses(pc) ==
  {NoHit} \cup
  {b \in [of : {h \in Half : WordOf(h) = WordOf(pc) /\ Targets[h] # {}},
          hi : BOOLEAN, instr16 : BOOLEAN, taken : BOOLEAN, target : Start] :
     /\ b.hi = (b.of % 2 = 1)
     /\ b.instr16 = ~Long[b.of]
     /\ b.target \in Targets[b.of]
     /\ IF b.of < pc THEN ~b.taken ELSE b.of \in Jumps => b.taken}

-----------------------------------------------------------------------------
Init ==
  /\ rg_pc \in Start
  /\ rg_delayed_redirect = NoPC
  /\ rg_fence = FALSE
  /\ epochs = <<0, 0>>
  /\ pipe0 = <<>>
  /\ rg_action = "None"
  /\ rg_prev = [pc |-> 0, half |-> [at |-> 1, long |-> FALSE, bad |-> FALSE],
                ep |-> <<0, 0>>, btb |-> NoHit]
  /\ rg_receiving_upper = FALSE
  /\ sent = [kind |-> "redirect", at |-> <<rg_pc>>, taken |-> FALSE]
  /\ spoiled = FALSE
  /\ trapped = FALSE
  /\ inflight = "none"

(* A 32-bit instruction in the upper half that is predicted taken: its     *)
(* second half has to be fetched before its target.                        *)
EdgecaseNever(b) == FALSE   (* mutant: the target is fetched at once *)
Edgecase(b) == b.hi /\ ~b.instr16

(* rl_gen_next_pc                                                          *)
FetchNext ==
  /\ ~rg_fence
  /\ Len(pipe0) < D01
  /\ \E b \in Responses(rg_pc) :
       /\ pipe0' = Append(pipe0, [address |-> WordOf(rg_pc), discard |-> rg_pc % 2 = 1,
                                  ep |-> epochs, btb |-> b])
       /\ rg_pc' = IF rg_delayed_redirect # NoPC THEN rg_delayed_redirect
                   ELSE IF b.taken /\ ~Edgecase(b) THEN b.target
                   ELSE plus(WordOf(rg_pc), 2)
       /\ rg_delayed_redirect' =
            IF rg_delayed_redirect = NoPC /\ b.taken /\ Edgecase(b) THEN b.target ELSE NoPC
  /\ UNCHANGED <<rg_fence, epochs, rg_action, rg_prev, rg_receiving_upper,
                 sent, spoiled, trapped, inflight>>

(* A fence goes to the cache alone; the pc is fetched afterwards.          *)
FetchFence ==
  /\ rg_fence
  /\ rg_fence' = FALSE
  /\ rg_delayed_redirect' = NoPC
  /\ UNCHANGED <<rg_pc, epochs, pipe0, rg_action, rg_prev, rg_receiving_upper,
                 sent, spoiled, trapped, inflight>>

-----------------------------------------------------------------------------
(* stage1: process_instruction on the word at the head of pipe0.           *)
x0 == Head(pipe0)

(* What the I-cache may answer: the two halves, or a fault and anything.   *)
Answers ==
  LET lo == x0.address
      hi == plus(x0.address, 1)
  IN {[trap |-> FALSE, lo |-> [at |-> lo, long |-> Long[lo], bad |-> FALSE],
                       hi |-> [at |-> hi, long |-> Long[hi], bad |-> FALSE]]} \cup
     {[trap |-> TRUE, lo |-> [at |-> lo, long |-> l, bad |-> TRUE],
                      hi |-> [at |-> hi, long |-> h, bad |-> TRUE]] : l, h \in BOOLEAN}

Current == pipe0 # <<>> /\ x0.ep = epochs
HeldIsCurrent == rg_action = "CheckPrev" /\ rg_prev.ep = epochs

(* A response that is not of this instruction is replaced by a miss.       *)
ClearedNever(b, clear) == b   (* mutant: the response is passed on as it is *)
Cleared(b, clear) == IF clear THEN [b EXCEPT !.of = NoPC, !.taken = FALSE] ELSE b

Deq == pipe0' = Tail(pipe0)

Hold(half, b) ==
  rg_prev' = [pc |-> x0.address, half |-> half, ep |-> epochs, btb |-> b]

Send(halves, b, w, trap) ==
  /\ sent' = [kind |-> "instr", at |-> [i \in DOMAIN halves |-> halves[i].at],
              taken |-> b.taken, of |-> b.of, bad |-> [i \in DOMAIN halves |-> halves[i].bad],
              trap |-> trap, upper_err |-> rg_receiving_upper /\ w.trap,
              clean |-> ~spoiled, behind |-> trapped]
  /\ trapped' = (trapped \/ trap)
  /\ inflight' = IF trap /\ inflight # "current" THEN "older" ELSE "current"

Unchanged0 == UNCHANGED <<stage0Vars, epochs>>

DropWordUnmarked ==   (* mutant: the register is left as it is *)
  /\ pipe0 # <<>> /\ x0.ep # epochs
  /\ Deq
  /\ rg_action' = "None"
  /\ rg_prev' = [rg_prev EXCEPT !.ep = epochs]
  /\ UNCHANGED <<rg_receiving_upper, sent, spoiled, trapped, inflight>>
  /\ Unchanged0

DropWord ==
  /\ pipe0 # <<>> /\ x0.ep # epochs
  /\ Deq
  /\ rg_action' = "None"
  /\ rg_receiving_upper' = FALSE
  /\ rg_prev' = [rg_prev EXCEPT !.ep = epochs]
  /\ UNCHANGED <<sent, spoiled, trapped, inflight>>
  /\ Unchanged0

PassHeldTrap ==   (* mutant: a fault of the next word is taken for its own *)
  /\ Current /\ HeldIsCurrent /\ ~rg_prev.half.long
  /\ \E w \in Answers :
       Send(<<rg_prev.half>>, Cleared(rg_prev.btb, ~rg_prev.btb.hi), w, w.trap)
  /\ rg_action' = "None"
  /\ rg_receiving_upper' = FALSE
  /\ UNCHANGED <<pipe0, rg_prev, spoiled>>
  /\ Unchanged0

(* The half kept from the word before is an instruction of its own.  The   *)
(* word at the head is only looked at.                                     *)
PassHeld ==
  /\ Current /\ HeldIsCurrent /\ ~rg_prev.half.long
  /\ \E w \in Answers :
       Send(<<rg_prev.half>>, Cleared(rg_prev.btb, ~rg_prev.btb.hi), w, FALSE)
  /\ rg_action' = "None"
  /\ rg_receiving_upper' = FALSE
  /\ UNCHANGED <<pipe0, rg_prev, spoiled>>
  /\ Unchanged0

(* The half kept from the word before and the lower half of this one are   *)
(* an instruction; after a taken one the rest of the word is not wanted.   *)
JoinHalves ==
  /\ Current /\ HeldIsCurrent /\ rg_prev.half.long
  /\ LET b == Cleared(rg_prev.btb, ~rg_prev.btb.hi)
     IN \E w \in Answers :
          /\ Send(<<rg_prev.half, w.lo>>, b, w, w.trap)
          /\ Hold(w.hi, x0.btb)
          /\ rg_action' = IF b.taken THEN "None" ELSE rg_action
          /\ rg_receiving_upper' = ~b.taken
          /\ spoiled' = (spoiled \/ w.trap)
  /\ Deq
  /\ Unchanged0

(* The path enters the word in its upper half.                             *)
EntersUpper == Current /\ ~HeldIsCurrent /\ x0.discard

HoldUpperUnmarked ==   (* mutant: the register is left as it is *)
  /\ EntersUpper
  /\ \E w \in Answers :
       /\ w.hi.long
       /\ Hold(w.hi, x0.btb)
       /\ spoiled' = (spoiled \/ w.trap)
  /\ rg_action' = "CheckPrev"
  /\ Deq
  /\ UNCHANGED <<sent, trapped, inflight, rg_receiving_upper>>
  /\ Unchanged0

HoldUpper ==
  /\ EntersUpper
  /\ \E w \in Answers :
       /\ w.hi.long
       /\ Hold(w.hi, x0.btb)
       /\ spoiled' = (spoiled \/ w.trap)
  /\ rg_action' = "CheckPrev"
  /\ rg_receiving_upper' = TRUE
  /\ Deq
  /\ UNCHANGED <<sent, trapped, inflight>>
  /\ Unchanged0

PassUpper ==
  /\ EntersUpper
  /\ \E w \in Answers :
       /\ ~w.hi.long
       /\ Send(<<w.hi>>, Cleared(x0.btb, ~x0.btb.hi), w, w.trap)
       /\ spoiled' = (spoiled \/ w.trap)
  /\ rg_action' = "None"
  /\ rg_prev' = [rg_prev EXCEPT !.ep = epochs]
  /\ Deq
  /\ UNCHANGED rg_receiving_upper
  /\ Unchanged0

(* The path enters the word in its lower half.                             *)
EntersLower == Current /\ ~HeldIsCurrent /\ ~x0.discard

PassWord ==
  /\ EntersLower
  /\ \E w \in Answers :
       /\ w.lo.long
       /\ Send(<<w.lo, w.hi>>, x0.btb, w, w.trap)
       /\ spoiled' = (spoiled \/ w.trap)
  /\ rg_action' = "None"
  /\ rg_prev' = [rg_prev EXCEPT !.ep = epochs]
  /\ Deq
  /\ UNCHANGED rg_receiving_upper
  /\ Unchanged0

PassLower ==
  /\ EntersLower
  /\ LET leaves == ~x0.btb.hi /\ x0.btb.taken
     IN \E w \in Answers :
          /\ ~w.lo.long
          /\ Send(<<w.lo>>, Cleared(x0.btb, x0.btb.hi), w, w.trap)
          /\ Hold(w.hi, x0.btb)
          /\ rg_action' = IF leaves THEN "None" ELSE "CheckPrev"
          /\ rg_receiving_upper' = ~leaves
          /\ spoiled' = (spoiled \/ w.trap)
  /\ Deq
  /\ Unchanged0

-----------------------------------------------------------------------------
(* ma_flush and the epoch updates that come with it.  rl_gen_next_pc asks  *)
(* for a word in every cycle with room, so with two places for them one of *)
(* the path is always under way when an instruction redirects it.          *)
Redirect(flip, fence) ==
  /\ pipe0 # <<>>
  /\ epochs' = flip
  /\ \E t \in Start :
       /\ rg_pc' = t
       /\ sent' = [kind |-> "redirect", at |-> <<t>>, taken |-> FALSE]
  /\ rg_fence' = fence
  /\ rg_delayed_redirect' = NoPC
  /\ spoiled' = FALSE
  /\ trapped' = FALSE
  /\ UNCHANGED <<pipe0, rg_action, rg_prev, rg_receiving_upper>>

(* From execute, by an instruction of the current path.                    *)
ExeRedirect ==
  /\ inflight = "current"
  /\ inflight' = "older"
  /\ Redirect(<<1 - epochs[1], epochs[2]>>, FALSE)

(* From write-back, also by one that carries a fault or that execute has   *)
(* redirected behind.                                                      *)
WriteBackRedirect ==
  /\ inflight # "none"
  /\ inflight' = "none"
  /\ \E fence \in BOOLEAN : Redirect(<<epochs[1], 1 - epochs[2]>>, fence)

-----------------------------------------------------------------------------
Stage0 == FetchNext \/ FetchFence
HandOn == PassHeld \/ JoinHalves \/ PassUpper \/ PassWord \/ PassLower
Stage1 == DropWord \/ HoldUpper \/ HandOn

Next == Stage0 \/ Stage1 \/ ExeRedirect \/ WriteBackRedirect

Spec == Init /\ [][Next]_vars

-----------------------------------------------------------------------------
BTB == [of : Half \cup {NoPC}, hi : BOOLEAN, instr16 : BOOLEAN, taken : BOOLEAN,
        target : Half \cup {NoPC}]
Epoch == {0, 1} \X {0, 1}
Words == {h \in Half : h % 2 = 0}
Word == [address : Words, discard : BOOLEAN, ep : Epoch, btb : BTB]
HalfWord == [at : Half, long : BOOLEAN, bad : BOOLEAN]

TypeOK ==
  /\ rg_pc \in Half
  /\ rg_delayed_redirect \in Half \cup {NoPC}
  /\ rg_fence \in BOOLEAN
  /\ epochs \in Epoch
  /\ pipe0 \in Seq(Word) /\ Len(pipe0) <= D01
  /\ rg_action \in {"CheckPrev", "None"}
  /\ rg_prev \in [pc : Words, ep : Epoch, btb : BTB, half : HalfWord]
  /\ rg_receiving_upper \in BOOLEAN
  /\ sent.kind \in {"instr", "redirect"}
  /\ spoiled \in BOOLEAN /\ trapped \in BOOLEAN
  /\ inflight \in {"current", "older", "none"}

(* Where the path continues behind what has been handed on: with the half  *)
(* that is kept, else with the first word of the path that is in flight,   *)
(* else with the next fetch.                                               *)
Enters(x) == x.address + (IF x.discard THEN 1 ELSE 0)
Live      == {i \in DOMAIN pipe0 : pipe0[i].ep = epochs}

Continues ==
  CASE spoiled                      -> NoPC
    [] ~spoiled /\ HeldIsCurrent    -> rg_prev.half.at
    [] ~spoiled /\ ~HeldIsCurrent   ->
         IF Live = {} THEN rg_pc
         ELSE Enters(pipe0[CHOOSE i \in Live : \A j \in Live : i <= j])

(* The words, halves, epochs and delayed redirections together hand on the *)
(* instructions of the predicted path, whole and in order.                 *)
Stream == INSTANCE FetchStream WITH
            pc <- Continues,
            handed <- [kind |-> sent.kind, at |-> sent.at, taken |-> sent.taken]
ImplementsStream == Stream!Spec

Handed == sent.kind = "instr" /\ sent.clean

(* A BTB hit stays with the instruction whose entry it was: another one    *)
(* would train the entry and repair the history for it.                    *)
HitIsOwn == Handed /\ ~sent.trap /\ sent.of # NoPC => sent.of = sent.at[1]

(* What is handed on behind an instruction that carries a fault is         *)
(* discarded when that one traps.                                          *)
Counts == sent.kind = "instr" /\ ~sent.behind

(* A 32-bit instruction whose second half is in the next word.             *)
AcrossWords == Len(sent.at) = 2 /\ sent.at[1] % 2 = 1

(* Whatever was redirected, kept or dropped before: an instruction carries *)
(* a fault exactly if the word that completes it has faulted, and          *)
(* then upper_err exactly if it lies across two words: the fault of an     *)
(* instruction in one word is never taken for one of its second half.      *)
(* The fault of a first half that is kept is not in it: the next property. *)
FaultsReported ==
  Counts => /\ sent.trap <=> sent.bad[Len(sent.bad)]
            /\ sent.trap => (sent.upper_err <=> AcrossWords)

(* CHANGELOG: the "indication of whether a instruction-page-fault was due  *)
(* to the lower-16 bits or the upper-16 bits has been fixed".              *)
UpperErrIsUpper == Counts /\ sent.trap /\ sent.upper_err => ~sent.bad[1]
=============================================================================
