------------------------ MODULE CorePipeline_proofs ------------------------
(***************************************************************************)
(* For every program and every depth of the buffers: the types of          *)
(* CorePipeline, the order in which its stages execute and commit, and     *)
(* that it implements InOrderISA.                                          *)
(*                                                                         *)
(* The argument.  In every buffer the stale entries come before the live   *)
(* ones, and the live entries of all buffers, read from write-back to      *)
(* fetch, are a path of the program that starts at arch and ends at rg_pc  *)
(* (Path).  A redirection flips an epoch only when its own instruction is  *)
(* live, and then everything behind it is live under the old value, so     *)
(* that nothing carries the new value and one bit is enough (Behind).      *)
(***************************************************************************)
EXTENDS CorePipeline, TLAPS

Some(q, c) == \E i \in 1..Len(q) : q[i].ep = c
All(q, c)  == \A i \in 1..Len(q) : q[i].ep = c

(* Stale entries of a buffer come before its live ones.                    *)
StaleFirst(q, c) ==
  \A i, j \in 1..Len(q) : i < j /\ q[i].ep = c => q[j].ep = c

(* The live entries of a buffer are a path that starts at x.               *)
PathFrom(q, c, x) ==
  \A i \in 1..Len(q) : q[i].ep = c =>
    q[i].pc = IF i = 1 \/ q[i - 1].ep # c THEN x ELSE q[i - 1].npc

Good(q, c, x) == StaleFirst(q, c) /\ PathFrom(q, c, x)

EpochsAgree ==
  /\ \A s \in 0..3 : eEpoch[s] = eEpoch[3]
  /\ \A s \in {0, 1, 2, 3, 5} : wEpoch[s] = wEpoch[5]

Path ==
  /\ Good(pipe4, wEpoch[5], arch)
  /\ Good(pipe3, wEpoch[5], Next4)
  /\ Good(pipe2, Epochs(3), Next3)
  /\ Good(pipe1, Epochs(3), Next2)
  /\ Good(pipe0, Epochs(3), Next1)
  /\ rg_pc = Next0

(* What is behind a live entry is live.                                    *)
OfWriteBack(q, w) == \A i \in 1..Len(q) : q[i].ep[2] = w

Behind ==
  /\ Some(pipe4, wEpoch[5]) => All(pipe3, wEpoch[5])
  /\ Some(pipe2, Epochs(3)) => All(pipe1, Epochs(3))
  /\ Some(pipe2, Epochs(3)) \/ Some(pipe1, Epochs(3)) => All(pipe0, Epochs(3))
  /\ Some(pipe4, wEpoch[5]) \/ Some(pipe3, wEpoch[5]) =>
       /\ OfWriteBack(pipe2, wEpoch[5])
       /\ OfWriteBack(pipe1, wEpoch[5])
       /\ OfWriteBack(pipe0, wEpoch[5])

(* A fence waits for the I-cache only while nothing live is in flight.     *)
FenceAlone ==
  rg_fence # "none" =>
    /\ ~Some(pipe4, wEpoch[5]) /\ ~Some(pipe3, wEpoch[5])
    /\ ~Some(pipe2, Epochs(3)) /\ ~Some(pipe1, Epochs(3)) /\ ~Some(pipe0, Epochs(3))

(* What fetch predicted, what decode made of it, what execute resolved.    *)
Predicted(x) == [npc |-> x.npc, taken |-> x.taken] \in Predictions(x.pc)
DecodedFrom(x) ==
  x.op \in {"TRAP", IF Kind[x.pc] = "WFI" THEN "ALU" ELSE Kind[x.pc]}
Resolved(x) ==
  /\ x.op # "TRAP" => x.npc \in ISA!Successors(x.pc)
  /\ x.op = "SYSTEM" => Kind[x.pc] \in System
  /\ Kind[x.pc] \in System => x.op \in {"SYSTEM", "TRAP"}

FetchedOK == {x \in Fetched : Predicted(x)}
DecodedOK == {x \in Decoded : Predicted(x) /\ DecodedFrom(x)}
IssuedOK  == {x \in Issued  : Resolved(x)}

Contents ==
  /\ pipe0 \in Seq(FetchedOK)
  /\ pipe1 \in Seq(FetchedOK)
  /\ pipe2 \in Seq(DecodedOK)
  /\ pipe3 \in Seq(IssuedOK)
  /\ pipe4 \in Seq(IssuedOK)

IInv == TypeOK /\ EpochsAgree /\ Path /\ Behind /\ FenceAlone /\ Contents
-----------------------------------------------------------------------------
(* A buffer that is dequeued or enqueued keeps its type and its bound.     *)
LEMMA QueueTypes ==
  ASSUME NEW S, NEW q \in Seq(S)
  PROVE  /\ q # <<>> => /\ Head(q) \in S
                        /\ Tail(q) \in Seq(S)
                        /\ Len(Tail(q)) = Len(q) - 1
         /\ \A y \in S : /\ Append(q, y) \in Seq(S)
                         /\ Len(Append(q, y)) = Len(q) + 1
         /\ Len(q) \in Nat
         /\ Len(q) = 0 <=> q = <<>>
  OBVIOUS

LEMMA Depths ==
  D01 \in Nat /\ D12 \in Nat /\ D34 \in Nat /\ D45 \in Nat
  BY DepthAssumption

LEMMA TypeInit == Init => TypeOK
<1> SUFFICES ASSUME Init PROVE TypeOK
  OBVIOUS
<1>1. <<>> \in Seq(Fetched) /\ <<>> \in Seq(Decoded) /\ <<>> \in Seq(Issued)
      /\ Len(<<>>) = 0
  OBVIOUS
<1>2. eEpoch \in [0..3 -> {0, 1}] /\ wEpoch \in [{0, 1, 2, 3, 5} -> {0, 1}]
  BY DEF Init
<1>3. event \in {"reset", "retire", "trap"} \X PC
  BY ProgramAssumption DEF Init
<1>4. /\ pipe0 \in Seq(Fetched) /\ Len(pipe0) <= D01
      /\ pipe1 \in Seq(Fetched) /\ Len(pipe1) <= D12
      /\ pipe2 \in Seq(Decoded) /\ Len(pipe2) <= 1
      /\ pipe3 \in Seq(Issued) /\ Len(pipe3) <= D34
      /\ pipe4 \in Seq(Issued) /\ Len(pipe4) <= D45
  BY <1>1, Depths DEF Init
<1>5. /\ rg_pc \in PC /\ epc \in PC /\ arch \in PC
      /\ rg_fence \in FenceRequests
      /\ rg_microtrap \in {"none"} \cup Causes
      /\ rg_stall \in BOOLEAN /\ rg_wfi \in BOOLEAN
  BY ProgramAssumption DEF Init, FenceRequests, Causes
<1>. QED
  BY <1>2, <1>3, <1>4, <1>5 DEF TypeOK

(* Flipping an epoch keeps its type.                                       *)
LEMMA FlipTypes ==
  /\ eEpoch \in [0..3 -> {0, 1}] => Flip(eEpoch) \in [0..3 -> {0, 1}]
  /\ wEpoch \in [{0, 1, 2, 3, 5} -> {0, 1}] =>
       Flip(wEpoch) \in [{0, 1, 2, 3, 5} -> {0, 1}]
  BY DEF Flip

LEMMA PredictionTypes ==
  ASSUME NEW a \in PC, NEW p \in Predictions(a)
  PROVE  p.npc \in PC /\ p.taken \in BOOLEAN
<1>1. CASE p = [npc |-> Fall[a], taken |-> FALSE]
  BY <1>1, ProgramAssumption
<1>2. CASE \E t \in Guess[a] : p = [npc |-> t, taken |-> TRUE]
  BY <1>2, ProgramAssumption
<1>. QED
  BY <1>1, <1>2 DEF Predictions

LEMMA HeadFields ==
  ASSUME TypeOK
  PROVE  /\ pipe2 # <<>> => Head(pipe2).pc \in PC /\ Head(pipe2).npc \in PC
         /\ pipe4 # <<>> => Head(pipe4).pc \in PC /\ Head(pipe4).npc \in PC
<1>1. /\ pipe2 # <<>> => Head(pipe2) \in Decoded
      /\ pipe4 # <<>> => Head(pipe4) \in Issued
  BY QueueTypes DEF TypeOK
<1>. QED
  BY <1>1 DEF Decoded, Issued

LEMMA IssueTypes ==
  ASSUME TypeOK, pipe2 # <<>>, Len(pipe3) < D34,
         NEW fu \in FUs, NEW npc \in PC,
         LET x == Head(pipe2)
         IN /\ pipe3' = Append(pipe3, [pc |-> x.pc, ep |-> x.ep[2], npc |-> npc,
                                       op |-> fu, rerun |-> x.rerun])
            /\ pipe2' = Tail(pipe2)
  PROVE  /\ pipe2' \in Seq(Decoded) /\ Len(pipe2') <= 1
         /\ pipe3' \in Seq(Issued) /\ Len(pipe3') <= D34
<1> DEFINE x == Head(pipe2)
<1>1. x \in Decoded /\ pipe2' \in Seq(Decoded) /\ Len(pipe2') <= 1
  BY QueueTypes DEF TypeOK
<1>2. [pc |-> x.pc, ep |-> x.ep[2], npc |-> npc, op |-> fu, rerun |-> x.rerun] \in Issued
  BY <1>1 DEF Decoded, Issued
<1>. QED
  BY <1>1, <1>2, QueueTypes, Depths DEF TypeOK

(* A rule of stage3 that does not redirect.                                *)
LEMMA IssueKeepsTypes ==
  ASSUME TypeOK, pipe2 # <<>>, Len(pipe3) < D34,
         NEW fu \in FUs, NEW npc \in PC, IssueTo(fu, npc),
         UNCHANGED <<rg_pc, epochVars, decodeVars>>
  PROVE  TypeOK'
  BY IssueTypes DEF IssueTo, TypeOK, epochVars, decodeVars, archVars

LEMMA CollectTypes ==
  ASSUME TypeOK, NEW fus, NEW cu \in FUs, Collect(fus, cu)
  PROVE  TypeOK'
<1> DEFINE x == Head(pipe3)
<1>1. x \in Issued /\ pipe3' \in Seq(Issued) /\ Len(pipe3') <= D34
  BY QueueTypes, Depths DEF TypeOK, Collect
<1>2. [x EXCEPT !.op = cu] \in Issued
  BY <1>1 DEF Issued
<1>3. pipe4' \in Seq(Issued) /\ Len(pipe4') <= D45
  BY <1>2, QueueTypes, Depths DEF TypeOK, Collect
<1>. QED
  BY <1>1, <1>3 DEF TypeOK, Collect, fetchVars, epochVars, decodeVars, archVars

LEMMA ClearDecodeTypes ==
  ASSUME TypeOK, ClearDecode
  PROVE  /\ rg_stall' \in BOOLEAN /\ rg_wfi' \in BOOLEAN
         /\ rg_microtrap' \in {"none"} \cup Causes
  BY DEF TypeOK, ClearDecode

LEMMA NextPCType ==
  ASSUME NEW x, x.pc \in PC, NEW o \in Outcomes(x)
  PROVE  NextPC(x, o) \in PC
  BY ProgramAssumption DEF Outcomes, NextPC

LEMMA TypeStep == TypeOK /\ [Next]_vars => TypeOK'
<1> SUFFICES ASSUME TypeOK, [Next]_vars PROVE TypeOK'
  OBVIOUS
<1> USE DEF TypeOK
<1>1. CASE FetchNext
  <2>1. PICK p \in Predictions(rg_pc) :
          /\ rg_pc' = p.npc
          /\ pipe0' = Append(pipe0, [pc |-> rg_pc, ep |-> Epochs(0),
                                     npc |-> p.npc, taken |-> p.taken])
    BY <1>1 DEF FetchNext
  <2>2. p.npc \in PC /\ p.taken \in BOOLEAN
    BY PredictionTypes
  <2>3. Epochs(0) \in {0, 1} \X {0, 1}
    BY DEF Epochs
  <2>4. [pc |-> rg_pc, ep |-> Epochs(0), npc |-> p.npc, taken |-> p.taken] \in Fetched
    BY <2>2, <2>3 DEF Fetched
  <2>5. rg_pc' \in PC /\ pipe0' \in Seq(Fetched) /\ Len(pipe0') <= D01
    BY <1>1, <2>1, <2>2, <2>4, QueueTypes, Depths DEF FetchNext
  <2>. QED
    BY <1>1, <2>5 DEF FetchNext, epochVars, decodeVars, archVars
<1>2. CASE FetchFence
  BY <1>2 DEF FetchFence, FenceRequests, epochVars, decodeVars, archVars
<1>3. CASE FetchDrop
  BY <1>3, QueueTypes, Depths DEF FetchDrop, fetchVars, epochVars, decodeVars, archVars
<1>4. CASE FetchPass
  BY <1>4, QueueTypes, Depths
     DEF FetchPass, fetchVars, epochVars, decodeVars, archVars
<1>5. CASE DecodeDrop
  BY <1>5, QueueTypes, Depths
     DEF DecodeDrop, DecodeReady, fetchVars, epochVars, decodeVars, archVars
<1>6. CASE Decode
  <2> DEFINE x == Head(pipe1)
  <2>1. x \in Fetched /\ pipe1' \in Seq(Fetched) /\ Len(pipe1') <= D12
    BY <1>6, QueueTypes, Depths DEF Decode, DecodeReady
  <2>2. PICK op \in DecodedAs(Kind[x.pc]) :
          /\ pipe2' = <<[pc |-> x.pc, ep |-> x.ep, npc |-> x.npc, taken |-> x.taken,
                         op |-> IF op = "WFI" THEN "ALU" ELSE op,
                         rerun |-> rg_microtrap]>>
          /\ rg_wfi' = (op = "WFI")
          /\ rg_stall' = (op = "TRAP")
          /\ rg_microtrap' \in IF rg_microtrap # "none" THEN {"none"}
                              ELSE RerunCauses(Kind[x.pc], op)
    BY <1>6 DEF Decode
  <2>3. x.pc \in PC /\ Kind[x.pc] \in Kinds
    BY <2>1, ProgramAssumption DEF Fetched
  <2>4. (IF op = "WFI" THEN "ALU" ELSE op) \in Ops
    BY <2>2, <2>3 DEF DecodedAs, Ops, Kinds, Control, System, Fences
  <2>5. [pc |-> x.pc, ep |-> x.ep, npc |-> x.npc, taken |-> x.taken,
         op |-> IF op = "WFI" THEN "ALU" ELSE op, rerun |-> rg_microtrap] \in Decoded
    BY <2>1, <2>4 DEF Fetched, Decoded
  <2>6. pipe2' \in Seq(Decoded) /\ Len(pipe2') <= 1
    BY <2>2, <2>5
  <2>7. rg_microtrap' \in {"none"} \cup Causes
    BY <2>2 DEF RerunCauses, Causes
  <2>. QED
    BY <1>6, <2>1, <2>2, <2>3, <2>6, <2>7
       DEF Decode, fetchVars, epochVars, archVars
<1>7. CASE ResumeWFI
  BY <1>7 DEF ResumeWFI, fetchVars, epochVars, archVars
<1>8. CASE ExeDrop
  BY <1>8, QueueTypes DEF ExeDrop, fetchVars, epochVars, decodeVars, archVars
<1>9. CASE ExeSystem
  <2>1. Head(pipe2).npc \in PC
    BY <1>9, HeadFields DEF ExeSystem, Execute
  <2>. QED
    BY <1>9, <2>1, IssueKeepsTypes DEF ExeSystem, Execute, Issue, FUs
<1>10. CASE ExeTrap
  <2>1. Head(pipe2).npc \in PC
    BY <1>10, HeadFields DEF ExeTrap, Execute
  <2>. QED
    BY <1>10, <2>1, IssueKeepsTypes DEF ExeTrap, Execute, Issue, FUs
<1>11. CASE ExeArith
  <2>1. Head(pipe2).npc \in PC
    BY <1>11, HeadFields DEF ExeArith, Execute
  <2>. QED
    BY <1>11, <2>1, IssueKeepsTypes DEF ExeArith, Execute, Issue, FUs
<1>12. CASE ExeMemory
  <2>1. Head(pipe2).npc \in PC
    BY <1>12, HeadFields DEF ExeMemory, Execute
  <2>. QED
    BY <1>12, <2>1, IssueKeepsTypes DEF ExeMemory, Execute, Issue, FUs
<1>13. CASE ExeMulDiv
  <2>1. Head(pipe2).npc \in PC
    BY <1>13, HeadFields DEF ExeMulDiv, Execute
  <2>. QED
    BY <1>13, <2>1, IssueKeepsTypes DEF ExeMulDiv, Execute, Issue, FUs
<1>14. CASE ControlAgrees
  <2>1. PICK o \in Outcomes(Head(pipe2)) : IssueTo("BASE", NextPC(Head(pipe2), o))
    BY <1>14 DEF ControlAgrees
  <2>2. NextPC(Head(pipe2), o) \in PC
    BY <1>14, HeadFields, NextPCType DEF ControlAgrees, ControlReady, Execute
  <2>. QED
    BY <1>14, <2>1, <2>2, IssueKeepsTypes DEF ControlAgrees, ControlReady, Execute, FUs
<1>15. CASE ControlTraps
  <2>1. Head(pipe2).npc \in PC
    BY <1>15, HeadFields DEF ControlTraps, ControlReady, Execute
  <2>. QED
    BY <1>15, <2>1, IssueKeepsTypes DEF ControlTraps, ControlReady, Execute, Issue, FUs
<1>16. CASE ControlRedirects
  <2> DEFINE x == Head(pipe2)
  <2>1. PICK o \in Outcomes(x) :
          /\ rg_pc' = NextPC(x, o)
          /\ pipe3' = Append(pipe3, [pc |-> x.pc, ep |-> x.ep[2], npc |-> NextPC(x, o),
                                     op |-> "BASE", rerun |-> x.rerun])
    BY <1>16 DEF ControlRedirects
  <2>2. NextPC(x, o) \in PC
    BY <1>16, HeadFields, NextPCType DEF ControlRedirects, ControlReady, Execute
  <2>3. /\ pipe2' \in Seq(Decoded) /\ Len(pipe2') <= 1
        /\ pipe3' \in Seq(Issued) /\ Len(pipe3') <= D34
    BY <1>16, <2>1, <2>2, IssueTypes DEF ControlRedirects, ControlReady, Execute, FUs
  <2>. QED
    BY <1>16, <2>1, <2>2, <2>3, ClearDecodeTypes, FlipTypes
       DEF ControlRedirects, FenceRequests, archVars
<1>17. CASE Stage4
  <2>1. PICK fus, cu : cu \in FUs /\ Collect(fus, cu)
    BY <1>17 DEF Stage4, Forward, HandleMemory, CaptureMulDiv, FUs
  <2>. QED
    BY <2>1, CollectTypes
<1>18. CASE WriteBackDrop
  BY <1>18, QueueTypes, Depths
     DEF WriteBackDrop, CommitReady, fetchVars, epochVars, decodeVars, archVars
<1>19. CASE CommitBase \/ CommitMemory \/ CommitCSR
  <2>1. Commit /\ pipe4 # <<>>
    BY <1>19 DEF CommitBase, CommitMemory, CommitCSR, CommitReady
  <2>. QED
    BY <2>1, QueueTypes, HeadFields, Depths
       DEF Commit, fetchVars, epochVars, decodeVars
<1>20. ASSUME NEW newpc \in PC, NEW fence \in FenceRequests, WBFlush(newpc, fence),
              pipe4 # <<>>, epc' \in PC, arch' \in PC,
              event' \in {"reset", "retire", "trap"} \X PC
       PROVE  TypeOK'
  <2>1. pipe4' \in Seq(Issued) /\ Len(pipe4') <= D45
    BY <1>20, QueueTypes, Depths DEF WBFlush
  <2>. QED
    BY <1>20, <2>1, ClearDecodeTypes, FlipTypes DEF WBFlush
<1>21. CASE WriteBackTrap \/ IOFault
  <2>1. TakeTrap /\ pipe4 # <<>> /\ Head(pipe4).pc \in PC
    BY <1>21, HeadFields DEF WriteBackTrap, IOFault, CommitReady
  <2>. QED
    BY <1>20, <2>1, ProgramAssumption DEF TakeTrap, FenceRequests
<1>22. CASE WriteBackRerun
  <2>1. pipe4 # <<>> /\ Head(pipe4).pc \in PC
    BY <1>22, HeadFields DEF WriteBackRerun, CommitReady
  <2>. QED
    BY <1>20, <1>22, <2>1 DEF WriteBackRerun, FenceRequests, archVars
<1>23. CASE WriteBackReturn
  <2>1. pipe4 # <<>> /\ Head(pipe4).pc \in PC
    BY <1>23, HeadFields DEF WriteBackReturn, CommitReady
  <2>. QED
    BY <1>20, <1>23, <2>1 DEF WriteBackReturn, FenceRequests
<1>24. CASE UNCHANGED vars
  BY <1>24 DEF vars, fetchVars, epochVars, decodeVars, archVars
<1>. QED
  BY <1>1, <1>2, <1>3, <1>4, <1>5, <1>6, <1>7, <1>8, <1>9, <1>10, <1>11, <1>12,
     <1>13, <1>14, <1>15, <1>16, <1>17, <1>18, <1>19, <1>21, <1>22, <1>23, <1>24
     DEF Next, Stage0, Stage1, Stage2, Stage3, Stage5

(* The registers keep their types and no buffer exceeds its depth, for     *)
(* every program and every depth of the buffers.                           *)
THEOREM TypeCorrect == Spec => []TypeOK
  BY TypeInit, TypeStep, PTL DEF Spec
-----------------------------------------------------------------------------
(* Buffers and paths: what enqueuing and dequeuing do to them.             *)
LEMMA OneDeep ==
  ASSUME NEW S, NEW q \in Seq(S), q # <<>>, Len(q) <= 1
  PROVE  Len(q) = 1
<1>1. Len(q) \in Nat /\ Len(q) # 0
  BY QueueTypes
<1>. QED
  BY <1>1

LEMMA AppendMembers ==
  ASSUME NEW S, NEW q \in Seq(S), NEW c, NEW y \in S
  PROVE  /\ Some(Append(q, y), c) <=> Some(q, c) \/ y.ep = c
         /\ All(Append(q, y), c) <=> All(q, c) /\ y.ep = c
         /\ OfWriteBack(Append(q, y), c) <=> OfWriteBack(q, c) /\ y.ep[2] = c
  BY DEF Some, All, OfWriteBack

LEMMA TailMembers ==
  ASSUME NEW S, NEW q \in Seq(S), q # <<>>, NEW c
  PROVE  /\ Some(q, c) <=> Head(q).ep = c \/ Some(Tail(q), c)
         /\ All(q, c) => All(Tail(q), c)
         /\ OfWriteBack(q, c) => OfWriteBack(Tail(q), c) /\ Head(q).ep[2] = c
         /\ All(q, c) => Head(q).ep = c
         /\ StaleFirst(q, c) /\ Head(q).ep = c => All(q, c)
  BY DEF Some, All, OfWriteBack, StaleFirst

LEMMA NoneGood ==
  ASSUME NEW S, NEW q \in Seq(S), NEW c, NEW x, ~Some(q, c)
  PROVE  Good(q, c, x) /\ After(q, c, x) = x
  BY DEF Some, Good, StaleFirst, PathFrom, After

LEMMA AppendGood ==
  ASSUME NEW S, NEW q \in Seq(S), NEW c, NEW x, Good(q, c, x), NEW y \in S,
         y.ep = c => y.pc = After(q, c, x),
         y.ep # c => ~Some(q, c)
  PROVE  /\ Good(Append(q, y), c, x)
         /\ After(Append(q, y), c, x) = IF y.ep = c THEN y.npc ELSE After(q, c, x)
<1> DEFINE r == Append(q, y)
<1>1. /\ Len(r) = Len(q) + 1 /\ r[Len(r)] = y /\ Len(q) \in Nat
      /\ \A i \in 1..Len(q) : r[i] = q[i]
      /\ r # <<>>
  OBVIOUS
<1>2. StaleFirst(r, c)
  BY <1>1 DEF Good, StaleFirst, Some
<1>3. PathFrom(r, c, x)
  <2> SUFFICES ASSUME NEW i \in 1..Len(r), r[i].ep = c
               PROVE  r[i].pc = IF i = 1 \/ r[i - 1].ep # c THEN x ELSE r[i - 1].npc
    BY DEF PathFrom
  <2>1. CASE i \in 1..Len(q)
    BY <1>1, <2>1 DEF Good, PathFrom
  <2>2. CASE i = Len(q) + 1 /\ q = <<>>
    BY <1>1, <2>2 DEF After
  <2>3. CASE i = Len(q) + 1 /\ q # <<>>
    BY <1>1, <2>3 DEF After
  <2>. QED
    BY <1>1, <2>1, <2>2, <2>3
<1>4. After(r, c, x) = IF y.ep = c THEN y.npc ELSE After(q, c, x)
  BY <1>1, NoneGood DEF After
<1>. QED
  BY <1>2, <1>3, <1>4 DEF Good

LEMMA TailGood ==
  ASSUME NEW S, NEW q \in Seq(S), q # <<>>, NEW c, NEW x, Good(q, c, x)
  PROVE  LET h == Head(q)
             y == IF h.ep = c THEN h.npc ELSE x
         IN /\ h.ep = c => h.pc = x
            /\ Good(Tail(q), c, y)
            /\ After(Tail(q), c, y) = After(q, c, x)
<1> DEFINE h == Head(q)
           y == IF h.ep = c THEN h.npc ELSE x
           t == Tail(q)
<1>1. /\ Len(t) = Len(q) - 1 /\ Len(q) \in Nat \ {0} /\ h = q[1]
      /\ \A i \in 1..Len(t) : t[i] = q[i + 1]
      /\ t = <<>> <=> Len(q) = 1
  <2>1. Len(t) = Len(q) - 1 /\ t \in Seq(S) /\ Len(q) \in Nat \ {0} /\ h = q[1]
    BY QueueTypes
  <2>2. \A i \in 1..Len(t) : t[i] = q[i + 1]
    BY <2>1
  <2>3. t = <<>> <=> Len(q) = 1
    BY <2>1, QueueTypes
  <2>. QED
    BY <2>1, <2>2, <2>3
<1>2. h.ep = c => h.pc = x
  BY <1>1 DEF Good, PathFrom
<1>3. StaleFirst(t, c)
  BY <1>1 DEF Good, StaleFirst
<1>4. PathFrom(t, c, y)
  <2> SUFFICES ASSUME NEW i \in 1..Len(t), t[i].ep = c
               PROVE  t[i].pc = IF i = 1 \/ t[i - 1].ep # c THEN y ELSE t[i - 1].npc
    BY DEF PathFrom
  <2>1. CASE i = 1
    BY <1>1, <2>1 DEF Good, PathFrom
  <2>2. CASE i > 1
    BY <1>1, <2>2 DEF Good, PathFrom, StaleFirst
  <2>. QED
    BY <2>1, <2>2
<1>5. After(t, c, y) = After(q, c, x)
  BY <1>1 DEF After, Good, StaleFirst
<1>. QED
  BY <1>2, <1>3, <1>4, <1>5 DEF Good
-----------------------------------------------------------------------------
(* The step of the invariant, without Contents.                            *)
Ordered == EpochsAgree /\ Path /\ Behind /\ FenceAlone

LEMMA SameEpochs ==
  ASSUME TypeOK, EpochsAgree
  PROVE  /\ Epochs(0) = Epochs(3) /\ Epochs(1) = Epochs(3) /\ Epochs(2) = Epochs(3)
         /\ Epochs(3)[2] = wEpoch[5]
         /\ wEpoch[3] = wEpoch[5]
  BY DEF TypeOK, EpochsAgree, Epochs

(* All entries carry the old epoch, so none carries the new one.           *)
LEMMA NoneOfNew ==
  ASSUME NEW S, NEW q \in Seq(S), NEW c, NEW d, c # d
  PROVE  /\ All(q, c) => ~Some(q, d)
         /\ OfWriteBack(q, c) => \A e \in {0, 1} : ~Some(q, <<e, d>>)
         /\ \A e, w \in {0, 1} : All(q, <<e, w>>) => OfWriteBack(q, w)
  BY DEF All, Some, OfWriteBack

(* An instruction leaves stage3 without a redirection.                     *)
LEMMA IssueKeepsOrder ==
  ASSUME TypeOK, Ordered, pipe2 # <<>>, Live(Head(pipe2)),
         NEW fu \in FUs, IssueTo(fu, Head(pipe2).npc),
         UNCHANGED <<rg_pc, epochVars, decodeVars>>
  PROVE  Ordered'
<1> DEFINE h == Head(pipe2)
           y == [pc |-> h.pc, ep |-> h.ep[2], npc |-> h.npc, op |-> fu, rerun |-> h.rerun]
<1>1. /\ UNCHANGED <<rg_pc, rg_fence, eEpoch, wEpoch, arch, pipe0, pipe1, pipe4>>
      /\ pipe2' = Tail(pipe2)
      /\ pipe3' = Append(pipe3, y)
  BY DEF IssueTo, epochVars, archVars
<1>2. h.ep = Epochs(3) /\ y.ep = wEpoch[5] /\ y.pc = h.pc /\ y.npc = h.npc
  BY SameEpochs DEF Live, Ordered
<1>3. y \in Issued
  <2>1. h \in Decoded
    BY QueueTypes DEF TypeOK
  <2>. QED
    BY <2>1 DEF Decoded, Issued
<1>4. UNCHANGED <<Next4, Epochs(3)>>
  BY <1>1 DEF Next4, Epochs
<1>5. /\ h.pc = Next3
      /\ Good(pipe2', Epochs(3), h.npc)
      /\ After(pipe2', Epochs(3), h.npc) = Next2
  BY <1>1, <1>2, TailGood DEF TypeOK, Ordered, Path, Next2
<1>6. /\ Good(pipe3', wEpoch[5], Next4)
      /\ After(pipe3', wEpoch[5], Next4) = h.npc
  <2>1. /\ pipe3 \in Seq(Issued) /\ Good(pipe3, wEpoch[5], Next4)
        /\ y.pc = After(pipe3, wEpoch[5], Next4)
    BY <1>2, <1>5 DEF TypeOK, Ordered, Path, Next3
  <2>2. pipe3' = Append(pipe3, y)
    BY <1>1
  <2> HIDE DEF y
  <2>. QED
    BY <1>2, <1>3, <2>1, <2>2, AppendGood
<1>7. Next3' = h.npc /\ Next2' = Next2 /\ Next1' = Next1 /\ Next0' = Next0
  BY <1>1, <1>4, <1>5, <1>6 DEF Next3, Next2, Next1, Next0
<1>8. Path'
  BY <1>1, <1>4, <1>5, <1>6, <1>7 DEF Ordered, Path
<1>9. Some(pipe2, Epochs(3)) /\ (Some(pipe2', Epochs(3)) => Some(pipe2, Epochs(3)))
      /\ All(pipe2, Epochs(3))
  <2>1. pipe2 \in Seq(Decoded) /\ StaleFirst(pipe2, Epochs(3))
    BY DEF TypeOK, Ordered, Path, Good
  <2>2. /\ Some(pipe2, Epochs(3)) <=> Head(pipe2).ep = Epochs(3) \/ Some(Tail(pipe2), Epochs(3))
        /\ Head(pipe2).ep = Epochs(3) => All(pipe2, Epochs(3))
    BY <2>1, TailMembers
  <2> QED
    BY <1>1, <1>2, <2>2
<1>10. All(pipe3', wEpoch[5]) <=> All(pipe3, wEpoch[5])
  BY <1>1, <1>2, <1>3, AppendMembers DEF TypeOK
<1>11. /\ OfWriteBack(pipe2, wEpoch[5]) /\ OfWriteBack(pipe1, wEpoch[5])
       /\ OfWriteBack(pipe0, wEpoch[5])
       /\ OfWriteBack(pipe2', wEpoch[5])
  <2>1. Epochs(3) = <<eEpoch[3], wEpoch[5]>> /\ eEpoch[3] \in {0, 1} /\ wEpoch[5] \in {0, 1}
    BY SameEpochs DEF Epochs, TypeOK, Ordered
  <2>2. All(pipe1, Epochs(3)) /\ All(pipe0, Epochs(3))
    BY <1>9 DEF Ordered, Behind
  <2>3. /\ OfWriteBack(pipe2, wEpoch[5]) /\ OfWriteBack(pipe1, wEpoch[5])
        /\ OfWriteBack(pipe0, wEpoch[5])
    BY <1>9, <2>1, <2>2 DEF All, OfWriteBack
  <2>. QED
    BY <1>1, <2>3, TailMembers DEF TypeOK
<1>12. Behind'
  BY <1>1, <1>4, <1>9, <1>10, <1>11 DEF Ordered, Behind
<1>13. EpochsAgree' /\ FenceAlone'
  BY <1>1, <1>9 DEF Ordered, EpochsAgree, FenceAlone
<1>. QED
  BY <1>8, <1>12, <1>13 DEF Ordered

LEMMA CollectKeepsOrder ==
  ASSUME TypeOK, Ordered, NEW fus, NEW cu \in FUs, Collect(fus, cu)
  PROVE  Ordered'
<1> DEFINE h == Head(pipe3)
           y == [h EXCEPT !.op = cu]
           n == IF h.ep = wEpoch[5] THEN h.npc ELSE Next4
<1>1. /\ UNCHANGED <<rg_pc, rg_fence, eEpoch, wEpoch, arch, pipe0, pipe1, pipe2>>
      /\ pipe3 # <<>>
      /\ pipe3' = Tail(pipe3)
      /\ pipe4' = Append(pipe4, y)
  BY DEF Collect, fetchVars, epochVars, archVars
<1>2. h \in Issued
  BY <1>1, QueueTypes DEF TypeOK
<1>3. y \in Issued /\ y.ep = h.ep /\ y.pc = h.pc /\ y.npc = h.npc
  BY <1>2 DEF Issued
<1> HIDE DEF y
<1>4. /\ h.ep = wEpoch[5] => h.pc = Next4
      /\ Good(pipe3', wEpoch[5], n)
      /\ After(pipe3', wEpoch[5], n) = Next3
  BY <1>1, TailGood DEF TypeOK, Ordered, Path, Next3
<1>5. /\ Some(pipe4, wEpoch[5]) => All(pipe3, wEpoch[5])
      /\ All(pipe3, wEpoch[5]) => All(pipe3', wEpoch[5]) /\ h.ep = wEpoch[5]
      /\ h.ep = wEpoch[5] => All(pipe3, wEpoch[5])
      /\ Some(pipe3, wEpoch[5]) <=> h.ep = wEpoch[5] \/ Some(pipe3', wEpoch[5])
  <2>1. Some(pipe4, wEpoch[5]) => All(pipe3, wEpoch[5])
    BY DEF Ordered, Behind
  <2>2. StaleFirst(pipe3, wEpoch[5])
    BY DEF Ordered, Path, Good
  <2>3. /\ Some(pipe3, wEpoch[5]) <=> h.ep = wEpoch[5] \/ Some(Tail(pipe3), wEpoch[5])
        /\ All(pipe3, wEpoch[5]) => All(Tail(pipe3), wEpoch[5]) /\ h.ep = wEpoch[5]
        /\ h.ep = wEpoch[5] => All(pipe3, wEpoch[5])
    <3>1. pipe3 \in Seq(Issued)
      BY DEF TypeOK
    <3>. QED
      BY <1>1, <2>2, <3>1, TailMembers
  <2>. QED
    BY <1>1, <2>1, <2>3
<1>6. Some(pipe4', wEpoch[5]) <=> Some(pipe4, wEpoch[5]) \/ h.ep = wEpoch[5]
  BY <1>1, <1>3, AppendMembers DEF TypeOK
<1>7. /\ Good(pipe4', wEpoch[5], arch)
      /\ After(pipe4', wEpoch[5], arch) = n
  BY <1>1, <1>3, <1>4, <1>5, AppendGood DEF TypeOK, Ordered, Path, Next4
<1>8. /\ Next4' = n /\ Next3' = Next3 /\ Epochs(3)' = Epochs(3)
      /\ Next2' = Next2 /\ Next1' = Next1 /\ Next0' = Next0
  BY <1>1, <1>4, <1>7 DEF Next4, Next3, Next2, Next1, Next0, Epochs
<1>9. Path'
  BY <1>1, <1>4, <1>7, <1>8 DEF Ordered, Path
<1>10. Behind'
  BY <1>1, <1>5, <1>6, <1>8 DEF Ordered, Behind
<1>11. EpochsAgree' /\ FenceAlone'
  BY <1>1, <1>5, <1>6, <1>8 DEF Ordered, EpochsAgree, FenceAlone
<1>. QED
  BY <1>9, <1>10, <1>11 DEF Ordered

(* What a flush from write-back leaves live: nothing.                      *)
LEMMA FlushKeepsOrder ==
  ASSUME TypeOK, Ordered, NEW newpc, NEW fence, WBFlush(newpc, fence),
         pipe4 # <<>>, Head(pipe4).ep = wEpoch[5], arch' = newpc
  PROVE  Ordered'
<1> DEFINE w == wEpoch[5]
           v == wEpoch'[5]
<1>1. /\ UNCHANGED <<eEpoch, pipe0, pipe1, pipe2, pipe3>>
      /\ pipe4' = Tail(pipe4) /\ rg_pc' = newpc
      /\ wEpoch' = [s \in {0, 1, 2, 3, 5} |-> 1 - wEpoch[s]]
  BY DEF WBFlush, Flip, TypeOK
<1>2. /\ EpochsAgree' /\ w # v /\ w \in {0, 1} /\ v \in {0, 1}
      /\ \E e \in {0, 1} : Epochs(3)' = <<e, v>>
  BY <1>1 DEF Ordered, EpochsAgree, TypeOK, Epochs
<1>3. /\ All(pipe4, w) /\ All(pipe4', w) /\ All(pipe3, w)
      /\ OfWriteBack(pipe2, w) /\ OfWriteBack(pipe1, w) /\ OfWriteBack(pipe0, w)
  <2>1. Some(pipe4, w) /\ All(pipe4, w) /\ All(pipe4', w)
    BY <1>1, TailMembers DEF TypeOK, Ordered, Path, Good
  <2>. QED
    BY <2>1 DEF Ordered, Behind
<1>4. /\ pipe0 \in Seq(Fetched) /\ pipe1 \in Seq(Fetched) /\ pipe2 \in Seq(Decoded)
      /\ pipe3 \in Seq(Issued) /\ pipe4' \in Seq(Issued)
  BY <1>1, QueueTypes DEF TypeOK
<1>5. /\ ~Some(pipe4', v) /\ ~Some(pipe3', v)
      /\ ~Some(pipe2', Epochs(3)') /\ ~Some(pipe1', Epochs(3)') /\ ~Some(pipe0', Epochs(3)')
  BY <1>1, <1>2, <1>3, <1>4, NoneOfNew
<1>6. Next4' = newpc /\ Good(pipe4', v, newpc)
  BY <1>4, <1>5, NoneGood DEF Next4
<1>7. Next3' = newpc /\ Good(pipe3', v, newpc)
  BY <1>1, <1>4, <1>5, <1>6, NoneGood DEF Next3
<1>8. Next2' = newpc /\ Good(pipe2', Epochs(3)', newpc)
  BY <1>1, <1>4, <1>5, <1>7, NoneGood DEF Next2
<1>9. Next1' = newpc /\ Good(pipe1', Epochs(3)', newpc)
  BY <1>1, <1>4, <1>5, <1>8, NoneGood DEF Next1
<1>10. Next0' = newpc /\ Good(pipe0', Epochs(3)', newpc)
  BY <1>1, <1>4, <1>5, <1>9, NoneGood DEF Next0
<1>11. Path'
  BY <1>1, <1>6, <1>7, <1>8, <1>9, <1>10 DEF Path
<1>12. Behind' /\ FenceAlone'
  BY <1>5 DEF Behind, FenceAlone
<1>. QED
  BY <1>2, <1>11, <1>12 DEF Ordered

(* A misprediction: stage3 accepts the instruction and everything fetched  *)
(* after it goes stale.                                                    *)
LEMMA RedirectKeepsOrder ==
  ASSUME TypeOK, Ordered, ControlRedirects
  PROVE  Ordered'
<1> DEFINE h == Head(pipe2)
           c == Epochs(3)
           d == Epochs(3)'
           w == wEpoch[5]
<1>1. PICK o \in Outcomes(h) :
        /\ rg_pc' = NextPC(h, o)
        /\ pipe3' = Append(pipe3, [pc |-> h.pc, ep |-> h.ep[2], npc |-> NextPC(h, o),
                                   op |-> "BASE", rerun |-> h.rerun])
  BY DEF ControlRedirects
<1> DEFINE n == NextPC(h, o)
           y == [pc |-> h.pc, ep |-> h.ep[2], npc |-> n, op |-> "BASE", rerun |-> h.rerun]
<1>2. /\ UNCHANGED <<wEpoch, arch, pipe0, pipe1, pipe4>>
      /\ rg_fence' = "none" /\ pipe2 # <<>> /\ pipe2' = Tail(pipe2)
      /\ eEpoch' = [s \in 0..3 |-> 1 - eEpoch[s]]
      /\ h.ep = Epochs(3)
  BY DEF ControlRedirects, ControlReady, Execute, Live, Flip, TypeOK, archVars
<1>3. /\ EpochsAgree' /\ c # d /\ w \in {0, 1}
      /\ \E e \in {0, 1} : c = <<e, w>>
      /\ h.ep[2] = w
  BY <1>2, SameEpochs DEF Ordered, EpochsAgree, TypeOK, Epochs
<1>4. h \in Decoded /\ pipe2' \in Seq(Decoded)
  BY <1>2, QueueTypes DEF TypeOK
<1>5. y \in Issued /\ y.ep = w /\ y.pc = h.pc /\ y.npc = n
  BY <1>2, <1>3, <1>4, NextPCType DEF Decoded, Issued, FUs
<1>6. pipe3' \in Seq(Issued)
  BY <1>1, <1>5, QueueTypes DEF TypeOK
<1> HIDE DEF y, n
<1>7. Some(pipe2, c) /\ All(pipe2, c) /\ All(pipe2', c)
  <2>1. pipe2 \in Seq(Decoded)
    BY DEF TypeOK
  <2>2. StaleFirst(pipe2, c)
    BY DEF Ordered, Path, Good
  <2> QED
    BY <1>2, <2>1, <2>2, TailMembers
<1>8. All(pipe1, c) /\ All(pipe0, c)
  BY <1>7 DEF Ordered, Behind
<1>9. ~Some(pipe2', d) /\ ~Some(pipe1, d) /\ ~Some(pipe0, d)
  BY <1>3, <1>4, <1>7, <1>8, NoneOfNew DEF TypeOK
<1>10. OfWriteBack(pipe2', w) /\ OfWriteBack(pipe1, w) /\ OfWriteBack(pipe0, w)
  <2>1. PICK e \in {0, 1} : c = <<e, w>>
    BY <1>3
  <2>2. w \in {0, 1} /\ c # d
    BY <1>3
  <2>3. ASSUME NEW q, All(q, <<e, w>>) PROVE OfWriteBack(q, w)
    BY <2>3 DEF All, OfWriteBack
  <2>4. All(pipe2', <<e, w>>) /\ All(pipe1, <<e, w>>) /\ All(pipe0, <<e, w>>)
    BY <1>7, <1>8, <2>1
  <2> QED
    BY <2>3, <2>4
<1>11. h.pc = Next3
  BY <1>2, TailGood DEF TypeOK, Ordered, Path
<1>12. Good(pipe3', w, Next4) /\ After(pipe3', w, Next4) = n
  BY <1>1, <1>5, <1>11, AppendGood DEF TypeOK, Ordered, Path, Next3, y, n
<1>13. All(pipe3', w) <=> All(pipe3, w)
  BY <1>1, <1>5, AppendMembers DEF TypeOK, y, n
<1>14. Next4' = Next4 /\ Next3' = n
  BY <1>2, <1>12 DEF Next4, Next3
<1>15. Next2' = n /\ Good(pipe2', d, n)
  BY <1>4, <1>9, <1>14, NoneGood DEF Next2
<1>16. Next1' = n /\ Good(pipe1', d, n)
  BY <1>2, <1>9, <1>15, NoneGood DEF Next1, TypeOK
<1>17. Next0' = n /\ Good(pipe0', d, n)
  BY <1>2, <1>9, <1>16, NoneGood DEF Next0, TypeOK
<1>18. Path'
  BY <1>1, <1>2, <1>12, <1>14, <1>15, <1>16, <1>17 DEF Ordered, Path, n
<1>19. Behind' /\ FenceAlone'
  BY <1>2, <1>9, <1>10, <1>13 DEF Ordered, Behind, FenceAlone
<1>. QED
  BY <1>3, <1>18, <1>19 DEF Ordered

(* stage5 consumes the head of pipe4 and the program is now at newarch.    *)
LEMMA ConsumeKeepsOrder ==
  ASSUME TypeOK, Ordered, pipe4 # <<>>, pipe4' = Tail(pipe4),
         UNCHANGED <<rg_pc, rg_fence, eEpoch, wEpoch, pipe0, pipe1, pipe2, pipe3>>,
         arch' = IF Head(pipe4).ep = wEpoch[5] THEN Head(pipe4).npc ELSE arch
  PROVE  Ordered'
<1>1. /\ Good(pipe4', wEpoch[5], arch')
      /\ After(pipe4', wEpoch[5], arch') = Next4
  BY TailGood DEF TypeOK, Ordered, Path, Next4
<1>2. UNCHANGED <<Next4, Next3, Next2, Next1, Next0, Epochs(3)>>
  BY <1>1 DEF Next4, Next3, Next2, Next1, Next0, Epochs
<1>3. Some(pipe4', wEpoch[5]) => Some(pipe4, wEpoch[5])
  BY TailMembers DEF TypeOK
<1>4. Path'
  BY <1>1, <1>2 DEF Ordered, Path
<1>5. Behind' /\ EpochsAgree' /\ FenceAlone'
  BY <1>2, <1>3 DEF Ordered, Behind, EpochsAgree, FenceAlone
<1>. QED
  BY <1>4, <1>5 DEF Ordered

(* A control instruction that agrees with its prediction goes where fetch  *)
(* went: a branch because its direction fixes its target, a jump because   *)
(* the head of pipe1 is its live successor.                                *)
LEMMA AgreesWithPath ==
  ASSUME IInv, ControlReady, NEW o \in Outcomes(Head(pipe2)),
         ~Mispredicted(Head(pipe2), o.taken, o.target)
  PROVE  NextPC(Head(pipe2), o) = Head(pipe2).npc
<1> DEFINE h == Head(pipe2)
<1>1. /\ pipe2 # <<>> /\ pipe1 # <<>> /\ h.ep = Epochs(3) /\ h.op \in Control
  BY DEF ControlReady, Execute, Live
<1>2. h \in DecodedOK
  BY <1>1, QueueTypes DEF IInv, Contents
<1>3. h.pc \in PC /\ h.npc \in PC /\ h.op = Kind[h.pc]
      /\ [npc |-> h.npc, taken |-> h.taken] \in Predictions(h.pc)
  BY <1>1, <1>2 DEF DecodedOK, Decoded, DecodedFrom, Predicted, Control
<1>4. o.taken \in BOOLEAN /\ o.target \in Targets[h.pc] /\ (h.op # "BRANCH" => o.taken)
  BY DEF Outcomes
<1>5. CASE h.op = "BRANCH"
  <2>1. PICK t \in PC : Targets[h.pc] = {t} /\ Guess[h.pc] = {t}
    BY <1>3, <1>5, BranchTargetAssumption
  <2>2. h.npc = IF h.taken THEN t ELSE Fall[h.pc]
    BY <1>3, <2>1 DEF Predictions
  <2>3. o.target = t /\ o.taken = h.taken
    BY <1>4, <1>5, <2>1 DEF Mispredicted
  <2>. QED
    BY <2>2, <2>3 DEF NextPC
<1>6. CASE h.op # "BRANCH"
  <2>1. Head(pipe1).pc = o.target /\ NextPC(h, o) = o.target
    BY <1>4, <1>6 DEF Mispredicted, NextPC
  <2>2. Some(pipe2, Epochs(3))
    BY <1>1, TailMembers DEF IInv, TypeOK
  <2>3. All(pipe1, Epochs(3))
    BY <2>2 DEF IInv, Behind
  <2>4. Head(pipe1).ep = Epochs(3)
    BY <1>1, <2>3, TailMembers DEF IInv, TypeOK
  <2>5. Head(pipe1).pc = Next2
    BY <1>1, <2>4, TailGood DEF IInv, TypeOK, Path
  <2>6. Len(pipe2) = 1
    BY <1>1, OneDeep DEF IInv, TypeOK
  <2>7. Next2 = h.npc
    BY <1>1, <2>6 DEF Next2, After
  <2>. QED
    BY <2>1, <2>5, <2>7
<1>. QED
  BY <1>5, <1>6

LEMMA OrderedStep == IInv /\ [Next]_vars => Ordered'
<1> SUFFICES ASSUME IInv, [Next]_vars PROVE Ordered'
  OBVIOUS
<1> USE DEF IInv
<1>1. CASE FetchNext
  <2>1. PICK p \in Predictions(rg_pc) :
          /\ rg_pc' = p.npc
          /\ pipe0' = Append(pipe0, [pc |-> rg_pc, ep |-> Epochs(0),
                                     npc |-> p.npc, taken |-> p.taken])
    BY <1>1 DEF FetchNext
  <2> DEFINE y == [pc |-> rg_pc, ep |-> Epochs(0), npc |-> p.npc, taken |-> p.taken]
  <2>2. /\ y.ep = Epochs(3) /\ y.pc = Next0 /\ y.npc = p.npc
        /\ y.ep[2] = wEpoch[5]
    BY SameEpochs DEF Path
  <2>3. /\ UNCHANGED <<rg_fence, eEpoch, wEpoch, arch, pipe1, pipe2, pipe3, pipe4>>
        /\ rg_fence = "none"
    BY <1>1 DEF FetchNext, epochVars, archVars
  <2>4. UNCHANGED <<Next4, Next3, Next2, Next1, Epochs(3)>>
    BY <2>3 DEF Next4, Next3, Next2, Next1, Epochs
  <2>5. y \in Fetched
    BY <2>1, PredictionTypes DEF TypeOK, Epochs, Fetched
  <2>6. /\ Good(pipe0', Epochs(3), Next1)
        /\ After(pipe0', Epochs(3), Next1) = p.npc
    <3>1. pipe0 \in Seq(Fetched)
      BY DEF TypeOK
    <3>2. Good(pipe0, Epochs(3), Next1) /\ y.pc = After(pipe0, Epochs(3), Next1)
      BY <2>2 DEF Path, Next0
    <3>3. pipe0' = Append(pipe0, y)
      BY <2>1
    <3> HIDE DEF y
    <3> QED
      BY <2>2, <2>5, <3>1, <3>2, <3>3, AppendGood
  <2>7. /\ All(pipe0, Epochs(3)) => All(pipe0', Epochs(3))
        /\ OfWriteBack(pipe0, wEpoch[5]) => OfWriteBack(pipe0', wEpoch[5])
    BY <2>1, <2>2, <2>5, AppendMembers DEF TypeOK
  <2>8. Path'
    BY <2>1, <2>3, <2>4, <2>6 DEF Path, Next0
  <2>9. Behind'
    BY <2>3, <2>4, <2>7 DEF Behind
  <2>10. EpochsAgree' /\ FenceAlone'
    BY <2>3 DEF EpochsAgree, FenceAlone
  <2>. QED
    BY <2>8, <2>9, <2>10 DEF Ordered
<1>2. CASE FetchFence
  <2>1. /\ UNCHANGED <<rg_pc, eEpoch, wEpoch, arch, pipe0, pipe1, pipe2, pipe3, pipe4>>
        /\ rg_fence' = "none"
    BY <1>2 DEF FetchFence, epochVars, archVars
  <2>2. UNCHANGED <<Next4, Next3, Next2, Next1, Next0, Epochs(3)>>
    BY <2>1 DEF Next4, Next3, Next2, Next1, Next0, Epochs
  <2>. QED
    BY <2>1, <2>2 DEF Ordered, EpochsAgree, Path, Behind, FenceAlone
<1>3. CASE FetchDrop
  <2>1. /\ UNCHANGED <<rg_pc, rg_fence, eEpoch, wEpoch, arch, pipe1, pipe2, pipe3, pipe4>>
        /\ pipe0 # <<>> /\ pipe0' = Tail(pipe0) /\ Head(pipe0).ep # Epochs(3)
    BY <1>3, SameEpochs DEF FetchDrop, fetchVars, epochVars, archVars
  <2>2. UNCHANGED <<Next4, Next3, Next2, Next1, Epochs(3)>>
    BY <2>1 DEF Next4, Next3, Next2, Next1, Epochs
  <2>3. /\ Good(pipe0', Epochs(3), Next1)
        /\ After(pipe0', Epochs(3), Next1) = Next0
    BY <2>1, TailGood DEF Path, Next0, TypeOK
  <2>4. /\ All(pipe0, Epochs(3)) => All(pipe0', Epochs(3))
        /\ Some(pipe0', Epochs(3)) => Some(pipe0, Epochs(3))
        /\ OfWriteBack(pipe0, wEpoch[5]) => OfWriteBack(pipe0', wEpoch[5])
    BY <2>1, TailMembers DEF TypeOK
  <2>5. Path'
    BY <2>1, <2>2, <2>3 DEF Path, Next0
  <2>6. EpochsAgree' /\ Behind' /\ FenceAlone'
    BY <2>1, <2>2, <2>4 DEF EpochsAgree, Behind, FenceAlone
  <2>. QED
    BY <2>5, <2>6 DEF Ordered
<1>4. CASE FetchPass
  <2> DEFINE h == Head(pipe0)
  <2>1. /\ UNCHANGED <<rg_pc, rg_fence, eEpoch, wEpoch, arch, pipe2, pipe3, pipe4>>
        /\ pipe0 # <<>> /\ pipe0' = Tail(pipe0) /\ h.ep = Epochs(3)
        /\ pipe1' = Append(pipe1, h) /\ h \in Fetched /\ h.ep[2] = wEpoch[5]
    BY <1>4, SameEpochs, QueueTypes DEF FetchPass, fetchVars, epochVars, archVars, TypeOK
  <2>2. UNCHANGED <<Next4, Next3, Next2, Epochs(3)>>
    BY <2>1 DEF Next4, Next3, Next2, Epochs
  <2>3. /\ h.pc = Next1
        /\ Good(pipe0', Epochs(3), h.npc)
        /\ After(pipe0', Epochs(3), h.npc) = Next0
    BY <2>1, TailGood DEF Path, Next0, TypeOK
  <2>4. /\ Good(pipe1', Epochs(3), Next2)
        /\ After(pipe1', Epochs(3), Next2) = h.npc
    BY <2>1, <2>3, AppendGood DEF Path, Next1, TypeOK
  <2>5. Next1' = h.npc /\ Next0' = Next0
    BY <2>2, <2>3, <2>4 DEF Next1, Next0
  <2>6. StaleFirst(pipe0, Epochs(3))
    BY DEF Path, Good
  <2>7. /\ Some(pipe0, Epochs(3)) /\ All(pipe0', Epochs(3))
        /\ OfWriteBack(pipe0, wEpoch[5]) => OfWriteBack(pipe0', wEpoch[5])
    BY <2>1, <2>6, TailMembers DEF TypeOK
  <2>8. /\ All(pipe1, Epochs(3)) => All(pipe1', Epochs(3))
        /\ OfWriteBack(pipe1, wEpoch[5]) => OfWriteBack(pipe1', wEpoch[5])
    BY <2>1, AppendMembers DEF TypeOK
  <2>9. Path'
    BY <2>1, <2>2, <2>3, <2>4, <2>5 DEF Path
  <2>10. EpochsAgree' /\ Behind' /\ FenceAlone'
    BY <2>1, <2>2, <2>7, <2>8 DEF EpochsAgree, Behind, FenceAlone
  <2>. QED
    BY <2>9, <2>10 DEF Ordered
<1>5. CASE DecodeDrop
  <2>1. /\ UNCHANGED <<rg_pc, rg_fence, eEpoch, wEpoch, arch, pipe0, pipe2, pipe3, pipe4>>
        /\ pipe1 # <<>> /\ pipe1' = Tail(pipe1) /\ Head(pipe1).ep # Epochs(3)
    BY <1>5, SameEpochs DEF DecodeDrop, DecodeReady, fetchVars, epochVars, archVars
  <2>2. UNCHANGED <<Next4, Next3, Next2, Epochs(3)>>
    BY <2>1 DEF Next4, Next3, Next2, Epochs
  <2>3. /\ Good(pipe1', Epochs(3), Next2)
        /\ After(pipe1', Epochs(3), Next2) = Next1
    BY <2>1, TailGood DEF Path, Next1, TypeOK
  <2>4. /\ All(pipe1, Epochs(3)) => All(pipe1', Epochs(3))
        /\ Some(pipe1', Epochs(3)) => Some(pipe1, Epochs(3))
        /\ OfWriteBack(pipe1, wEpoch[5]) => OfWriteBack(pipe1', wEpoch[5])
    BY <2>1, TailMembers DEF TypeOK
  <2>5. Next1' = Next1 /\ Next0' = Next0
    BY <2>1, <2>2, <2>3 DEF Next1, Next0
  <2>6. Path'
    BY <2>1, <2>2, <2>3, <2>5 DEF Path
  <2>7. EpochsAgree' /\ Behind' /\ FenceAlone'
    BY <2>1, <2>2, <2>4 DEF EpochsAgree, Behind, FenceAlone
  <2>. QED
    BY <2>6, <2>7 DEF Ordered
<1>6. CASE Decode
  <2> DEFINE h == Head(pipe1)
  <2>1. /\ UNCHANGED <<rg_pc, rg_fence, eEpoch, wEpoch, arch, pipe0, pipe3, pipe4>>
        /\ pipe1 # <<>> /\ pipe1' = Tail(pipe1) /\ h.ep = Epochs(3)
        /\ pipe2 = <<>> /\ h.ep[2] = wEpoch[5]
    BY <1>6, SameEpochs DEF Decode, DecodeReady, fetchVars, epochVars, archVars
  <2>2. \E z : pipe2' = <<z>> /\ z.pc = h.pc /\ z.ep = h.ep /\ z.npc = h.npc
    BY <1>6 DEF Decode
  <2>3. UNCHANGED <<Next4, Next3, Epochs(3)>>
    BY <2>1 DEF Next4, Next3, Epochs
  <2>4. Next2 = Next3
    BY <2>1 DEF Next2, After
  <2>5. /\ h.pc = Next2
        /\ Good(pipe1', Epochs(3), h.npc)
        /\ After(pipe1', Epochs(3), h.npc) = Next1
    BY <2>1, TailGood DEF Path, Next1, TypeOK
  <2>6. /\ Good(pipe2', Epochs(3), Next3)
        /\ After(pipe2', Epochs(3), Next3) = h.npc
    BY <2>1, <2>2, <2>4, <2>5 DEF Good, StaleFirst, PathFrom, After
  <2>7. Next2' = h.npc /\ Next1' = Next1 /\ Next0' = Next0
    BY <2>1, <2>3, <2>5, <2>6 DEF Next2, Next1, Next0
  <2>8. StaleFirst(pipe1, Epochs(3))
    BY DEF Path, Good
  <2>9. /\ Some(pipe1, Epochs(3)) /\ All(pipe1', Epochs(3))
        /\ OfWriteBack(pipe1, wEpoch[5]) => OfWriteBack(pipe1', wEpoch[5])
    BY <2>1, <2>8, TailMembers DEF TypeOK
  <2>10. OfWriteBack(pipe2', wEpoch[5])
    BY <2>1, <2>2 DEF OfWriteBack
  <2>11. Path'
    BY <2>1, <2>3, <2>5, <2>6, <2>7 DEF Path
  <2>12. EpochsAgree' /\ Behind' /\ FenceAlone'
    BY <2>1, <2>3, <2>9, <2>10 DEF EpochsAgree, Behind, FenceAlone
  <2>. QED
    BY <2>11, <2>12 DEF Ordered
<1>7. CASE ResumeWFI \/ UNCHANGED vars
  <2>1. UNCHANGED <<rg_pc, rg_fence, eEpoch, wEpoch, arch, pipe0, pipe1, pipe2, pipe3, pipe4>>
    BY <1>7 DEF ResumeWFI, vars, fetchVars, epochVars, archVars
  <2>2. UNCHANGED <<Next4, Next3, Next2, Next1, Next0, Epochs(3)>>
    BY <2>1 DEF Next4, Next3, Next2, Next1, Next0, Epochs
  <2>. QED
    BY <2>1, <2>2 DEF Ordered, EpochsAgree, Path, Behind, FenceAlone
<1>8. CASE ExeDrop
  <2>1. /\ UNCHANGED <<rg_pc, rg_fence, eEpoch, wEpoch, arch, pipe0, pipe1, pipe3, pipe4>>
        /\ pipe2 # <<>> /\ pipe2' = Tail(pipe2) /\ Head(pipe2).ep # Epochs(3)
    BY <1>8 DEF ExeDrop, Live, fetchVars, epochVars, archVars
  <2>2. UNCHANGED <<Next4, Next3, Epochs(3)>>
    BY <2>1 DEF Next4, Next3, Epochs
  <2>3. /\ Good(pipe2', Epochs(3), Next3)
        /\ After(pipe2', Epochs(3), Next3) = Next2
    BY <2>1, TailGood DEF Path, Next2, TypeOK
  <2>4. /\ Some(pipe2', Epochs(3)) => Some(pipe2, Epochs(3))
        /\ OfWriteBack(pipe2, wEpoch[5]) => OfWriteBack(pipe2', wEpoch[5])
    BY <2>1, TailMembers DEF TypeOK
  <2>5. Next2' = Next2 /\ Next1' = Next1 /\ Next0' = Next0
    BY <2>1, <2>2, <2>3 DEF Next2, Next1, Next0
  <2>6. Path'
    BY <2>1, <2>2, <2>3, <2>5 DEF Path
  <2>7. EpochsAgree' /\ Behind' /\ FenceAlone'
    BY <2>1, <2>2, <2>4 DEF EpochsAgree, Behind, FenceAlone
  <2>. QED
    BY <2>6, <2>7 DEF Ordered
<1>9. CASE ExeSystem \/ ExeTrap \/ ExeArith \/ ExeMemory \/ ExeMulDiv \/ ControlTraps
  <2>1. PICK fu \in FUs : Issue(fu) /\ pipe2 # <<>> /\ Live(Head(pipe2))
    BY <1>9 DEF ExeSystem, ExeTrap, ExeArith, ExeMemory, ExeMulDiv, ControlTraps,
                ControlReady, Execute, FUs
  <2>. QED
    BY <2>1, IssueKeepsOrder DEF Issue, Ordered
<1>10. CASE ControlAgrees
  <2>1. PICK o \in Outcomes(Head(pipe2)) :
          /\ ~Mispredicted(Head(pipe2), o.taken, o.target)
          /\ IssueTo("BASE", NextPC(Head(pipe2), o))
    BY <1>10 DEF ControlAgrees
  <2>2. NextPC(Head(pipe2), o) = Head(pipe2).npc
    BY <1>10, <2>1, AgreesWithPath DEF ControlAgrees
  <2>3. UNCHANGED <<rg_pc, epochVars, decodeVars>> /\ pipe2 # <<>> /\ Live(Head(pipe2))
    BY <1>10 DEF ControlAgrees, ControlReady, Execute
  <2>. QED
    BY <2>1, <2>2, <2>3, IssueKeepsOrder DEF FUs, Ordered
<1>11. CASE ControlRedirects
  BY <1>11, RedirectKeepsOrder DEF Ordered
<1>12. CASE Stage4
  <2>1. PICK fus, cu : cu \in FUs /\ Collect(fus, cu)
    BY <1>12 DEF Stage4, Forward, HandleMemory, CaptureMulDiv, FUs
  <2>. QED
    BY <2>1, CollectKeepsOrder DEF Ordered
<1>13. CASE WriteBackDrop \/ CommitBase \/ CommitMemory \/ CommitCSR
  <2>1. /\ pipe4 # <<>> /\ pipe4' = Tail(pipe4)
        /\ UNCHANGED <<rg_pc, rg_fence, eEpoch, wEpoch, pipe0, pipe1, pipe2, pipe3>>
        /\ arch' = IF Head(pipe4).ep = wEpoch[5] THEN Head(pipe4).npc ELSE arch
    BY <1>13 DEF WriteBackDrop, CommitBase, CommitMemory, CommitCSR, CommitReady,
                 Commit, fetchVars, epochVars, archVars
  <2>. QED
    BY <2>1, ConsumeKeepsOrder DEF Ordered
<1>14. CASE WriteBackTrap \/ IOFault \/ WriteBackRerun \/ WriteBackReturn
  <2>1. pipe4 # <<>> /\ Head(pipe4).ep = wEpoch[5]
    BY <1>14 DEF WriteBackTrap, IOFault, WriteBackRerun, WriteBackReturn, CommitReady
  <2>2. Head(pipe4).pc = arch
    BY <2>1, TailGood DEF TypeOK, Path
  <2>3. \E newpc, fence : WBFlush(newpc, fence) /\ arch' = newpc
    BY <1>14, <2>2 DEF WriteBackTrap, IOFault, WriteBackRerun, WriteBackReturn,
                       TakeTrap, archVars
  <2>. QED
    BY <2>1, <2>3, FlushKeepsOrder DEF Ordered
<1>. QED
  BY <1>1, <1>2, <1>3, <1>4, <1>5, <1>6, <1>7, <1>8, <1>9, <1>10, <1>11, <1>12,
     <1>13, <1>14 DEF Next, Stage0, Stage1, Stage2, Stage3, Stage5
-----------------------------------------------------------------------------
(* The step of Contents.                                                   *)
LEMMA FallsThrough ==
  ASSUME NEW a \in PC, Kind[a] \notin Control, NEW p \in Predictions(a)
  PROVE  p.npc = Fall[a] /\ p.npc \in ISA!Successors(a)
  BY DEF Predictions, Control, ISA!Successors

LEMMA OutcomeIsSuccessor ==
  ASSUME NEW x \in Decoded, x.op \in Control, x.op = Kind[x.pc], NEW o \in Outcomes(x)
  PROVE  NextPC(x, o) \in ISA!Successors(x.pc) /\ NextPC(x, o) \in PC
<1>1. o.taken \in BOOLEAN /\ o.target \in Targets[x.pc] /\ (x.op # "BRANCH" => o.taken)
      /\ x.pc \in PC
  BY DEF Outcomes, Decoded
<1>2. o.target \in PC /\ Fall[x.pc] \in PC
  BY <1>1, ProgramAssumption
<1>. QED
  BY <1>1, <1>2 DEF NextPC, Control, ISA!Successors

(* Only a result that is no trap says anything about the next pc.          *)
LEMMA IssueResolved ==
  ASSUME NEW h \in DecodedOK, NEW fu \in FUs, NEW npc \in PC,
         fu # "TRAP" => npc \in ISA!Successors(h.pc),
         fu = "SYSTEM" <=> h.op \in System,
         fu # "TRAP" => h.op # "TRAP"
  PROVE  [pc |-> h.pc, ep |-> h.ep[2], npc |-> npc, op |-> fu, rerun |-> h.rerun]
           \in IssuedOK
<1> DEFINE y == [pc |-> h.pc, ep |-> h.ep[2], npc |-> npc, op |-> fu, rerun |-> h.rerun]
<1>1. y \in Issued /\ y.pc = h.pc /\ y.npc = npc /\ y.op = fu
  BY DEF DecodedOK, Decoded, Issued
<1>2. h.op \in {"TRAP", IF Kind[h.pc] = "WFI" THEN "ALU" ELSE Kind[h.pc]}
  BY DEF DecodedOK, DecodedFrom
<1>3. Resolved(y)
  BY <1>1, <1>2 DEF Resolved, System
<1>. QED
  BY <1>1, <1>3 DEF IssuedOK

LEMMA IssueKeepsContents ==
  ASSUME Contents, pipe2 # <<>>, NEW fu \in FUs, NEW npc \in PC, IssueTo(fu, npc),
         fu # "TRAP" => npc \in ISA!Successors(Head(pipe2).pc),
         fu = "SYSTEM" <=> Head(pipe2).op \in System,
         fu # "TRAP" => Head(pipe2).op # "TRAP"
  PROVE  Contents'
<1>1. Head(pipe2) \in DecodedOK /\ pipe2' \in Seq(DecodedOK)
  BY QueueTypes DEF Contents, IssueTo
<1>2. pipe3' \in Seq(IssuedOK)
  BY <1>1, IssueResolved, QueueTypes DEF Contents, IssueTo
<1>. QED
  BY <1>1, <1>2 DEF Contents, IssueTo

(* A rule that hands on the predicted next pc of a non-control instruction. *)
LEMMA SequentialIssue ==
  ASSUME Contents, TypeOK, pipe2 # <<>>, NEW fu \in FUs, Issue(fu),
         fu # "TRAP" => Head(pipe2).op \notin Control \cup {"TRAP"},
         fu = "SYSTEM" <=> Head(pipe2).op \in System
  PROVE  Contents'
<1> DEFINE h == Head(pipe2)
<1>1. h \in DecodedOK
  BY QueueTypes DEF Contents
<1>2. /\ h.pc \in PC /\ h.npc \in PC
      /\ [npc |-> h.npc, taken |-> h.taken] \in Predictions(h.pc)
      /\ h.op \in {"TRAP", IF Kind[h.pc] = "WFI" THEN "ALU" ELSE Kind[h.pc]}
  BY <1>1 DEF DecodedOK, Decoded, Predicted, DecodedFrom
<1>3. fu # "TRAP" => Kind[h.pc] \notin Control
  BY <1>2 DEF Control
<1>4. fu # "TRAP" => h.npc \in ISA!Successors(h.pc)
  BY <1>2, <1>3, FallsThrough
<1>. QED
  BY <1>2, <1>4, IssueKeepsContents DEF Issue

LEMMA CollectKeepsContents ==
  ASSUME Contents, NEW fus, NEW cu \in FUs, Collect(fus, cu),
         cu # "TRAP" => "TRAP" \notin fus,
         cu = "SYSTEM" => fus = {"SYSTEM"},
         "SYSTEM" \in fus => cu = "SYSTEM",
         "TRAP" \in fus => cu = "TRAP"
  PROVE  Contents'
<1> DEFINE h == Head(pipe3)
           y == [h EXCEPT !.op = cu]
<1>1. h \in IssuedOK /\ pipe3' \in Seq(IssuedOK) /\ h.op \in fus
  BY QueueTypes DEF Contents, Collect
<1>2. y \in Issued /\ y.pc = h.pc /\ y.npc = h.npc /\ y.op = cu
  BY <1>1 DEF IssuedOK, Issued
<1>3. Resolved(y)
  BY <1>1, <1>2 DEF IssuedOK, Resolved
<1>4. y \in IssuedOK
  BY <1>2, <1>3 DEF IssuedOK
<1> HIDE DEF y
<1>5. pipe4' \in Seq(IssuedOK)
  BY <1>4, QueueTypes DEF Contents, Collect, y
<1>. QED
  BY <1>1, <1>5 DEF Contents, Collect

LEMMA ContentsStep == IInv /\ [Next]_vars => Contents'
<1> SUFFICES ASSUME IInv, [Next]_vars PROVE Contents'
  OBVIOUS
<1> USE DEF IInv
<1>1. CASE FetchNext
  <2>1. PICK p \in Predictions(rg_pc) :
          pipe0' = Append(pipe0, [pc |-> rg_pc, ep |-> Epochs(0),
                                  npc |-> p.npc, taken |-> p.taken])
    BY <1>1 DEF FetchNext
  <2> DEFINE y == [pc |-> rg_pc, ep |-> Epochs(0), npc |-> p.npc, taken |-> p.taken]
  <2>2. y \in Fetched
    BY <2>1, PredictionTypes DEF TypeOK, Epochs, Fetched
  <2>3. [npc |-> p.npc, taken |-> p.taken] = p
    BY DEF Predictions
  <2>4. y \in FetchedOK
    BY <2>2, <2>3 DEF FetchedOK, Predicted
  <2>. QED
    BY <1>1, <2>1, <2>4, QueueTypes DEF FetchNext, Contents
<1>2. CASE FetchFence \/ ResumeWFI \/ UNCHANGED vars
  BY <1>2 DEF FetchFence, ResumeWFI, vars, Contents
<1>3. CASE FetchDrop
  BY <1>3, QueueTypes DEF FetchDrop, Contents
<1>4. CASE FetchPass
  BY <1>4, QueueTypes DEF FetchPass, Contents
<1>5. CASE DecodeDrop
  BY <1>5, QueueTypes DEF DecodeDrop, DecodeReady, Contents
<1>6. CASE Decode
  <2> DEFINE h == Head(pipe1)
  <2>1. h \in FetchedOK /\ pipe1' \in Seq(FetchedOK)
    BY <1>6, QueueTypes DEF Decode, DecodeReady, Contents
  <2>2. PICK op \in DecodedAs(Kind[h.pc]) :
          pipe2' = <<[pc |-> h.pc, ep |-> h.ep, npc |-> h.npc, taken |-> h.taken,
                      op |-> IF op = "WFI" THEN "ALU" ELSE op, rerun |-> rg_microtrap]>>
    BY <1>6 DEF Decode
  <2> DEFINE z == [pc |-> h.pc, ep |-> h.ep, npc |-> h.npc, taken |-> h.taken,
                   op |-> IF op = "WFI" THEN "ALU" ELSE op, rerun |-> rg_microtrap]
  <2>3. h \in Fetched /\ Predicted(h) /\ Kind[h.pc] \in Kinds
    BY <2>1, ProgramAssumption DEF FetchedOK, Fetched
  <2>4. op \in {Kind[h.pc], "TRAP"}
    BY <2>2 DEF DecodedAs
  <2>5. z \in Decoded
    BY <2>3, <2>4 DEF Fetched, Decoded, Ops, Kinds, Control, System, Fences, TypeOK
  <2>6. Predicted(z) /\ DecodedFrom(z)
    BY <2>3, <2>4 DEF Predicted, DecodedFrom
  <2>7. z \in DecodedOK
    BY <2>5, <2>6 DEF DecodedOK
  <2>. QED
    BY <1>6, <2>1, <2>2, <2>7 DEF Decode, Contents
<1>7. CASE ExeDrop
  BY <1>7, QueueTypes DEF ExeDrop, Contents
<1>8. CASE ExeSystem
  BY <1>8, SequentialIssue DEF ExeSystem, Execute, FUs, System, Control
<1>9. CASE ExeTrap
  BY <1>9, SequentialIssue DEF ExeTrap, Execute, FUs, System, Control
<1>10. CASE ExeArith
  BY <1>10, SequentialIssue DEF ExeArith, Execute, FUs, System, Control
<1>11. CASE ExeMemory
  BY <1>11, SequentialIssue DEF ExeMemory, Execute, FUs, System, Control, Fences
<1>12. CASE ExeMulDiv
  BY <1>12, SequentialIssue DEF ExeMulDiv, Execute, FUs, System, Control
<1>13. CASE ControlTraps
  BY <1>13, SequentialIssue DEF ControlTraps, ControlReady, Execute, FUs, System, Control
<1>14. ASSUME ControlReady
       PROVE  /\ pipe2 # <<>> /\ Head(pipe2).op \notin System \cup {"TRAP"}
              /\ \A o \in Outcomes(Head(pipe2)) :
                   LET npc == NextPC(Head(pipe2), o)
                   IN npc \in PC /\ npc \in ISA!Successors(Head(pipe2).pc)
  <2> DEFINE h == Head(pipe2)
  <2>1. pipe2 # <<>> /\ h.op \in Control
    BY <1>14 DEF ControlReady, Execute
  <2>2. h \in Decoded /\ DecodedFrom(h)
    BY <2>1, QueueTypes DEF Contents, DecodedOK
  <2>3. h.op = Kind[h.pc]
    BY <2>1, <2>2 DEF DecodedFrom, Control
  <2>. QED
    BY <2>1, <2>2, <2>3, OutcomeIsSuccessor DEF Control, System
<1>15. CASE ControlAgrees
  <2>1. PICK o \in Outcomes(Head(pipe2)) : IssueTo("BASE", NextPC(Head(pipe2), o))
    BY <1>15 DEF ControlAgrees
  <2>. QED
    BY <1>14, <1>15, <2>1, IssueKeepsContents DEF ControlAgrees, FUs
<1>16. CASE ControlRedirects
  <2> DEFINE h == Head(pipe2)
  <2>1. PICK o \in Outcomes(h) :
          pipe3' = Append(pipe3, [pc |-> h.pc, ep |-> h.ep[2], npc |-> NextPC(h, o),
                                  op |-> "BASE", rerun |-> h.rerun])
    BY <1>16 DEF ControlRedirects
  <2>2. h \in DecodedOK /\ pipe2' \in Seq(DecodedOK) /\ UNCHANGED <<pipe0, pipe1, pipe4>>
    BY <1>14, <1>16, QueueTypes DEF ControlRedirects, Contents
  <2>3. pipe3' \in Seq(IssuedOK)
    BY <1>14, <1>16, <2>1, <2>2, IssueResolved, QueueTypes
       DEF ControlRedirects, Contents, FUs
  <2>. QED
    BY <2>2, <2>3 DEF Contents
<1>17. CASE Stage4
  BY <1>17, CollectKeepsContents
     DEF Stage4, Forward, HandleMemory, CaptureMulDiv, FUs
<1>18. CASE Stage5
  <2>1. pipe4 # <<>> /\ pipe4' = Tail(pipe4) /\ UNCHANGED <<pipe0, pipe1, pipe2, pipe3>>
    BY <1>18 DEF Stage5, WriteBackDrop, CommitBase, CommitMemory, CommitCSR, CommitReady,
                 Commit, WriteBackTrap, IOFault, WriteBackRerun, WriteBackReturn,
                 TakeTrap, WBFlush
  <2>. QED
    BY <2>1, QueueTypes DEF Contents
<1>. QED
  BY <1>1, <1>2, <1>3, <1>4, <1>5, <1>6, <1>7, <1>8, <1>9, <1>10, <1>11, <1>12,
     <1>13, <1>15, <1>16, <1>17, <1>18 DEF Next, Stage0, Stage1, Stage2, Stage3
-----------------------------------------------------------------------------
LEMMA InvInit == Init => IInv
<1> SUFFICES ASSUME Init PROVE IInv
  OBVIOUS
<1>1. TypeOK
  BY TypeInit
<1>2. EpochsAgree
  BY DEF Init, EpochsAgree
<1>3. \A c : ~Some(pipe0, c) /\ ~Some(pipe1, c) /\ ~Some(pipe2, c)
              /\ ~Some(pipe3, c) /\ ~Some(pipe4, c)
  BY DEF Init, Some
<1>4. Next4 = ResetPC /\ Next3 = ResetPC /\ Next2 = ResetPC /\ Next1 = ResetPC
      /\ Next0 = ResetPC
  BY DEF Init, After, Next4, Next3, Next2, Next1, Next0
<1>5. Path
  BY <1>1, <1>3, <1>4, NoneGood DEF Init, Path, TypeOK
<1>6. Behind /\ FenceAlone
  BY <1>3 DEF Behind, FenceAlone
<1>7. Contents
  BY DEF Init, Contents
<1>. QED
  BY <1>1, <1>2, <1>5, <1>6, <1>7 DEF IInv

LEMMA Inductive == Spec => []IInv
<1>1. IInv /\ [Next]_vars => IInv'
  BY TypeStep, OrderedStep, ContentsStep DEF IInv, Ordered
<1>. QED
  BY InvInit, <1>1, PTL DEF Spec

LEMMA HeadOfPipe4 ==
  ASSUME IInv, pipe4 # <<>>, Head(pipe4).ep = wEpoch[5]
  PROVE  Head(pipe4).pc = arch
  BY TailGood DEF IInv, TypeOK, Path

(* Write-back never accepts a wrong-path instruction: with a single epoch  *)
(* bit, any program and any depths.                                        *)
THEOREM CommitOrder == Spec => []CommitsInOrder
<1>1. IInv => CommitsInOrder
  BY HeadOfPipe4 DEF CommitsInOrder
<1>. QED
  BY Inductive, <1>1, PTL

(* stage3 never executes a wrong-path instruction.                         *)
THEOREM ExecuteOrder == Spec => []ExecutesInOrder
<1>1. IInv => ExecutesInOrder
  BY TailGood DEF IInv, TypeOK, Path, ExecutesInOrder, Live
<1>. QED
  BY Inductive, <1>1, PTL

(* The pc a jump is compared with is that of the instruction fetched after *)
(* it.                                                                     *)
THEOREM SuccessorAtHand == Spec => []NextPCIsSuccessor
<1>1. IInv => NextPCIsSuccessor
  <2> SUFFICES ASSUME IInv, pipe1 # <<>>, pipe2 # <<>>, Live(Head(pipe2))
               PROVE  Head(pipe1).ep = Epochs(3) /\ Head(pipe1).pc = Head(pipe2).npc
    BY DEF NextPCIsSuccessor
  <2>1. Some(pipe2, Epochs(3))
    BY TailMembers DEF IInv, TypeOK, Live
  <2>2. All(pipe1, Epochs(3))
    BY <2>1 DEF IInv, Behind
  <2>3. Head(pipe1).ep = Epochs(3)
    BY <2>2, TailMembers DEF IInv, TypeOK
  <2>4. Head(pipe1).pc = Next2
    BY <2>3, TailGood DEF IInv, TypeOK, Path
  <2>5. Len(pipe2) = 1
    BY OneDeep DEF IInv, TypeOK
  <2>6. Next2 = Head(pipe2).npc
    BY <2>5 DEF Next2, After, Live
  <2>. QED
    BY <2>3, <2>4, <2>6
<1>. QED
  BY Inductive, <1>1, PTL

(* A fence request waits for the I-cache with nothing live in flight.      *)
THEOREM FenceKept == Spec => []FenceNotOverwritten
<1>1. IInv => FenceNotOverwritten
  BY DEF IInv, FenceAlone, FenceNotOverwritten, Some, Live
<1>. QED
  BY Inductive, <1>1, PTL

(* The pipeline implements the sequential machine: initial states map to   *)
(* initial states, every step to a step of InOrderISA or to a stutter.     *)
THEOREM Refinement == Spec => ImplementsISA
<1>1. Init => ISA!Init
  BY DEF Init, ISA!Init
<1>2. ASSUME IInv, [Next]_vars
      PROVE  [ISA!Next]_(ISA!vars)
  <2> USE DEF ISA!vars
  <2> DEFINE h == Head(pipe4)
  <2>1. CASE CommitBase \/ CommitMemory \/ CommitCSR
    <3>1. /\ Commit /\ pipe4 # <<>> /\ h.ep = wEpoch[5] /\ h.op \notin {"TRAP"}
          /\ h.op = "SYSTEM" => Kind[h.pc] = "CSR"
      BY <2>1 DEF CommitBase, CommitMemory, CommitCSR, CommitReady
    <3>2. h.pc = arch
      BY <1>2, <3>1, HeadOfPipe4
    <3>3. Resolved(h)
      BY <1>2, <3>1, QueueTypes DEF IInv, Contents, IssuedOK
    <3>4. h.npc \in ISA!Successors(arch) /\ Kind[arch] # "XRET"
      BY <3>1, <3>2, <3>3 DEF Resolved, System
    <3>5. ISA!Retire
      BY <3>1, <3>2, <3>4 DEF Commit, ISA!Retire
    <3>. QED
      BY <3>5 DEF ISA!Next
  <2>2. CASE WriteBackTrap \/ IOFault
    <3>1. TakeTrap /\ h.pc = arch
      BY <1>2, <2>2, HeadOfPipe4 DEF WriteBackTrap, IOFault, CommitReady
    <3>. QED
      BY <3>1 DEF TakeTrap, ISA!Trap, ISA!Next
  <2>3. CASE WriteBackReturn
    <3>1. h.pc = arch /\ Kind[arch] = "XRET"
      BY <1>2, <2>3, HeadOfPipe4 DEF WriteBackReturn, CommitReady
    <3>. QED
      BY <2>3, <3>1 DEF WriteBackReturn, ISA!Return, ISA!Next
  <2>4. CASE UNCHANGED archVars
    BY <2>4 DEF archVars
  <2>5. UNCHANGED archVars \/ CommitBase \/ CommitMemory \/ CommitCSR
        \/ WriteBackTrap \/ IOFault \/ WriteBackReturn
    BY <1>2 DEF Next, Stage0, Stage1, Stage2, Stage3, Stage4, Stage5, vars,
         FetchNext, FetchFence, FetchDrop, FetchPass, DecodeDrop, Decode, ResumeWFI,
         ExeDrop, ExeSystem, ExeTrap, ExeArith, ExeMemory, ExeMulDiv, Issue, IssueTo,
         ControlAgrees, ControlTraps, ControlRedirects, Forward, HandleMemory,
         CaptureMulDiv, Collect, WriteBackDrop, WriteBackRerun
  <2>. QED
    BY <2>1, <2>2, <2>3, <2>4, <2>5
<1>. QED
  BY <1>1, <1>2, Inductive, PTL DEF Spec, ImplementsISA, ISA!Spec
-----------------------------------------------------------------------------
(* Serialisation.  A live system operation or fence leaves its re-run      *)
(* cause in stage2, where the next instruction takes it and stalls decode: *)
(* until that one flushes there is nothing behind but the rerun.           *)
Rerun(x) == x.op = "TRAP" /\ x.rerun # "none"

SerialIn(q, c)   == \E i \in 1..Len(q) : q[i].ep = c /\ Serial(q[i])
OnlyReruns(q, c) == \A i \in 1..Len(q) : q[i].ep = c => Rerun(q[i])
Followed(q, c) ==
  \A i, j \in 1..Len(q) : i < j /\ q[i].ep = c /\ Serial(q[i]) => Rerun(q[j])

SerialIssued == SerialIn(pipe4, wEpoch[5]) \/ SerialIn(pipe3, wEpoch[5])

SerialInv ==
  /\ Followed(pipe4, wEpoch[5]) /\ Followed(pipe3, wEpoch[5])
  /\ SerialIn(pipe4, wEpoch[5]) => OnlyReruns(pipe3, wEpoch[5])
  /\ SerialIssued => OnlyReruns(pipe2, Epochs(3))
  /\ SerialIssued \/ SerialIn(pipe2, Epochs(3)) => rg_microtrap # "none" \/ rg_stall

LEMMA AppendSerial ==
  ASSUME NEW S, NEW q \in Seq(S), NEW c, NEW y \in S
  PROVE  LET r == Append(q, y)
         IN /\ SerialIn(r, c) <=> SerialIn(q, c) \/ (y.ep = c /\ Serial(y))
            /\ OnlyReruns(r, c) <=> OnlyReruns(q, c) /\ (y.ep = c => Rerun(y))
            /\ Followed(q, c) /\ (SerialIn(q, c) => Rerun(y)) => Followed(r, c)
<1> DEFINE r == Append(q, y)
<1>1. /\ Len(r) = Len(q) + 1 /\ r[Len(r)] = y /\ Len(q) \in Nat
      /\ \A i \in 1..Len(q) : r[i] = q[i]
  OBVIOUS
<1>2. 1..Len(r) = 1..Len(q) \cup {Len(r)}
  BY <1>1
<1> HIDE DEF r
<1>3. SerialIn(r, c) <=> SerialIn(q, c) \/ (y.ep = c /\ Serial(y))
  BY <1>1, <1>2 DEF SerialIn
<1>4. OnlyReruns(r, c) <=> OnlyReruns(q, c) /\ (y.ep = c => Rerun(y))
  BY <1>1, <1>2 DEF OnlyReruns
<1>5. ASSUME Followed(q, c), SerialIn(q, c) => Rerun(y) PROVE Followed(r, c)
  BY <1>1, <1>2, <1>5 DEF Followed, SerialIn
<1>. QED
  BY <1>3, <1>4, <1>5 DEF r

LEMMA TailSerial ==
  ASSUME NEW S, NEW q \in Seq(S), q # <<>>, NEW c
  PROVE  /\ SerialIn(Tail(q), c) => SerialIn(q, c)
         /\ Head(q).ep = c /\ Serial(Head(q)) => SerialIn(q, c)
         /\ OnlyReruns(q, c) => OnlyReruns(Tail(q), c)
         /\ OnlyReruns(q, c) /\ Head(q).ep = c => Rerun(Head(q))
         /\ Followed(q, c) => Followed(Tail(q), c)
         /\ Followed(q, c) /\ Head(q).ep = c /\ Serial(Head(q)) => OnlyReruns(Tail(q), c)
<1> DEFINE t == Tail(q)
<1>1. /\ Len(t) = Len(q) - 1 /\ Len(q) \in Nat \ {0} /\ Head(q) = q[1]
      /\ \A i \in 1..Len(t) : t[i] = q[i + 1]
  <2>1. Len(t) = Len(q) - 1 /\ t \in Seq(S) /\ Len(q) \in Nat \ {0} /\ Head(q) = q[1]
    BY QueueTypes
  <2>. QED
    BY <2>1
<1>2. \A i \in 1..Len(t) : i + 1 \in 1..Len(q) /\ 1 < i + 1
  BY <1>1
<1>3. 1 \in 1..Len(q)
  BY <1>1
<1> HIDE DEF t
<1>4. /\ SerialIn(t, c) => SerialIn(q, c)
      /\ Head(q).ep = c /\ Serial(Head(q)) => SerialIn(q, c)
  BY <1>1, <1>2, <1>3 DEF SerialIn
<1>5. /\ OnlyReruns(q, c) => OnlyReruns(t, c)
      /\ OnlyReruns(q, c) /\ Head(q).ep = c => Rerun(Head(q))
  BY <1>1, <1>2, <1>3 DEF OnlyReruns
<1>6. Followed(q, c) => Followed(t, c)
  <2> SUFFICES ASSUME Followed(q, c), NEW i \in 1..Len(t), NEW j \in 1..Len(t),
                      i < j, t[i].ep = c, Serial(t[i])
               PROVE  Rerun(t[j])
    BY DEF Followed
  <2>1. i + 1 < j + 1
    OBVIOUS
  <2>. QED
    BY <1>1, <1>2, <2>1 DEF Followed
<1>7. Followed(q, c) /\ Head(q).ep = c /\ Serial(Head(q)) => OnlyReruns(t, c)
  BY <1>1, <1>2, <1>3 DEF Followed, OnlyReruns
<1>. QED
  BY <1>4, <1>5, <1>6, <1>7 DEF t

(* Without a live entry there is no serial one.                            *)
LEMMA NoneSerial ==
  ASSUME NEW q, NEW c, ~Some(q, c)
  PROVE  ~SerialIn(q, c) /\ OnlyReruns(q, c) /\ Followed(q, c)
  BY DEF Some, SerialIn, OnlyReruns, Followed

(* An instruction leaves stage3, a rerun if anything serial is ahead of    *)
(* it; a control instruction is neither serial nor a rerun.                *)
LEMMA IssueKeepsSerial ==
  ASSUME IInv, SerialInv, pipe2 # <<>>, Live(Head(pipe2)), NEW npc \in PC, NEW fu \in FUs,
         pipe3' = Append(pipe3, [pc |-> Head(pipe2).pc, ep |-> Head(pipe2).ep[2],
                                 npc |-> npc, op |-> fu, rerun |-> Head(pipe2).rerun]),
         pipe2' = Tail(pipe2), UNCHANGED <<pipe4, wEpoch>>,
         Head(pipe2).op = "TRAP" => fu = "TRAP",
         \/ UNCHANGED <<rg_microtrap, rg_stall>>
         \/ ~Serial(Head(pipe2)) /\ Head(pipe2).op # "TRAP" /\ fu # "TRAP"
  PROVE  SerialInv'
<1> DEFINE h == Head(pipe2)
           y == [pc |-> h.pc, ep |-> h.ep[2], npc |-> npc, op |-> fu, rerun |-> h.rerun]
           w == wEpoch[5]
<1>1. /\ h.ep = Epochs(3) /\ h.ep[2] = w /\ h \in Decoded
      /\ pipe2 \in Seq(Decoded) /\ pipe3 \in Seq(Issued) /\ pipe4 \in Seq(Issued)
  BY SameEpochs, QueueTypes DEF Live, IInv, TypeOK
<1>2. \A c : ~SerialIn(pipe2', c) /\ OnlyReruns(pipe2', c)
  <2>1. Len(pipe2) = 1
    BY OneDeep DEF IInv, TypeOK
  <2>2. Len(pipe2') = 0
    BY <1>1, <2>1, QueueTypes
  <2>3. \A i : i \notin 1..0
    OBVIOUS
  <2>4. \A i : i \notin 1..Len(pipe2')
    BY <2>2, <2>3, Zenon
  <2>. QED
    BY <2>4, Zenon DEF SerialIn, OnlyReruns
<1>3. y \in Issued
  <2>1. h.pc \in PC /\ h.ep[2] \in {0, 1} /\ h.rerun \in {"none"} \cup Causes
    BY <1>1 DEF Decoded
  <2>. QED
    BY <2>1 DEF Issued
<1>4. y.ep = w /\ (Rerun(h) => Rerun(y)) /\ (Serial(y) => Serial(h))
  BY <1>1 DEF Rerun, Serial
<1>5. (Serial(h) => SerialIn(pipe2, Epochs(3))) /\ (SerialIssued => Rerun(h))
  BY <1>1, TailSerial DEF SerialInv
<1>6. pipe3' = Append(pipe3, y) /\ w' = w
  OBVIOUS
<1> HIDE DEF y
<1>7. /\ SerialIn(pipe3', w) <=> SerialIn(pipe3, w) \/ Serial(y)
      /\ OnlyReruns(pipe3', w) <=> OnlyReruns(pipe3, w) /\ Rerun(y)
      /\ Followed(pipe3, w) /\ (SerialIn(pipe3, w) => Rerun(y)) => Followed(pipe3', w)
  BY <1>1, <1>3, <1>4, <1>6, AppendSerial
<1>8. Followed(pipe4', w') /\ Followed(pipe3', w')
  BY <1>4, <1>5, <1>6, <1>7 DEF SerialInv, SerialIssued
<1>9. SerialIn(pipe4', w') => OnlyReruns(pipe3', w')
  BY <1>4, <1>5, <1>6, <1>7 DEF SerialInv, SerialIssued
<1>10. SerialIssued' => SerialIssued \/ (SerialIn(pipe2, Epochs(3)) /\ Serial(h))
  <2>1. SerialIssued' <=> SerialIn(pipe4, w) \/ SerialIn(pipe3', w)
    BY <1>6, Zenon DEF SerialIssued
  <2>. QED
    BY <1>4, <1>5, <1>7, <2>1, Zenon DEF SerialIssued
<1>11. SerialIssued' => rg_microtrap' # "none" \/ rg_stall'
  BY <1>5, <1>10 DEF SerialInv, Rerun
<1>. QED
  BY <1>2, <1>8, <1>9, <1>11 DEF SerialInv

LEMMA SerialStep ==
  ASSUME IInv, SerialInv, [Next]_vars
  PROVE  SerialInv'
<1> DEFINE w == wEpoch[5]
<1>1. /\ pipe1 \in Seq(Fetched) /\ pipe2 \in Seq(Decoded)
      /\ pipe3 \in Seq(Issued) /\ pipe4 \in Seq(Issued)
      /\ IInv'
  BY TypeStep, OrderedStep, ContentsStep DEF IInv, Ordered, TypeOK
<1>2. CASE \/ Stage0 \/ Stage1 \/ DecodeDrop \/ ResumeWFI \/ UNCHANGED vars
  <2>1. UNCHANGED <<eEpoch, wEpoch, pipe2, pipe3, pipe4, rg_stall, rg_microtrap>>
    BY <1>2 DEF Stage0, FetchNext, FetchFence, Stage1, FetchDrop, FetchPass, DecodeDrop,
         ResumeWFI, vars, epochVars, decodeVars
  <2>. QED
    BY <2>1 DEF SerialInv, SerialIssued, Epochs
<1>3. CASE Decode
  <2> DEFINE h == Head(pipe1)
  <2>1. /\ UNCHANGED <<eEpoch, wEpoch, pipe3, pipe4>>
        /\ ~rg_stall /\ pipe2 = <<>> /\ pipe1 # <<>>
    BY <1>3 DEF Decode, DecodeReady, epochVars
  <2>2. PICK op \in DecodedAs(Kind[h.pc]) :
          /\ pipe2' = <<[pc |-> h.pc, ep |-> h.ep, npc |-> h.npc, taken |-> h.taken,
                         op |-> IF op = "WFI" THEN "ALU" ELSE op,
                         rerun |-> rg_microtrap]>>
          /\ rg_stall' = (op = "TRAP")
          /\ rg_microtrap' \in IF rg_microtrap # "none" THEN {"none"}
                              ELSE RerunCauses(Kind[h.pc], op)
    BY <1>3 DEF Decode
  <2> DEFINE z == [pc |-> h.pc, ep |-> h.ep, npc |-> h.npc, taken |-> h.taken,
                   op |-> IF op = "WFI" THEN "ALU" ELSE op, rerun |-> rg_microtrap]
  <2>3. Len(pipe2') = 1 /\ pipe2'[1] = z
    BY <2>2
  <2>4. rg_microtrap # "none" => op = "TRAP" /\ Rerun(z) /\ rg_stall'
    BY <2>2 DEF DecodedAs, Rerun
  <2>5. SerialIssued => rg_microtrap # "none"
    BY <2>1 DEF SerialInv
  <2>6. rg_microtrap = "none" /\ Serial(z) => rg_microtrap' # "none"
    <3>1. ASSUME rg_microtrap = "none", Serial(z) PROVE rg_microtrap' # "none"
      <4>1. op # "TRAP" /\ Kind[h.pc] \in System \cup Fences
        BY <3>1 DEF Serial
      <4>2. "none" \notin RerunCauses(Kind[h.pc], op)
        BY <4>1 DEF RerunCauses, System, Fences
      <4>. QED
        BY <2>2, <3>1, <4>2
    <3>. QED
      BY <3>1
  <2>7. SerialIssued' <=> SerialIssued
    BY <2>1 DEF SerialIssued
  <2>8. OnlyReruns(pipe2', Epochs(3)') <=> (z.ep = Epochs(3)' => Rerun(z))
    BY <2>3 DEF OnlyReruns
  <2>9. SerialIn(pipe2', Epochs(3)') => Serial(z)
    BY <2>3 DEF SerialIn
  <2> HIDE DEF z
  <2>10. SerialIssued' => OnlyReruns(pipe2', Epochs(3)')
    BY <2>4, <2>5, <2>7, <2>8
  <2>11. SerialIssued' \/ SerialIn(pipe2', Epochs(3)') => rg_microtrap' # "none" \/ rg_stall'
    BY <2>4, <2>5, <2>6, <2>7, <2>9
  <2>. QED
    BY <2>1, <2>10, <2>11 DEF SerialInv
<1>4. CASE ExeDrop
  <2>1. UNCHANGED <<eEpoch, wEpoch, pipe3, pipe4, rg_stall, rg_microtrap>>
        /\ pipe2 # <<>> /\ pipe2' = Tail(pipe2)
    BY <1>4 DEF ExeDrop, epochVars, decodeVars
  <2>2. /\ SerialIn(pipe2', Epochs(3)) => SerialIn(pipe2, Epochs(3))
        /\ OnlyReruns(pipe2, Epochs(3)) => OnlyReruns(pipe2', Epochs(3))
    BY <1>1, <2>1, TailSerial
  <2>. QED
    BY <2>1, <2>2 DEF SerialInv, SerialIssued, Epochs
<1>5. CASE ExeSystem \/ ExeTrap \/ ExeArith \/ ExeMemory \/ ExeMulDiv \/ ControlTraps
  <2>1. pipe2 # <<>> /\ Live(Head(pipe2))
    BY <1>5 DEF ExeSystem, ExeTrap, ExeArith, ExeMemory, ExeMulDiv, ControlTraps,
         ControlReady, Execute
  <2>2. PICK fu \in FUs : Issue(fu) /\ (Head(pipe2).op = "TRAP" => fu = "TRAP")
    BY <1>5 DEF ExeSystem, ExeTrap, ExeArith, ExeMemory, ExeMulDiv, ControlTraps,
         ControlReady, Execute, FUs, System, Control, Fences
  <2>3. Head(pipe2).npc \in PC
    <3>1. Head(pipe2) \in Decoded
      BY <1>1, <2>1, QueueTypes
    <3>. QED
      BY <3>1 DEF Decoded
  <2>. QED
    BY <2>1, <2>2, <2>3, IssueKeepsSerial DEF Issue, IssueTo, epochVars, decodeVars
<1>6. ASSUME ControlReady
      PROVE  /\ pipe2 # <<>> /\ Live(Head(pipe2)) /\ Head(pipe2).op # "TRAP"
             /\ ~Serial(Head(pipe2))
             /\ \A o \in Outcomes(Head(pipe2)) : NextPC(Head(pipe2), o) \in PC
  <2>1. pipe2 # <<>> /\ Live(Head(pipe2)) /\ Head(pipe2).op \in Control
    BY <1>6 DEF ControlReady, Execute
  <2>2. Head(pipe2) \in DecodedOK
    BY <2>1, QueueTypes DEF IInv, Contents
  <2>3. Head(pipe2).op = Kind[Head(pipe2).pc]
    BY <2>1, <2>2 DEF DecodedOK, DecodedFrom, Control
  <2>4. Head(pipe2).pc \in PC
    BY <2>2 DEF DecodedOK, Decoded
  <2>. QED
    BY <2>1, <2>3, <2>4, NextPCType DEF Serial, Control, System, Fences
<1>7. CASE ControlAgrees
  <2>1. PICK o \in Outcomes(Head(pipe2)) : IssueTo("BASE", NextPC(Head(pipe2), o))
    BY <1>7 DEF ControlAgrees
  <2>. QED
    BY <1>6, <1>7, <2>1, IssueKeepsSerial
       DEF ControlAgrees, IssueTo, FUs, epochVars, decodeVars
<1>8. CASE ControlRedirects
  <2>1. PICK o \in Outcomes(Head(pipe2)) :
          pipe3' = Append(pipe3, [pc |-> Head(pipe2).pc, ep |-> Head(pipe2).ep[2],
                                  npc |-> NextPC(Head(pipe2), o), op |-> "BASE",
                                  rerun |-> Head(pipe2).rerun])
    BY <1>8 DEF ControlRedirects
  <2>. QED
    BY <1>6, <1>8, <2>1, IssueKeepsSerial DEF ControlRedirects, FUs
<1>9. CASE Stage4
  <2> DEFINE x == Head(pipe3)
             Moves(cu) == /\ pipe3 # <<>> /\ pipe3' = Tail(pipe3)
                          /\ pipe4' = Append(pipe4, [x EXCEPT !.op = cu])
                          /\ UNCHANGED <<eEpoch, wEpoch, pipe2, rg_stall, rg_microtrap>>
                          /\ x.op = "TRAP" => cu = "TRAP"
                          /\ cu # "TRAP" => x.op # "TRAP"
  <2>1. \E cu \in FUs : Moves(cu)
    <3>1. CASE Forward
      BY <3>1 DEF Forward, Collect, FUs, epochVars, decodeVars
    <3>2. CASE HandleMemory
      BY <3>2 DEF HandleMemory, Collect, FUs, epochVars, decodeVars
    <3>3. CASE CaptureMulDiv
      BY <3>3 DEF CaptureMulDiv, Collect, FUs, epochVars, decodeVars
    <3>. QED
      BY <1>9, <3>1, <3>2, <3>3 DEF Stage4
  <2> PICK cu \in FUs : Moves(cu)
    BY <2>1
  <2> DEFINE y == [x EXCEPT !.op = cu]
  <2>2. /\ pipe3 # <<>> /\ pipe4' = Append(pipe4, y) /\ pipe3' = Tail(pipe3)
        /\ UNCHANGED <<eEpoch, wEpoch, pipe2, rg_stall, rg_microtrap>>
    OBVIOUS
  <2>3. x \in Issued
    BY <1>1, <2>2, QueueTypes
  <2>4. y \in Issued /\ y.ep = x.ep /\ (Rerun(x) => Rerun(y)) /\ (Serial(y) => Serial(x))
    BY <2>3 DEF Issued, Rerun, Serial
  <2> HIDE DEF y
  <2>5. /\ SerialIn(pipe4', w) <=> SerialIn(pipe4, w) \/ (y.ep = w /\ Serial(y))
        /\ Followed(pipe4, w) /\ (SerialIn(pipe4, w) => Rerun(y)) => Followed(pipe4', w)
    BY <1>1, <2>2, <2>4, AppendSerial
  <2>6. /\ SerialIn(pipe3', w) => SerialIn(pipe3, w)
        /\ x.ep = w /\ Serial(x) => SerialIn(pipe3, w)
        /\ OnlyReruns(pipe3, w) => OnlyReruns(pipe3', w)
        /\ OnlyReruns(pipe3, w) /\ x.ep = w => Rerun(x)
        /\ Followed(pipe3, w) => Followed(pipe3', w)
        /\ Followed(pipe3, w) /\ x.ep = w /\ Serial(x) => OnlyReruns(pipe3', w)
    BY <1>1, <2>2, TailSerial
  <2>7. SerialIn(pipe4, w) => x.ep = w
    <3>1. SerialIn(pipe4, w) => Some(pipe4, w)
      BY DEF SerialIn, Some
    <3>. QED
      BY <1>1, <2>2, <3>1, TailMembers DEF IInv, Behind
  <2>8. SerialIssued' => SerialIssued
    BY <2>2, <2>4, <2>5, <2>6 DEF SerialIssued
  <2>9. Followed(pipe4', w') /\ Followed(pipe3', w')
    BY <2>2, <2>4, <2>5, <2>6, <2>7 DEF SerialInv
  <2>10. SerialIn(pipe4', w') => OnlyReruns(pipe3', w')
    BY <2>2, <2>4, <2>5, <2>6 DEF SerialInv
  <2>11. UNCHANGED Epochs(3)
    BY <2>2 DEF Epochs
  <2>. QED
    BY <2>2, <2>8, <2>9, <2>10, <2>11 DEF SerialInv
<1>10. CASE WriteBackDrop \/ CommitBase \/ CommitMemory \/ CommitCSR
  <2>1. /\ pipe4 # <<>> /\ pipe4' = Tail(pipe4)
        /\ UNCHANGED <<eEpoch, wEpoch, pipe2, pipe3, rg_stall, rg_microtrap>>
    BY <1>10 DEF WriteBackDrop, CommitBase, CommitMemory, CommitCSR, Commit, CommitReady,
         epochVars, decodeVars
  <2>2. /\ SerialIn(pipe4', w) => SerialIn(pipe4, w)
        /\ Followed(pipe4, w) => Followed(pipe4', w)
    BY <1>1, <2>1, TailSerial
  <2>. QED
    BY <2>1, <2>2 DEF SerialInv, SerialIssued, Epochs
<1>11. CASE WriteBackTrap \/ IOFault \/ WriteBackRerun \/ WriteBackReturn
  <2>1. /\ pipe4 # <<>> /\ pipe4' = Tail(pipe4) /\ Head(pipe4).ep = w
        /\ wEpoch' = Flip(wEpoch) /\ UNCHANGED <<eEpoch, pipe2, pipe3>>
    BY <1>11 DEF WriteBackTrap, IOFault, WriteBackRerun, WriteBackReturn, TakeTrap, WBFlush,
         CommitReady
  <2>2. w \in {0, 1} /\ w' = 1 - w /\ Epochs(3)' = <<eEpoch[3], w'>> /\ eEpoch[3] \in {0, 1}
    BY <1>1, <2>1 DEF IInv, TypeOK, Flip, EpochsAgree, Epochs
  <2>3. Some(pipe4, w) /\ All(pipe4, w)
    BY <1>1, <2>1, TailMembers DEF IInv, Path, Good
  <2>4. All(pipe4', w) /\ All(pipe3, w) /\ OfWriteBack(pipe2, w)
    BY <1>1, <2>1, <2>3, TailMembers DEF IInv, Behind
  <2>5. ~Some(pipe4', w') /\ ~Some(pipe3', w') /\ ~Some(pipe2', Epochs(3)')
    <3>1. w # w'
      BY <2>2
    <3>2. ~Some(pipe4', w') /\ ~Some(pipe3', w')
      BY <2>1, <2>4, <3>1 DEF All, Some
    <3>3. Epochs(3)'[2] # w
      BY <2>2, <3>1
    <3>. QED
      BY <2>1, <2>4, <3>2, <3>3 DEF OfWriteBack, Some
  <2>. QED
    BY <2>5, NoneSerial DEF SerialInv, SerialIssued
<1>. QED
  BY <1>2, <1>3, <1>4, <1>5, <1>7, <1>8, <1>9, <1>10, <1>11
     DEF Next, Stage2, Stage3, Stage5

LEMMA SerialInvariant == Spec => []SerialInv
<1>1. Init => SerialInv
  BY DEF Init, SerialInv, SerialIssued, SerialIn, OnlyReruns, Followed
<1>2. IInv /\ SerialInv /\ [Next]_vars => SerialInv'
  BY SerialStep
<1>. QED
  BY <1>1, <1>2, Inductive, PTL DEF Spec

(* Behind a system operation or a fence that has not left write-back,      *)
(* nothing executes but the re-run of its successor.                       *)
THEOREM Serialisation == Spec => []SerialisesSystemOps
<1>1. IInv /\ SerialInv => SerialisesSystemOps
  <2> SUFFICES ASSUME IInv, SerialInv, NEW i \in 1..Len(Executed), NEW j \in 1..Len(Executed),
                      i < j, Executed[i].ep = wEpoch[5], Serial(Executed[i])
               PROVE  Rerun(Executed[j])
    BY DEF SerialisesSystemOps, Rerun
  <2> DEFINE n == Len(pipe4)
  <2>1. pipe3 \in Seq(Issued) /\ pipe4 \in Seq(Issued) /\ n \in Nat /\ Len(pipe3) \in Nat
    BY QueueTypes DEF IInv, TypeOK
  <2>2. /\ Len(Executed) = n + Len(pipe3)
        /\ \A k \in 1..Len(Executed) :
             Executed[k] = IF k <= n THEN pipe4[k] ELSE pipe3[k - n]
    BY <2>1 DEF Executed
  <2>3. CASE j <= n
    <3>1. i \in 1..n /\ j \in 1..n
      BY <2>1, <2>2, <2>3
    <3>. QED
      BY <2>2, <2>3, <3>1 DEF SerialInv, Followed
  <2>4. CASE i <= n /\ j > n
    <3>1. i \in 1..n /\ j - n \in 1..Len(pipe3)
      BY <2>1, <2>2, <2>4
    <3>2. SerialIn(pipe4, wEpoch[5]) /\ Some(pipe4, wEpoch[5])
      BY <2>2, <2>4, <3>1 DEF SerialIn, Some
    <3>3. OnlyReruns(pipe3, wEpoch[5]) /\ All(pipe3, wEpoch[5])
      BY <3>2 DEF SerialInv, IInv, Behind
    <3>. QED
      BY <2>1, <2>2, <2>4, <3>1, <3>3 DEF OnlyReruns, All
  <2>5. CASE i > n
    <3>1. i - n \in 1..Len(pipe3) /\ j - n \in 1..Len(pipe3) /\ i - n < j - n
          /\ ~(j <= n) /\ ~(i <= n)
      BY <2>1, <2>2, <2>5
    <3>2. Executed[i] = pipe3[i - n] /\ Executed[j] = pipe3[j - n]
      BY <2>2, <3>1
    <3>3. Followed(pipe3, wEpoch[5])
      BY DEF SerialInv
    <3>. QED
      BY <3>1, <3>2, <3>3 DEF Followed
  <2>. QED
    BY <2>1, <2>2, <2>3, <2>4, <2>5
<1>. QED
  BY Inductive, SerialInvariant, <1>1, PTL
=============================================================================
