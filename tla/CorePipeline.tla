---------------------------- MODULE CorePipeline ----------------------------
(***************************************************************************)
(* The five-stage in-order pipeline of the core: stage0 (next PC), stage1  *)
(* (fetch), stage2 (decode), stage3 (execute), stage4 (memory), stage5     *)
(* (write-back), the inter-stage buffers between them, and the two one-bit *)
(* epochs with which wrong-path instructions are recognised.  The execute  *)
(* stage redirects fetch after a misprediction by flipping eEpoch, the     *)
(* write-back stage after a trap, a return or a re-run by flipping wEpoch; *)
(* nothing is removed from the buffers, each stage drops what carries an   *)
(* epoch that is no longer its own.                                        *)
(*                                                                         *)
(* Every BSV rule is one action, together with the wires it drives and the *)
(* connection rules of riscv.bsv those wires fire in the same cycle.  The  *)
(* build modelled is the one without the compressed extension (one fetched *)
(* word is one instruction); operands and results are in OperandBypass.    *)
(***************************************************************************)
EXTENDS Naturals, Sequences

CONSTANTS
  PC, ResetPC, TVec,
  Kind, Fall, Targets,  (* the program, as in InOrderISA                   *)
  Guess,                (* Guess[a]: targets the BTB or the RAS may supply *)
  NoPC,                 (* stands for no address                           *)
  D01, D12, D34, D45    (* isb_s0s1, isb_s1s2, isb_s3s4, isb_s4s5          *)

Control == {"BRANCH", "JAL", "JALR"}
System  == {"CSR", "XRET"}
Fences  == {"FENCE", "FENCEI", "SFENCE"}
Kinds   == {"ALU", "MULDIV", "MEMORY", "WFI"} \cup Control \cup System \cup Fences

ASSUME ProgramAssumption ==
  /\ ResetPC \in PC
  /\ NoPC \notin PC
  /\ TVec \in PC
  /\ Kind \in [PC -> Kinds]
  /\ Fall \in [PC -> PC]
  /\ Targets \in [PC -> SUBSET PC]
  /\ Guess \in [PC -> SUBSET PC]

(* A direct branch has one target, and a BTB entry trained by it holds     *)
(* that target; only the direction of a branch is checked in stage3.       *)
ASSUME BranchTargetAssumption ==
  \A a \in PC : Kind[a] = "BRANCH" =>
    \E t \in PC : Targets[a] = {t} /\ Guess[a] = {t}

ASSUME DepthAssumption ==
  {D01, D12, D34, D45} \subseteq Nat \ {0}

VARIABLES
  rg_pc,         (* stage0: the address fetched next                       *)
  rg_fence,      (* stage0: fence request still to be sent to the I-cache  *)
  eEpoch,        (* execute epoch, one copy in each of the stages 0 to 3   *)
  wEpoch,        (* write-back epoch, one copy in the stages 0 to 3 and 5  *)
  pipe0, pipe1,  (* fetch requests in flight; fetched instructions         *)
  pipe2,         (* decoded instruction waiting for stage3                 *)
  pipe3, pipe4,  (* FUid buffers in front of stage4 and stage5             *)
  rg_stall,      (* stage2: a trap was decoded, wait for its flush         *)
  rg_microtrap,  (* stage2: re-run cause for the next instruction          *)
  rg_wfi,        (* stage2: waiting for an interrupt                       *)
  epc,           (* csrbox: address of the last trap                       *)
  arch,          (* history: the architecturally next address to commit    *)
  event          (* history: the last commit or trap                       *)

fetchVars  == <<rg_pc, rg_fence>>
epochVars  == <<eEpoch, wEpoch>>
decodeVars == <<rg_stall, rg_microtrap, rg_wfi>>
archVars   == <<epc, arch, event>>
vars == <<fetchVars, epochVars, pipe0, pipe1, pipe2, pipe3, pipe4,
          decodeVars, archVars>>

(* microtrap causes; the second kind also asks for a fence on the re-run   *)
Causes == {"CSR_rerun", "FenceI_rerun", "Sfence_rerun"}
FenceRequests == {"none", "fencei", "sfence"}

Ops == (Kinds \ {"WFI"}) \cup {"TRAP"}
FUs == {"BASE", "SYSTEM", "TRAP", "MEMORY", "MULDIV"}

(* An instruction in flight: its address, the epoch it was fetched under,  *)
(* the address fetched after it (resolved by stage3), whether it was       *)
(* predicted taken; op is the instruction type and later the unit its      *)
(* result comes from, rerun the microtrap cause.                           *)
Fetched == [pc : PC, ep : {0, 1} \X {0, 1}, npc : PC, taken : BOOLEAN]
Decoded == [pc : PC, ep : {0, 1} \X {0, 1}, npc : PC, taken : BOOLEAN,
            op : Ops, rerun : {"none"} \cup Causes]
Issued  == [pc : PC, ep : {0, 1}, npc : PC, op : FUs, rerun : {"none"} \cup Causes]

Epochs(s) == <<eEpoch[s], wEpoch[s]>>

Flip(epoch) == [s \in DOMAIN epoch |-> 1 - epoch[s]]

-----------------------------------------------------------------------------
Init ==
  /\ rg_pc = ResetPC
  /\ rg_fence = "none"
  /\ eEpoch = [s \in 0..3 |-> 0]
  /\ wEpoch = [s \in {0, 1, 2, 3, 5} |-> 0]
  /\ pipe0 = <<>> /\ pipe1 = <<>> /\ pipe2 = <<>> /\ pipe3 = <<>> /\ pipe4 = <<>>
  /\ rg_stall = FALSE
  /\ rg_microtrap = "none"
  /\ rg_wfi = FALSE
  /\ epc = ResetPC
  /\ arch = ResetPC
  /\ event = <<"reset", ResetPC>>

-----------------------------------------------------------------------------
(* stage0: rl_gen_next_pc.  The prediction can only redirect fetch after a *)
(* control instruction: BTB entries are created by them alone.             *)
Predictions(a) ==
  {[npc |-> Fall[a], taken |-> FALSE]} \cup
  (IF Kind[a] \in Control THEN {[npc |-> t, taken |-> TRUE] : t \in Guess[a]} ELSE {})

FetchNextUnbounded ==   (* mutant: the enqueue ignores a full buffer *)
  /\ rg_fence = "none"
  /\ \E p \in Predictions(rg_pc) :
       /\ rg_pc' = p.npc
       /\ pipe0' = Append(pipe0, [pc |-> rg_pc, ep |-> Epochs(0),
                                  npc |-> p.npc, taken |-> p.taken])
  /\ UNCHANGED <<rg_fence, epochVars, pipe1, pipe2, pipe3, pipe4, decodeVars, archVars>>

FetchNextPastFence ==   (* mutant: a pending fence does not hold fetch back *)
  /\ Len(pipe0) < D01
  /\ \E p \in Predictions(rg_pc) :
       /\ rg_pc' = p.npc
       /\ pipe0' = Append(pipe0, [pc |-> rg_pc, ep |-> Epochs(0),
                                  npc |-> p.npc, taken |-> p.taken])
  /\ UNCHANGED <<rg_fence, epochVars, pipe1, pipe2, pipe3, pipe4, decodeVars, archVars>>

FetchNext ==
  /\ rg_fence = "none"
  /\ Len(pipe0) < D01
  /\ \E p \in Predictions(rg_pc) :
       /\ rg_pc' = p.npc
       /\ pipe0' = Append(pipe0, [pc |-> rg_pc, ep |-> Epochs(0),
                                  npc |-> p.npc, taken |-> p.taken])
  /\ UNCHANGED <<rg_fence, epochVars, pipe1, pipe2, pipe3, pipe4, decodeVars, archVars>>

(* A pending fence goes to the cache alone: the pc is kept and fetched in  *)
(* a later cycle, stage1 gets nothing.                                     *)
FetchFence ==
  /\ rg_fence # "none"
  /\ Len(pipe0) < D01
  /\ rg_fence' = "none"
  /\ UNCHANGED <<rg_pc, epochVars, pipe0, pipe1, pipe2, pipe3, pipe4, decodeVars, archVars>>

-----------------------------------------------------------------------------
(* stage1: process_instruction.                                            *)
FetchDrop ==
  /\ pipe0 # <<>> /\ Len(pipe1) < D12
  /\ Head(pipe0).ep # Epochs(1)
  /\ pipe0' = Tail(pipe0)
  /\ UNCHANGED <<fetchVars, epochVars, pipe1, pipe2, pipe3, pipe4, decodeVars, archVars>>

FetchPassAny ==   (* mutant: stage1 does not look at the epoch *)
  /\ pipe0 # <<>> /\ Len(pipe1) < D12
  /\ pipe1' = Append(pipe1, [Head(pipe0) EXCEPT !.ep = Epochs(1)])
  /\ pipe0' = Tail(pipe0)
  /\ UNCHANGED <<fetchVars, epochVars, pipe2, pipe3, pipe4, decodeVars, archVars>>

FetchPass ==
  /\ pipe0 # <<>> /\ Len(pipe1) < D12
  /\ Head(pipe0).ep = Epochs(1)
  /\ pipe1' = Append(pipe1, Head(pipe0))
  /\ pipe0' = Tail(pipe0)
  /\ UNCHANGED <<fetchVars, epochVars, pipe2, pipe3, pipe4, decodeVars, archVars>>

-----------------------------------------------------------------------------
(* stage2: decode_and_opfetch.  pipe2 is a one-deep FIFO.                  *)
DecodeReady == ~rg_stall /\ ~rg_wfi /\ pipe1 # <<>> /\ pipe2 = <<>>

DecodeDrop ==
  /\ DecodeReady
  /\ Head(pipe1).ep # Epochs(2)
  /\ pipe1' = Tail(pipe1)
  /\ UNCHANGED <<fetchVars, epochVars, pipe0, pipe2, pipe3, pipe4, decodeVars, archVars>>

RerunCausesNoFence(kind, op) ==   (* mutant: no re-run after a fence *)
  IF kind \in System /\ op # "TRAP" THEN {"none", "CSR_rerun"} ELSE {"none"}

(* The re-run cause an instruction decoded as op leaves for its successor: *)
(* a system operation taken by an interrupt keeps its microtrap mark, an   *)
(* illegal one loses it.                                                   *)
RerunCauses(kind, op) ==
  (IF op = "TRAP" \/ kind \notin System \cup Fences THEN {"none"} ELSE {}) \cup
  (CASE kind \in System /\ op # "TRAP" -> {"CSR_rerun"}
     [] kind = "FENCEI"                -> {"FenceI_rerun"}
     [] kind \in System \cup Fences    -> {"Sfence_rerun"}
     [] OTHER                          -> {})

(* decoder_func: a pending re-run comes first, then an interrupt (not on a *)
(* WFI), then a fetch fault or an illegal encoding.                        *)
DecodedAs(kind) ==
  IF rg_microtrap # "none" THEN {"TRAP"} ELSE {kind, "TRAP"}

Decode ==
  /\ DecodeReady
  /\ Head(pipe1).ep = Epochs(2)
  /\ LET x    == Head(pipe1)
         kind == Kind[x.pc]
     IN \E op \in DecodedAs(kind) :
          /\ pipe2' = <<[pc |-> x.pc, ep |-> x.ep, npc |-> x.npc, taken |-> x.taken,
                         op |-> IF op = "WFI" THEN "ALU" ELSE op,
                         rerun |-> rg_microtrap]>>
          /\ rg_wfi' = (op = "WFI")
          /\ rg_stall' = (op = "TRAP")
          /\ rg_microtrap' \in IF rg_microtrap # "none" THEN {"none"}
                              ELSE RerunCauses(kind, op)
  /\ pipe1' = Tail(pipe1)
  /\ UNCHANGED <<fetchVars, epochVars, pipe0, pipe3, pipe4, archVars>>

(* rl_wait_for_interrupt: an enabled interrupt is pending.                 *)
ResumeWFI ==
  /\ rg_wfi
  /\ rg_wfi' = FALSE
  /\ UNCHANGED <<fetchVars, epochVars, pipe0, pipe1, pipe2, pipe3, pipe4,
                 rg_stall, rg_microtrap, archVars>>

ClearDecodeKeepStall ==   (* mutant: the stall is not cleared *)
  /\ rg_microtrap' = IF rg_stall THEN "none" ELSE rg_microtrap
  /\ rg_wfi' = FALSE
  /\ UNCHANGED rg_stall

(* What a redirection does to stage2: rl_clear_stall_in_decode_stage, which *)
(* fires only while rg_stall is set, and rl_wait_for_interrupt.            *)
ClearDecode ==
  /\ rg_stall' = FALSE
  /\ rg_microtrap' = IF rg_stall THEN "none" ELSE rg_microtrap
  /\ rg_wfi' = FALSE

-----------------------------------------------------------------------------
(* stage3: the instruction at the head of pipe2, under the current epochs, *)
(* leaves for functional unit fu; npc is where the program goes next.      *)
LiveExe(x) == x.ep[1] = eEpoch[3]   (* mutant: only eEpoch is compared *)

Live(x) == x.ep = Epochs(3)

Execute(op) ==
  /\ pipe2 # <<>> /\ Len(pipe3) < D34
  /\ Head(pipe2).op = op
  /\ Live(Head(pipe2))

IssueTo(fu, npc) ==
  LET x == Head(pipe2)
  IN /\ pipe3' = Append(pipe3, [pc |-> x.pc, ep |-> x.ep[2], npc |-> npc,
                                op |-> fu, rerun |-> x.rerun])
     /\ pipe2' = Tail(pipe2)
     /\ UNCHANGED <<rg_fence, pipe0, pipe1, pipe4, archVars>>

Issue(fu) ==
  /\ IssueTo(fu, Head(pipe2).npc)
  /\ UNCHANGED <<rg_pc, epochVars, decodeVars>>

(* rl_drop_instr                                                           *)
ExeDrop ==
  /\ pipe2 # <<>>
  /\ ~Live(Head(pipe2))
  /\ pipe2' = Tail(pipe2)
  /\ UNCHANGED <<fetchVars, epochVars, pipe0, pipe1, pipe3, pipe4, decodeVars, archVars>>

(* rl_system_instr                                                         *)
ExeSystem == (\E op \in System : Execute(op)) /\ Issue("SYSTEM")

(* rl_trap_from_prev                                                       *)
ExeTrap == Execute("TRAP") /\ Issue("TRAP")

(* rl_exe_base_arith                                                       *)
ExeArith == Execute("ALU") /\ Issue("BASE")

(* rl_exe_base_memory: a misaligned access becomes a trap, an SFence is    *)
(* sent to the data cache and continues as a nop.                          *)
ExeMemory ==
  /\ \E op \in {"MEMORY"} \cup Fences : Execute(op)
  /\ \/ Head(pipe2).op = "MEMORY" /\ Issue("TRAP")
     \/ Head(pipe2).op = "SFENCE" /\ Issue("BASE")
     \/ Head(pipe2).op # "SFENCE" /\ Issue("MEMORY")

(* rl_mbox                                                                 *)
ExeMulDiv == Execute("MULDIV") /\ Issue("MULDIV")

(* rl_exe_base_control: waits until the next instruction is in pipe1, so   *)
(* that a jump can be compared with where fetch really went; a branch      *)
(* compares its direction with the predicted one.                          *)
ControlReady ==
  /\ \E op \in Control : Execute(op)
  /\ pipe1 # <<>>

MispredictedDir(x, taken, target) ==   (* mutant: a jump's target is not compared *)
  taken # x.taken

Mispredicted(x, taken, target) ==
  IF x.op = "BRANCH" THEN taken # x.taken ELSE Head(pipe1).pc # target

Outcomes(x) ==
  {o \in [taken : BOOLEAN, target : Targets[x.pc]] : x.op # "BRANCH" => o.taken}

NextPC(x, o) == IF o.taken THEN o.target ELSE Fall[x.pc]

ControlAgrees ==
  /\ ControlReady
  /\ \E o \in Outcomes(Head(pipe2)) :
       /\ ~Mispredicted(Head(pipe2), o.taken, o.target)
       /\ IssueTo("BASE", NextPC(Head(pipe2), o))
  /\ UNCHANGED <<rg_pc, epochVars, decodeVars>>

(* A taken control instruction to a misaligned target traps and does not   *)
(* redirect.                                                               *)
ControlTraps == ControlReady /\ Issue("TRAP")

(* rl_flush_stage0, rl_update_eEpoch and rl_clear_stall_in_decode_stage    *)
(* follow from wr_flush_from_exe in the same cycle.                        *)
(* A JALR is compared by its base, the offset taken off the next pc: with  *)
(* an odd base and an even offset it is redirected also to where fetch     *)
(* already is, and any data may be in its registers.                       *)
ControlRedirects ==
  /\ ControlReady
  /\ LET x == Head(pipe2)
     IN \E o \in Outcomes(x) :
          /\ Mispredicted(x, o.taken, o.target) \/ x.op = "JALR"
          /\ rg_pc' = NextPC(x, o)
          /\ pipe3' = Append(pipe3, [pc |-> x.pc, ep |-> x.ep[2], npc |-> NextPC(x, o),
                                     op |-> "BASE", rerun |-> x.rerun])
  /\ pipe2' = Tail(pipe2)
  /\ rg_fence' = "none"
  /\ eEpoch' = Flip(eEpoch)
  /\ ClearDecode
  /\ UNCHANGED <<wEpoch, pipe0, pipe1, pipe4, archVars>>

-----------------------------------------------------------------------------
(* stage4: results are collected in the order of the FUid buffer.          *)
Collect(fus, cu) ==
  /\ pipe3 # <<>> /\ Len(pipe4) < D45
  /\ Head(pipe3).op \in fus
  /\ pipe4' = Append(pipe4, [Head(pipe3) EXCEPT !.op = cu])
  /\ pipe3' = Tail(pipe3)
  /\ UNCHANGED <<fetchVars, epochVars, pipe0, pipe1, pipe2, decodeVars, archVars>>

(* rl_fwd_baseout, rl_fwd_systemout, rl_fwd_trapout                        *)
Forward == \E fu \in {"BASE", "SYSTEM", "TRAP"} : Collect({fu}, fu)

(* rl_handle_memory: data, an allocated store-buffer or IO entry, a fault. *)
HandleMemory == \E cu \in {"BASE", "MEMORY", "TRAP"} : Collect({"MEMORY"}, cu)

(* rl_capture_muldiv: a result or, with arith_trap, a trap.                *)
CaptureMulDiv == \E cu \in {"BASE", "TRAP"} : Collect({"MULDIV"}, cu)

-----------------------------------------------------------------------------
(* stage5                                                                  *)
CommitReadyAny(op, match) ==   (* mutant: write-back ignores the epoch *)
  pipe4 # <<>> /\ Head(pipe4).op = op /\ match

CommitReady(op, match) ==
  /\ pipe4 # <<>>
  /\ Head(pipe4).op = op
  /\ (Head(pipe4).ep = wEpoch[5]) = match

(* Every rule drops an instruction of another epoch.                       *)
WriteBackDrop ==
  /\ \E op \in {"BASE", "SYSTEM", "TRAP", "MEMORY"} : CommitReady(op, FALSE)
  /\ pipe4' = Tail(pipe4)
  /\ UNCHANGED <<fetchVars, epochVars, pipe0, pipe1, pipe2, pipe3, decodeVars, archVars>>

Commit ==
  /\ pipe4' = Tail(pipe4)
  /\ arch' = Head(pipe4).npc
  /\ event' = <<"retire", Head(pipe4).pc>>
  /\ UNCHANGED <<fetchVars, epochVars, pipe0, pipe1, pipe2, pipe3, decodeVars, epc>>

(* rl_writeback_baseout; rl_writeback_memop completing; rl_writeback_system *)
(* once the csrbox has answered a CSR operation.                           *)
CommitBase   == CommitReady("BASE", TRUE) /\ Commit
CommitMemory == CommitReady("MEMORY", TRUE) /\ Commit
CommitCSR    == CommitReady("SYSTEM", TRUE) /\ Kind[Head(pipe4).pc] = "CSR" /\ Commit

(* A flush from write-back: rl_flush_stage0, rl_update_wEpoch and          *)
(* rl_clear_stall_in_decode_stage follow in the same cycle.                *)
WBFlush(newpc, fence) ==
  /\ rg_pc' = newpc
  /\ rg_fence' = fence
  /\ wEpoch' = Flip(wEpoch)
  /\ pipe4' = Tail(pipe4)
  /\ ClearDecode
  /\ UNCHANGED <<eEpoch, pipe0, pipe1, pipe2, pipe3>>

TakeTrap ==
  /\ WBFlush(TVec, "none")
  /\ epc' = Head(pipe4).pc
  /\ arch' = TVec
  /\ event' = <<"trap", Head(pipe4).pc>>

(* rl_writeback_trap; an IO access answered with a fault by                *)
(* rl_writeback_memop                                                      *)
WriteBackTrap == CommitReady("TRAP", TRUE) /\ Head(pipe4).rerun = "none" /\ TakeTrap
IOFault       == CommitReady("MEMORY", TRUE) /\ TakeTrap

(* rl_writeback_trap on a microtrap: fetch the instruction again.          *)
WriteBackRerun ==
  /\ CommitReady("TRAP", TRUE) /\ Head(pipe4).rerun # "none"
  /\ WBFlush(Head(pipe4).pc,
             CASE Head(pipe4).rerun = "FenceI_rerun" -> "fencei"
               [] Head(pipe4).rerun = "Sfence_rerun" -> "sfence"
               [] OTHER                              -> "none")
  /\ UNCHANGED archVars

(* rl_writeback_system on xRET                                             *)
WriteBackReturn ==
  /\ CommitReady("SYSTEM", TRUE) /\ Kind[Head(pipe4).pc] = "XRET"
  /\ WBFlush(epc, "none")
  /\ arch' = epc
  /\ event' = <<"retire", Head(pipe4).pc>>
  /\ UNCHANGED epc

-----------------------------------------------------------------------------
Stage0 == FetchNext \/ FetchFence
Stage1 == FetchDrop \/ FetchPass
Stage2 == DecodeDrop \/ Decode
Stage3 == ExeDrop \/ ExeSystem \/ ExeTrap \/ ExeArith \/ ExeMemory \/ ExeMulDiv
            \/ ControlAgrees \/ ControlTraps \/ ControlRedirects
Stage4 == Forward \/ HandleMemory \/ CaptureMulDiv
Stage5 == WriteBackDrop \/ CommitBase \/ CommitMemory \/ CommitCSR
            \/ WriteBackTrap \/ IOFault \/ WriteBackRerun \/ WriteBackReturn

Next == Stage0 \/ Stage1 \/ Stage2 \/ ResumeWFI \/ Stage3 \/ Stage4 \/ Stage5

Spec == Init /\ [][Next]_vars

(* A rule whose guard stays true fires: the BSV scheduler never idles a    *)
(* ready rule forever.  The interrupt that ends a WFI is not assumed.      *)
Fairness ==
  /\ WF_vars(Stage0) /\ WF_vars(Stage1) /\ WF_vars(Stage2)
  /\ WF_vars(Stage3) /\ WF_vars(Stage4) /\ WF_vars(Stage5)

LiveSpec == Spec /\ Fairness

-----------------------------------------------------------------------------
(* The types of the registers and buffers; no buffer exceeds its depth.    *)
TypeOK ==
  /\ rg_pc \in PC
  /\ rg_fence \in FenceRequests
  /\ eEpoch \in [0..3 -> {0, 1}]
  /\ wEpoch \in [{0, 1, 2, 3, 5} -> {0, 1}]
  /\ pipe0 \in Seq(Fetched) /\ Len(pipe0) <= D01
  /\ pipe1 \in Seq(Fetched) /\ Len(pipe1) <= D12
  /\ pipe2 \in Seq(Decoded) /\ Len(pipe2) <= 1
  /\ pipe3 \in Seq(Issued)  /\ Len(pipe3) <= D34
  /\ pipe4 \in Seq(Issued)  /\ Len(pipe4) <= D45
  /\ rg_stall \in BOOLEAN
  /\ rg_microtrap \in {"none"} \cup Causes
  /\ rg_wfi \in BOOLEAN
  /\ epc \in PC
  /\ arch \in PC
  /\ event \in {"reset", "retire", "trap"} \X PC

(* Where the program continues after the live instructions of queue q, if  *)
(* it continued at x before them; c is the epoch that marks them live.     *)
After(q, c, x) ==
  IF q # <<>> /\ q[Len(q)].ep = c THEN q[Len(q)].npc ELSE x

Next4 == After(pipe4, wEpoch[5], arch)
Next3 == After(pipe3, wEpoch[5], Next4)
Next2 == After(pipe2, Epochs(3), Next3)
Next1 == After(pipe1, Epochs(3), Next2)
Next0 == After(pipe0, Epochs(3), Next1)

(* No wrong-path commit: whenever write-back accepts the head of its       *)
(* buffer, that instruction is the architecturally next one, although the  *)
(* epoch it is compared with has a single bit.                             *)
CommitsInOrder ==
  pipe4 # <<>> /\ Head(pipe4).ep = wEpoch[5] => Head(pipe4).pc = arch

(* No wrong-path execution: stage3 accepts an instruction (and with it     *)
(* sends a store to the cache, trains the predictor, redirects fetch) only *)
(* if it follows the instructions accepted before it.                      *)
ExecutesInOrder ==
  pipe2 # <<>> /\ Live(Head(pipe2)) => Head(pipe2).pc = Next3

(* The pc the jump rule compares with (pipe1.first) is the address fetched *)
(* after the jump, never a leftover of another path.                       *)
NextPCIsSuccessor ==
  pipe1 # <<>> /\ pipe2 # <<>> /\ Live(Head(pipe2)) =>
    /\ Head(pipe1).ep = Epochs(3)
    /\ Head(pipe1).pc = Head(pipe2).npc

(* Execution is serialised at CSR, xRET and fence operations: behind one   *)
(* that has not left write-back nothing executes but the microtrap that    *)
(* fetches its successor again.                                            *)
Serial(x) == Kind[x.pc] \in System \cup Fences /\ x.op # "TRAP"

Executed == pipe4 \o pipe3

SerialisesSystemOps ==
  \A i, j \in 1..Len(Executed) :
    /\ i < j
    /\ Executed[i].ep = wEpoch[5]
    /\ Serial(Executed[i])
    => Executed[j].op = "TRAP" /\ Executed[j].rerun # "none"

(* A fence request is never lost: while it waits for the I-cache nothing   *)
(* live is in flight that could redirect fetch and overwrite it.           *)
FenceNotOverwritten ==
  rg_fence # "none" =>
    /\ \A i \in 1..Len(pipe2) : ~Live(pipe2[i])
    /\ \A i \in 1..Len(pipe3) : pipe3[i].ep # wEpoch[5]
    /\ \A i \in 1..Len(pipe4) : pipe4[i].ep # wEpoch[5]

(* The pipeline implements the sequential machine.                         *)
ISA == INSTANCE InOrderISA WITH pc <- arch, epc <- epc, event <- event
ImplementsISA == ISA!Spec

(* The hart always retires another instruction or takes another trap,      *)
(* unless it is left waiting in a WFI.                                     *)
Progress == CommitBase \/ CommitMemory \/ CommitCSR
              \/ WriteBackTrap \/ IOFault \/ WriteBackReturn
AlwaysProgress == []<><<Progress>>_vars \/ <>[]rg_wfi
=============================================================================
