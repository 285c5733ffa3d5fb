----------------------------- MODULE InOrderISA -----------------------------
(***************************************************************************)
(* What a hart promises to software: one instruction at a time, in program *)
(* order.  An instruction either retires and hands over to one of its      *)
(* architectural successors, or is replaced by a trap that records its own *)
(* address in epc and continues at the trap vector.  CorePipeline is shown *)
(* to implement this machine.                                              *)
(***************************************************************************)
CONSTANTS
  PC,        (* instruction addresses                                      *)
  ResetPC,   (* address of the first instruction after reset               *)
  TVec,      (* address of the trap handler                                *)
  Kind,      (* Kind[a] is the class of the instruction at address a       *)
  Fall,      (* Fall[a] is the address that follows a in memory            *)
  Targets    (* Targets[a] are the places a control instruction may go to  *)

VARIABLES
  pc,        (* the next instruction to retire                             *)
  epc,       (* the address the last trap was taken at                     *)
  event      (* the last retirement or trap, and its address               *)

vars == <<pc, epc, event>>

(* The addresses an instruction may hand over to when it retires.          *)
Successors(a) ==
  CASE Kind[a] = "BRANCH"          -> {Fall[a]} \cup Targets[a]
    [] Kind[a] \in {"JAL", "JALR"} -> Targets[a]
    [] OTHER                       -> {Fall[a]}

Init ==
  /\ pc = ResetPC
  /\ epc = ResetPC
  /\ event = <<"reset", ResetPC>>

Retire ==
  /\ Kind[pc] # "XRET"
  /\ pc' \in Successors(pc)
  /\ event' = <<"retire", pc>>
  /\ UNCHANGED epc

Return ==
  /\ Kind[pc] = "XRET"
  /\ pc' = epc
  /\ event' = <<"retire", pc>>
  /\ UNCHANGED epc

Trap ==
  /\ pc' = TVec
  /\ epc' = pc
  /\ event' = <<"trap", pc>>

Next == Retire \/ Return \/ Trap

Spec == Init /\ [][Next]_vars
=============================================================================
