---------------------------- MODULE OperandBypass ----------------------------
(***************************************************************************)
(* How an instruction gets its operands: the register file, the operand    *)
(* registers of stage2, the scoreboard of stage3 and the results at the    *)
(* heads of the two buffers behind it.  Decoded instructions arrive in any *)
(* order; a result is chosen when its instruction executes and seen when   *)
(* the unit delivers it.  A redirection from stage3 finds the buffer in    *)
(* front of it empty and does not concern the registers; one from stage5   *)
(* flips the epoch.                                                        *)
(***************************************************************************)
EXTENDS Integers, Sequences

CONSTANTS
  Reg,              (* register addresses; 0 reads as zero                 *)
  Val,              (* values; 0 is one of them                            *)
  Instructions,     (* [kind, rd, rs1, rs2] that decode may deliver        *)
  DEPTH34, DEPTH45, (* isb_s3s4 and isb_s4s5                               *)
  RENAME_IDS,       (* 2 ^ wawid                                           *)
  WAW_STALLS        (* the build option; otherwise no_wawstalls is defined *)

Kinds == {"ALU", "MEMORY", "MULDIV", "CSR", "XRET", "TRAP"}

ASSUME BypassAssumption ==
  /\ Reg \subseteq Nat /\ 0 \in Reg /\ 0 \in Val
  /\ Instructions \subseteq [kind : Kinds, rd : Reg, rs1 : Reg, rs2 : Reg]
  /\ \A x \in Instructions : x.kind = "XRET" => x.rd = 0
  /\ DEPTH34 \in Nat \ {0} /\ DEPTH45 \in Nat \ {0}
  /\ RENAME_IDS \in Nat /\ RENAME_IDS >= DEPTH34 + DEPTH45
  /\ WAW_STALLS \in BOOLEAN

VARIABLES
  rf,               (* the register file                                   *)
  rg_rf_board,      (* the scoreboard: [lock, id] of every register        *)
  rg_renameid,
  pipe2,            (* the decoded instruction, at most one                *)
  rg_op,            (* rg_op1, rg_op2: [addr, data]                        *)
  rg_stall,
  pipe3, pipe4,     (* [op, rd, ep, val, id]: ff_fuid with its results     *)
  wEpoch,
  spec              (* history: the registers after all that has executed  *)

vars == <<rf, rg_rf_board, rg_renameid, pipe2, rg_op, rg_stall, pipe3, pipe4, wEpoch, spec>>

Init ==
  /\ rf = [r \in Reg |-> 0]
  /\ rg_rf_board = [r \in Reg |-> [lock |-> FALSE, id |-> 0]]
  /\ rg_renameid = 0
  /\ pipe2 = <<>> /\ pipe3 = <<>> /\ pipe4 = <<>>
  /\ rg_op = [i \in {1, 2} |-> [addr |-> 0, data |-> 0]]
  /\ rg_stall = FALSE
  /\ wEpoch = 0
  /\ spec = rf

-----------------------------------------------------------------------------
(* stage2: an instruction of the current path is decoded and its operands  *)
(* are read.  rs2 is 0 for an immediate, which then stands in rg_op2.      *)
Decode ==
  /\ ~rg_stall /\ pipe2 = <<>>
  /\ \E x \in Instructions :
       /\ pipe2' = <<[kind |-> x.kind, rd |-> x.rd, rs1 |-> x.rs1, rs2 |-> x.rs2,
                      ep |-> wEpoch]>>
       /\ rg_op' = [i \in {1, 2} |->
            LET a == IF i = 1 THEN x.rs1 ELSE x.rs2 IN [addr |-> a, data |-> rf[a]]]
       /\ rg_stall' = (x.kind = "TRAP")
  /\ UNCHANGED <<rf, rg_rf_board, rg_renameid, pipe3, pipe4, wEpoch, spec>>

-----------------------------------------------------------------------------
(* stage3.  What the head of a buffer's ff_baseout offers: the oldest      *)
(* result in it, unless it is for x0.                                      *)
OldestBase(q) ==
  {k \in DOMAIN q : q[k].op = "BASE" /\ \A j \in DOMAIN q : q[j].op = "BASE" => k <= j}

OfferedAnyId(q, r) ==   (* mutant: the ids are not compared *)
  {k \in OldestBase(q) : q[k].rd # 0 /\ q[k].rd = r /\ q[k].ep = wEpoch}

Offered(q, r) ==
  {k \in OldestBase(q) : /\ q[k].rd # 0 /\ q[k].rd = r /\ q[k].ep = wEpoch
                         /\ WAW_STALLS \/ q[k].id = rg_rf_board[r].id}

(* fn_bypass: whether operand i is available, and its value.               *)
Available(r) == Offered(pipe3, r) # {} \/ Offered(pipe4, r) # {} \/ ~rg_rf_board[r].lock

Operand(i) ==
  LET r == rg_op[i].addr
      From(q) == q[CHOOSE k \in Offered(q, r) : TRUE].val
  IN CASE Offered(pipe3, r) # {}                            -> From(pipe3)
       [] Offered(pipe3, r) = {} /\ Offered(pipe4, r) # {} -> From(pipe4)
       [] OTHER                                            -> rg_op[i].data

x2 == Head(pipe2)
wr_waw_stall == WAW_STALLS /\ rg_rf_board[x2.rd].lock

NextIdSame == rg_renameid   (* mutant: the id is not advanced *)
NextId == (rg_renameid + 1) % RENAME_IDS

(* ma_lock_rd; without no_wawstalls there are no ids.                      *)
Lock(r) ==
  /\ rg_rf_board' = IF r = 0 THEN rg_rf_board
                    ELSE [rg_rf_board EXCEPT ![r] = [lock |-> TRUE,
                            id |-> IF WAW_STALLS THEN 0 ELSE rg_renameid]]
  /\ rg_renameid' = IF WAW_STALLS THEN 0 ELSE NextId

(* The instruction leaves stage3 as op; v is the result it will have.      *)
Issue(op, v) ==
  /\ Len(pipe3) < DEPTH34
  /\ Lock(x2.rd)
  /\ pipe3' = Append(pipe3, [op |-> op, rd |-> x2.rd, ep |-> x2.ep, val |-> v,
                             id |-> IF WAW_STALLS THEN 0 ELSE rg_renameid])
  /\ spec' = IF x2.rd = 0 \/ op \in {"TRAP", "XRET"} THEN spec ELSE [spec EXCEPT ![x2.rd] = v]
  /\ pipe2' = <<>>
  /\ UNCHANGED <<rf, rg_op, rg_stall, pipe4, wEpoch>>

(* Nothing tells the results apart that are written to x0.                 *)
Results == IF x2.rd = 0 THEN {0} ELSE Val

Ready(kind) == pipe2 # <<>> /\ x2.ep = wEpoch /\ x2.kind = kind

(* rl_drop_instr                                                           *)
ExeDrop ==
  /\ pipe2 # <<>> /\ x2.ep # wEpoch
  /\ pipe2' = <<>>
  /\ UNCHANGED <<rf, rg_rf_board, rg_renameid, rg_op, rg_stall, pipe3, pipe4, wEpoch, spec>>

(* rl_system_instr waits for the first operand only.                       *)
ExeSystem ==
  /\ Ready("CSR") \/ Ready("XRET")
  /\ ~wr_waw_stall /\ Available(x2.rs1)
  /\ \E v \in Results : Issue(x2.kind, v)

(* rl_trap_from_prev waits for nothing, not even the lock of rd.           *)
ExeTrap == Ready("TRAP") /\ Issue("TRAP", 0)

BothReady == ~wr_waw_stall /\ Available(x2.rs1) /\ Available(x2.rs2)

(* rl_exe_base_arith; rl_exe_base_control writes its link register alike.  *)
ExeArith  == Ready("ALU") /\ BothReady /\ \E v \in Results : Issue("BASE", v)
ExeMulDiv == Ready("MULDIV") /\ BothReady /\ \E v \in Results : Issue("MULDIV", v)

(* rl_exe_base_memory: the address may be misaligned.                      *)
ExeMemory ==
  /\ Ready("MEMORY") /\ BothReady
  /\ \/ \E v \in Results : Issue("MEMORY", v)
     \/ Issue("TRAP", 0)

-----------------------------------------------------------------------------
(* stage4: what becomes of an entry.  A cached load becomes a base result, *)
(* other memory operations wait for stage5; a unit may report a fault.     *)
Collected(op) ==
  CASE op = "MEMORY" -> {"BASE", "MEMORY", "TRAP"}
    [] op = "MULDIV" -> {"BASE", "TRAP"}
    [] OTHER         -> {op}

Collect ==
  /\ pipe3 # <<>> /\ Len(pipe4) < DEPTH45
  /\ \E op \in Collected(Head(pipe3).op) :
       pipe4' = Append(pipe4, [Head(pipe3) EXCEPT !.op = op])
  /\ pipe3' = Tail(pipe3)
  /\ UNCHANGED <<rf, rg_rf_board, rg_renameid, pipe2, rg_op, rg_stall, wEpoch, spec>>

-----------------------------------------------------------------------------
(* stage5.  ma_release_rd, and ma_commit_rd of stage2.                     *)
x4 == Head(pipe4)

Release(y) ==
  rg_rf_board' = IF y.rd # 0 /\ (WAW_STALLS \/ y.id = rg_rf_board[y.rd].id)
                 THEN [rg_rf_board EXCEPT ![y.rd].lock = FALSE]
                 ELSE rg_rf_board

OperandsAfterKeep(r, v) == rg_op   (* mutant: a waiting operand misses the commit *)

OperandsAfter(r, v) ==
  [i \in {1, 2} |-> IF rg_op[i].addr = r /\ r # 0 THEN [rg_op[i] EXCEPT !.data = v]
                                                  ELSE rg_op[i]]

Write(y) ==
  /\ rf' = IF y.rd = 0 THEN rf ELSE [rf EXCEPT ![y.rd] = y.val]
  /\ rg_op' = OperandsAfter(y.rd, y.val)

DropKeepsLock(y) == rg_rf_board' = rg_rf_board   (* mutant: a dropped instruction keeps its lock *)

DropReleases(y) == Release(y)

WriteBackDrop ==
  /\ pipe4 # <<>> /\ x4.ep # wEpoch
  /\ DropReleases(x4)
  /\ pipe4' = Tail(pipe4)
  /\ UNCHANGED <<rf, rg_renameid, pipe2, rg_op, rg_stall, pipe3, wEpoch, spec>>

Commit ==
  /\ pipe4 # <<>> /\ x4.ep = wEpoch /\ x4.op \in {"BASE", "CSR", "MEMORY"}
  /\ Write(x4) /\ Release(x4)
  /\ pipe4' = Tail(pipe4)
  /\ UNCHANGED <<rg_renameid, pipe2, rg_stall, pipe3, wEpoch, spec>>

(* A trap, a return, or a fault of an I/O operation.  The registers the    *)
(* squashed instructions would have written keep their values.             *)
Flush ==
  /\ pipe4 # <<>> /\ x4.ep = wEpoch /\ x4.op \in {"TRAP", "XRET", "MEMORY"}
  /\ Release(x4)
  /\ wEpoch' = 1 - wEpoch
  /\ rg_stall' = FALSE
  /\ spec' = rf
  /\ pipe4' = Tail(pipe4)
  /\ UNCHANGED <<rf, rg_renameid, pipe2, rg_op, pipe3>>

-----------------------------------------------------------------------------
Execute == ExeDrop \/ ExeSystem \/ ExeTrap \/ ExeArith \/ ExeMulDiv \/ ExeMemory
WriteBack == WriteBackDrop \/ Commit \/ Flush

Next == Decode \/ Execute \/ Collect \/ WriteBack

Spec == Init /\ [][Next]_vars

(* No stage is left idle while it can do something.                        *)
FairSpec == Spec /\ WF_vars(Execute) /\ WF_vars(Collect) /\ WF_vars(WriteBack)

-----------------------------------------------------------------------------
Decoded == [kind : Kinds, rd : Reg, rs1 : Reg, rs2 : Reg, ep : {0, 1}]

Entry == [op : {"BASE", "MEMORY", "MULDIV", "CSR", "XRET", "TRAP"}, rd : Reg,
          ep : {0, 1}, val : Val, id : 0 .. RENAME_IDS - 1]

TypeOK ==
  /\ rf \in [Reg -> Val] /\ spec \in [Reg -> Val]
  /\ rg_rf_board \in [Reg -> [lock : BOOLEAN, id : 0 .. RENAME_IDS - 1]]
  /\ rg_renameid \in 0 .. RENAME_IDS - 1
  /\ pipe2 \in Seq(Decoded) /\ Len(pipe2) <= 1
  /\ rg_op \in [{1, 2} -> [addr : Reg, data : Val]]
  /\ rg_stall \in BOOLEAN
  /\ pipe3 \in Seq(Entry) /\ Len(pipe3) <= DEPTH34
  /\ pipe4 \in Seq(Entry) /\ Len(pipe4) <= DEPTH45
  /\ wEpoch \in {0, 1}

InFlight == {pipe4[i] : i \in DOMAIN pipe4} \cup {pipe3[i] : i \in DOMAIN pipe3}

(* An operand that stage3 takes to be available is the value of the last   *)
(* instruction of this path before it that writes the register, wherever   *)
(* that value is.                                                          *)
OperandsAreLatest ==
  pipe2 # <<>> /\ x2.ep = wEpoch =>
    \A i \in {1, 2} : Available(rg_op[i].addr) => Operand(i) = spec[rg_op[i].addr]

(* Every lock is held by an instruction that will give it back.            *)
LocksAreHeld ==
  \A r \in Reg : rg_rf_board[r].lock =>
    \E y \in InFlight : y.rd = r /\ (WAW_STALLS \/ y.id = rg_rf_board[r].id)

(* No two instructions in flight have the same id, although ids wrap.      *)
IdsAreUnique ==
  ~WAW_STALLS =>
    LET q == pipe4 \o pipe3
    IN \A i, j \in DOMAIN q : q[i].id = q[j].id => i = j

(* Whatever waits for its operands leaves stage3.                          *)
StallsEnd == pipe2 # <<>> ~> pipe2 = <<>>
=============================================================================
