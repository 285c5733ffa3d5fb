--------------------------- MODULE MCCorePipeline ---------------------------
(* A program with every class of instruction: a loop closed by a branch,   *)
(* a CSR operation, a division, an indirect jump, an sfence, a WFI, a      *)
(* fence.i, a direct jump, and a trap handler (9, 10) that returns.        *)
EXTENDS CorePipeline

MCPC == 0..10
AtPC(s) == [a \in MCPC |-> s[a + 1]]

LoopKind    == AtPC(<<"MEMORY", "BRANCH", "CSR", "MULDIV", "JALR", "SFENCE",
                      "WFI", "FENCEI", "JAL", "ALU", "XRET">>)
LoopFall    == [a \in MCPC |-> IF a = 10 THEN 0 ELSE a + 1]
LoopTargets == AtPC(<<{}, {0}, {}, {}, {0, 5}, {}, {}, {}, {1}, {}, {}>>)
(* The BTB may hold an old target of the jumps.                            *)
LoopGuess   == AtPC(<<{}, {0}, {}, {}, {0, 5}, {}, {}, {}, {1, 4}, {}, {}>>)
=============================================================================
