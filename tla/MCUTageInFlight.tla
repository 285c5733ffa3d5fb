--------------------------- MODULE MCUTageInFlight ---------------------------
(* A loop of one branch and one jump, and the same loop after a store has  *)
(* replaced the branch by another instruction.                             *)
EXTENDS UTageInFlight

Lens   == <<1, 1, 2>>
Widths == <<1, 1, 1>>

Branch(target) == [ci |-> "Branch", target |-> target]
Jump(target)   == [ci |-> "JAL", target |-> target]

Loop      == 0 :> Branch(0) @@ 4 :> Jump(0)
Rewritten == 0 :> Plain     @@ 4 :> Jump(0)

TwoPrograms == {Loop, Rewritten}

TakenTwice == {<<1, 1, 0>>}

(* What the register files happen to hold before they are first cleared.  *)
Garbage == {[state |-> 3, valid |-> TRUE], [state |-> 0, valid |-> FALSE]}
=============================================================================
