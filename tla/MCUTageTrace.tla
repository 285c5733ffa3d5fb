---------------------------- MODULE MCUTageTrace ----------------------------
(* Addresses are those of x86 code: branches in one word may share an      *)
(* entry of the buffer and a bank of counters.                             *)
EXTENDS UTageTrace

Lens   == <<1, 2, 3>>
Widths == <<2, 2, 2>>

Rec(pc, taken, next) == [pc |-> pc, taken |-> taken, next |-> next]

(* A branch at 0 that goes both ways, one at 1 that shares its entry and   *)
(* its counters, and one at 2 that shares its entry only, in any order.    *)
AnyWay   == {Rec(0, TRUE, 8), Rec(0, FALSE, 1), Rec(1, TRUE, 0), Rec(2, TRUE, 0)}
AnyOrder == [r \in AnyWay |-> AnyWay]
=============================================================================
