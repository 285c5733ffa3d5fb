---------------------------- MODULE MCMemoryPath ----------------------------
(***************************************************************************)
(* Instances of MemoryPath for TLC.                                        *)
(***************************************************************************)
EXTENDS MemoryPath

TwoLines == {"l1", "l2"}
OneLine  == {"l1"}
Tags     == {"o1", "o2"}
NoKinds  == {}
=============================================================================
