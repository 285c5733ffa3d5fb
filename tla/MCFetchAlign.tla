---------------------------- MODULE MCFetchAlign ----------------------------
(* A loop over three words: a compressed branch and a 32-bit one in the    *)
(* same word, the latter reaching into the next, a compressed jump in an   *)
(* upper half, and an indirect jump that fills a word.                     *)
EXTENDS FetchAlign

Code == <<"c.beqz", "beq", "-", "c.j", "jalr", "-">>
At(h) == Code[h + 1]

MCLong    == [h \in Half |-> At(h) \in {"beq", "jalr"}]
MCStart   == {h \in Half : At(h) # "-"}
MCJumps   == {h \in Half : At(h) \in {"c.j", "jalr"}}
MCTargets == [h \in Half |-> CASE At(h) = "c.beqz" -> {3}
                               [] At(h) = "beq"    -> {4}
                               [] At(h) = "c.j"    -> {1}
                               [] At(h) = "jalr"   -> {3}
                               [] OTHER            -> {}]
=============================================================================
