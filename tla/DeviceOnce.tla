----------------------------- MODULE DeviceOnce -----------------------------
(***************************************************************************)
(* What the memory path promises to software about devices: the I/O        *)
(* operations of a program reach their device one at a time and in program *)
(* order, each exactly once; an operation may be given up only before the  *)
(* device was asked, and write-back learns of it only after the device     *)
(* performed it.                                                           *)
(***************************************************************************)

CONSTANT Op         \* I/O operations, by a tag that is free again at the end

VARIABLES live,     \* the operations issued and not yet over
          older,    \* which of them was issued before which
          head      \* how far the oldest one has come

deviceVars == <<live, older, head>>

DeviceInit == live = {} /\ older = {} /\ head = "waiting"

Issue(o) == /\ o \notin live
            /\ live' = live \cup {o}
            /\ older' = older \cup (live \X {o})
            /\ UNCHANGED head

Oldest(o) == o \in live /\ \A p \in live : <<p, o>> \notin older

IsOver(o) == /\ o \in live
             /\ live' = live \ {o}
             /\ older' = older \cap (live' \X live')

\* A trap, of its own or of an older instruction, cancels it.
GiveUp(o) == /\ Oldest(o) => head = "waiting"
             /\ IsOver(o)
             /\ UNCHANGED head

Ask == live # {} /\ head = "waiting" /\ head' = "asked" /\ UNCHANGED <<live, older>>

Perform == head = "asked" /\ head' = "performed" /\ UNCHANGED <<live, older>>

Finish == /\ head = "performed"
          /\ head' = "waiting"
          /\ \E o \in live : Oldest(o) /\ IsOver(o)

DeviceNext == \/ \E o \in Op : Issue(o) \/ GiveUp(o)
              \/ Ask \/ Perform \/ Finish

DeviceSpec == DeviceInit /\ [][DeviceNext]_deviceVars
=============================================================================
