------------------------------ MODULE MemoryPath ----------------------------
(***************************************************************************)
(* Memory operations from stage3 to the device: stage3 offers the          *)
(* operation to the cache and to stage4, stage4 pairs the cache's answers  *)
(* with its instructions, stage5 commits: it releases stores, and starts   *)
(* an I/O operation and waits for its answer, which comes back through the *)
(* rules of LineTraffic.                                                   *)
(*                                                                         *)
(* An instruction is [op, kind, epoch]: epoch is the one-bit epoch of      *)
(* write-back, op the tag of an operation that write-back has to release,  *)
(* used again when no instruction in flight has it.                        *)
(***************************************************************************)
EXTENDS LineTraffic, FiniteSets

CONSTANTS Kinds,      \* what the program does: a subset of Kind
          D34, D45    \* depths of isb_s3s4 and isb_s4s5

Kind == {"load", "store", "ioread", "iowrite", "trap"}
Memory == Kind \ {"trap"}
Io == {"ioread", "iowrite"}
Released == Io \cup {"store"}

ASSUME PathAssumption ==
  /\ Kinds \subseteq Kind
  /\ D34 \in Nat \ {0} /\ D45 \in Nat \ {0}
  /\ IsFiniteSet(Op) /\ Cardinality(Op) >= D34 + D45

VARIABLES
  isb_s3s4, isb_s4s5,        \* the instructions, with their unit's packet
  rg_epoch, rg_ioop_init,    \* stage5
  core_req,                  \* requests the cache has not yet answered
  ff_memory_response,        \* stage4: its answers
  io_buffer, store_buffer,   \* the cache: what waits for write-back
  wr_ioop_response           \* the answer for write-back, or None

pipeVars == <<isb_s3s4, isb_s4s5>>
wbVars   == <<rg_epoch, rg_ioop_init>>
ansVars  == <<core_req, ff_memory_response>>
bufVars  == <<io_buffer, store_buffer>>
pathVars == <<pipeVars, wbVars, ansVars, bufVars, wr_ioop_response>>
vars     == <<lineVars, pathVars>>

Init ==
  /\ LineInit
  /\ isb_s3s4 = <<>> /\ isb_s4s5 = <<>>
  /\ rg_epoch = 0 /\ rg_ioop_init = FALSE
  /\ core_req = <<>> /\ ff_memory_response = <<>>
  /\ io_buffer = <<>> /\ store_buffer = <<>>
  /\ wr_ioop_response = None

-----------------------------------------------------------------------------
(* stage3.  The request goes to the cache in the step that enqueues the    *)
(* instruction.  A "trap" stands for whatever makes write-back redirect    *)
(* without a memory operation.                                             *)

Tagged(s) == {s[i].op : i \in DOMAIN s}
Free == Op \ (Tagged(isb_s3s4) \cup Tagged(isb_s4s5))
Tag(kind) == IF kind \in Released THEN CHOOSE o \in Free : TRUE ELSE None

rl_exe_base_memory(kind) ==
  /\ Len(isb_s3s4) < D34
  /\ LET i == [op |-> Tag(kind), kind |-> kind, epoch |-> rg_epoch]
     IN  /\ isb_s3s4' = Append(isb_s3s4, i)
         /\ core_req' = IF kind \in Memory THEN Append(core_req, i) ELSE core_req
  /\ UNCHANGED <<lineVars, isb_s4s5, wbVars, ff_memory_response, bufVars,
                 wr_ioop_response>>

-----------------------------------------------------------------------------
(* The cache answers in order.  An operation that write-back has to release*)
(* takes an entry (entry_alloc), a fault or the data of a load does not.   *)

Answers(i) == {[epoch |-> i.epoch, result |-> "fault"],
               [epoch |-> i.epoch,
                result |-> IF i.kind = "load" THEN "data" ELSE "entry"]}

CacheAnswers ==
  /\ core_req # <<>> /\ ff_memory_response = <<>>
  /\ LET i == Head(core_req)
     IN  \E a \in Answers(i) :
           /\ ff_memory_response' = <<a>>
           /\ io_buffer' = IF a.result = "entry" /\ i.kind \in Io
                           THEN Append(io_buffer, i) ELSE io_buffer
           /\ store_buffer' = IF a.result = "entry" /\ i.kind = "store"
                              THEN Append(store_buffer, i) ELSE store_buffer
  /\ core_req' = Tail(core_req)
  /\ UNCHANGED <<lineVars, pipeVars, wbVars, wr_ioop_response>>

-----------------------------------------------------------------------------
(* stage4.                                                                 *)

Forward(i) == /\ Len(isb_s4s5) < D45
              /\ isb_s4s5' = Append(isb_s4s5, i)
              /\ isb_s3s4' = Tail(isb_s3s4)

\* An answer with the epoch of another instruction is dropped by itself.
rl_handle_memory ==
  /\ isb_s3s4 # <<>> /\ Head(isb_s3s4).kind \in Memory
  /\ ff_memory_response # <<>>
  /\ LET i == Head(isb_s3s4)
         a == Head(ff_memory_response)
     IN  \/ a.epoch # i.epoch /\ UNCHANGED pipeVars
         \/ /\ a.epoch = i.epoch
            /\ Forward(CASE a.result = "fault" -> [op |-> None, kind |-> "trap", epoch |-> i.epoch]
                         [] a.result = "data"  -> [op |-> None, kind |-> "base", epoch |-> i.epoch]
                         [] a.result = "entry" -> i)
  /\ ff_memory_response' = <<>>
  /\ UNCHANGED <<lineVars, wbVars, core_req, bufVars, wr_ioop_response>>

rl_fwd_trapout ==
  /\ isb_s3s4 # <<>> /\ Head(isb_s3s4).kind = "trap"
  /\ Forward(Head(isb_s3s4))
  /\ UNCHANGED <<lineVars, wbVars, ansVars, bufVars, wr_ioop_response>>

-----------------------------------------------------------------------------
(* stage5.  ma_commit_store and ma_commit_io name the epoch of write-back: *)
(* the cache performs its oldest entry if that is the entry's epoch, and   *)
(* drops it otherwise.                                                     *)

AtWb(kinds) == isb_s4s5 # <<>> /\ Head(isb_s4s5).kind \in kinds
epochs_match == Head(isb_s4s5).epoch = rg_epoch
Leave == isb_s4s5' = Tail(isb_s4s5) /\ UNCHANGED isb_s3s4

ma_commit_store == /\ store_buffer # <<>>
                   /\ store_buffer' = Tail(store_buffer)
                   /\ UNCHANGED io_buffer

IoRequest(i) == [op |-> i.op, write |-> i.kind = "iowrite"]

commit_io_any_epoch ==   (* mutant: the epoch of the commit is not compared *)
  /\ io_buffer # <<>>
  /\ io_req' = Append(io_req, IoRequest(Head(io_buffer)))
  /\ UNCHANGED <<bufVars, cacheVars, burstVars, rg_read_line_req, requests,
                 responses, fabricVars>>

ma_commit_io ==
  /\ io_buffer # <<>>
  /\ \/ /\ Head(io_buffer).epoch = rg_epoch
        /\ io_req' = Append(io_req, IoRequest(Head(io_buffer)))
        /\ UNCHANGED bufVars
     \/ /\ Head(io_buffer).epoch # rg_epoch
        /\ io_buffer' = Tail(io_buffer)
        /\ UNCHANGED <<io_req, store_buffer>>
  /\ UNCHANGED <<cacheVars, burstVars, rg_read_line_req, requests, responses,
                 fabricVars>>

rl_writeback_trap ==
  /\ AtWb({"trap"})
  /\ rg_epoch' = IF epochs_match THEN 1 - rg_epoch ELSE rg_epoch
  /\ Leave
  /\ UNCHANGED <<lineVars, rg_ioop_init, ansVars, bufVars, wr_ioop_response>>

rl_writeback_baseout ==
  /\ AtWb({"base"})
  /\ Leave
  /\ UNCHANGED <<lineVars, wbVars, ansVars, bufVars, wr_ioop_response>>

rl_writeback_memop_store ==
  /\ AtWb({"store"})
  /\ ma_commit_store
  /\ Leave
  /\ UNCHANGED <<lineVars, wbVars, ansVars, wr_ioop_response>>

rl_writeback_memop_init ==
  /\ AtWb(Io) /\ epochs_match /\ ~rg_ioop_init
  /\ rg_ioop_init' = TRUE
  /\ ma_commit_io
  /\ UNCHANGED <<pipeVars, rg_epoch, ansVars, wr_ioop_response>>

memop_done_keeps_init ==   (* mutant: rg_ioop_init stays set *)
  /\ AtWb(Io) /\ epochs_match /\ rg_ioop_init
  /\ wr_ioop_response # None
  /\ wr_ioop_response' = None
  /\ rg_epoch' \in {rg_epoch, 1 - rg_epoch}
  /\ Leave
  /\ UNCHANGED <<lineVars, rg_ioop_init, ansVars, bufVars>>

\* A bus error traps.
rl_writeback_memop_done ==
  /\ AtWb(Io) /\ epochs_match /\ rg_ioop_init
  /\ wr_ioop_response # None
  /\ rg_ioop_init' = FALSE
  /\ wr_ioop_response' = None
  /\ rg_epoch' \in {rg_epoch, 1 - rg_epoch}
  /\ Leave
  /\ UNCHANGED <<lineVars, ansVars, bufVars>>

memop_drop_silent ==   (* mutant: the cache is not told *)
  /\ AtWb(Io) /\ ~epochs_match
  /\ Leave
  /\ UNCHANGED <<lineVars, wbVars, ansVars, bufVars, wr_ioop_response>>

rl_writeback_memop_drop ==
  /\ AtWb(Io) /\ ~epochs_match
  /\ ma_commit_io
  /\ Leave
  /\ UNCHANGED <<wbVars, ansVars, wr_ioop_response>>

\* The cache hands the answer of the bus on.
IoResponse(ch) ==
  /\ \E a \in IoAnswer(ch) : wr_ioop_response' = a.of
  /\ io_buffer' = Tail(io_buffer)
  /\ UNCHANGED <<pipeVars, wbVars, ansVars, store_buffer>>
-----------------------------------------------------------------------------
Stage3 == \E kind \in Kinds : rl_exe_base_memory(kind)
Stage4 == rl_handle_memory \/ rl_fwd_trapout
Stage5 == \/ rl_writeback_trap \/ rl_writeback_baseout \/ rl_writeback_memop_store
          \/ rl_writeback_memop_init \/ rl_writeback_memop_done
          \/ rl_writeback_memop_drop

CacheEvicts == \E l \in Line : Evict(l) /\ UNCHANGED pathVars
CacheMisses == \E l \in Line : Miss(l) /\ UNCHANGED pathVars

LineReads == rl_handle_dmem_line_read_request /\ UNCHANGED pathVars
DelayedReads == rl_handle_delayed_read /\ UNCHANGED pathVars
LineWrites == \/ rl_handle_dmem_write_request /\ UNCHANGED pathVars
              \/ rl_dmem_burst_write_data /\ UNCHANGED pathVars
InitiateIo == rl_initiate_io /\ UNCHANGED pathVars
LineFilled == rl_handle_dmem_line_resp /\ UNCHANGED pathVars
LineWritten == handle_dmem_line_write_resp /\ UNCHANGED pathVars
IoRead == rl_handle_io_read_response /\ IoResponse(r)
IoWritten == rl_handle_io_write_resp /\ IoResponse(b)
FabricWrites == FabricWrite /\ UNCHANGED pathVars
FabricReads(id) == FabricRead(id) /\ UNCHANGED pathVars

Next == \/ Stage3 \/ CacheAnswers \/ Stage4 \/ Stage5
        \/ CacheEvicts \/ CacheMisses
        \/ LineReads \/ DelayedReads \/ LineWrites \/ InitiateIo
        \/ LineFilled \/ LineWritten \/ IoRead \/ IoWritten
        \/ FabricWrites \/ \E id \in {0, 1} : FabricReads(id)

Spec == Init /\ [][Next]_vars

\* Each rule fires when it can, and the fabric serves both kinds of reads.
\* Strong fairness for the rules that may find a channel taken by an I/O request
\* or by each other: that happens once, as the next I/O request has to wait for
\* the answer of this one.
FairSpec ==
  /\ Spec
  /\ WF_vars(CacheAnswers) /\ WF_vars(Stage4) /\ WF_vars(Stage5)
  /\ SF_vars(LineReads) /\ SF_vars(DelayedReads) /\ SF_vars(LineWrites)
  /\ WF_vars(InitiateIo)
  /\ WF_vars(LineFilled) /\ WF_vars(LineWritten) /\ WF_vars(IoRead) /\ WF_vars(IoWritten)
  /\ WF_vars(FabricWrites) /\ SF_vars(FabricReads(0)) /\ SF_vars(FabricReads(1))

-----------------------------------------------------------------------------
\* Type correctness.
Instr == [op : Op \cup {None}, kind : Kind \cup {"base"}, epoch : {0, 1}]
Message == [id : {0, 1}, of : Line \cup Op]
TypeOK ==
  /\ resident \subseteq Line /\ filling \in Line \cup {None}
  /\ last \in [Line -> {0, 1}]
  /\ evictions \in Seq([line : Line, val : {0, 1}])
  /\ rd_req \in Seq(Line) /\ io_req \in Seq([op : Op, write : BOOLEAN])
  /\ rg_burst_count \in 0 .. BEATS - 1 /\ rg_shift_amount \in 0 .. BEATS - 1
  /\ wr_write_req \in Line \cup {None} /\ rg_read_line_req \in Line \cup {None}
  /\ ar \in Seq(Message) /\ aw \in Seq(Message) /\ b \in Seq(Message)
  /\ w \in Seq([of : Line \cup Op, data : Part, last : BOOLEAN])
  /\ r \in Seq([id : {0, 1}, of : Line \cup Op, data : Seq(Part)])
  /\ accepted \in Seq(Message) /\ arriving \in Seq(Part) /\ mem \in [Line -> Seq(Part)]
  /\ isb_s3s4 \in Seq(Instr) /\ isb_s4s5 \in Seq(Instr) /\ core_req \in Seq(Instr)
  /\ io_buffer \in Seq(Instr) /\ store_buffer \in Seq(Instr)
  /\ ff_memory_response \in
       Seq([epoch : {0, 1}, result : {"fault", "data", "entry"}])
  /\ rg_epoch \in {0, 1} /\ rg_ioop_init \in BOOLEAN
  /\ wr_ioop_response \in Op \cup {None}

\* Devices see the I/O operations that commit, one at a time, in program order
\* and once: the hand-shake of rg_ioop_init with the cache, the rules of ccore
\* and write-back, and the cancelling of operations behind a trap.
InOrder == isb_s4s5 \o isb_s3s4
IoPlaces == {n \in DOMAIN InOrder : InOrder[n].kind \in Io}
Live  == {InOrder[n].op : n \in IoPlaces}
Older == {e \in Live \X Live : \E m, n \in IoPlaces :
            m < n /\ e = <<InOrder[m].op, InOrder[n].op>>}
Pending == ToSet(accepted \o aw)
Sent == {io_req[n].op : n \in DOMAIN io_req}
          \cup {ar[n].of : n \in DOMAIN ar} \cup {m.of : m \in Pending}
Returned == {r[n].of : n \in DOMAIN r} \cup {b[n].of : n \in DOMAIN b}
              \cup {wr_ioop_response}
HeadState == IF (Sent \cap Op) # {} THEN "asked"
             ELSE IF (Returned \cap Op) # {} THEN "performed" ELSE "waiting"
Device == INSTANCE DeviceOnce WITH live <- Live, older <- Older, head <- HeadState
ImplementsDevice == Device!DeviceSpec

\* The cache's buffers hold what write-back will release or cancel, in the same
\* order, although answers, commits and cancellations reach them by different
\* paths and a cancellation does not say which entry it means.
Answered ==
  {n \in DOMAIN isb_s3s4 :
     /\ \E i \in DOMAIN ff_memory_response : ff_memory_response[i].result = "entry"
     /\ isb_s3s4[n].kind \in Memory /\ \A m \in 1 .. n - 1 : isb_s3s4[m].kind \notin Memory}
Held == isb_s4s5 \o SubSeq(isb_s3s4, 1, IF Answered = {} THEN 0
                                          ELSE CHOOSE n \in Answered : TRUE)

\* q holds the instructions of s that are of some kinds, in the same order.
Picks(q, s, kinds) ==
  \E f \in [DOMAIN q -> DOMAIN s] :
    /\ \A i \in DOMAIN q : q[i] = s[f[i]] /\ s[f[i]].kind \in kinds
    /\ \A i, j \in DOMAIN q : i < j => f[i] < f[j]
    /\ \A n \in DOMAIN s : s[n].kind \in kinds => \E i \in DOMAIN q : n = f[i]

BuffersInStep ==
  /\ Picks(store_buffer, Held, {"store"})
  /\ IF wr_ioop_response = None THEN Picks(io_buffer, Held, Io)
     ELSE Held # <<>> /\ Head(Held).kind \in Io /\ Picks(io_buffer, Tail(Held), Io)

\* An evicted line gets to memory: once nothing of it is on its way, memory holds
\* the whole line as the cache last had it, whatever bursts and I/O writes
\* shared the data channel.
OnItsWay(l) == \/ \E n \in DOMAIN evictions : evictions[n].line = l
               \/ \E m \in Pending : m.of = l
EvictionsLand == \A l \in Line : ~OnItsWay(l) => mem[l] = Whole(last[l])

\* While beats of a line remain to be sent, no read of that line is sent.
Reads(l) == {n \in DOMAIN ar : ar[n].of = l}
NoReadIntoBurst ==
  [][\A l \in Line : Reads(l) = {} /\ Reads(l)' # {}
                       => rg_burst_count = 0 \/ Head(evictions).line # l]_vars

\* The comment on the read rule: "if a write - request has been initiated no
\* read - requests should be latched unless the write - response has arrived", of
\* the same line.
Initiated(l) == [id |-> 0, of |-> l] \in Pending \cup ToSet(b)
ReadsAwaitResponse ==
  [][\A l \in Line : Reads(l) = {} /\ Reads(l)' # {} => ~Initiated(l)]_vars

\* Nobody waits for ever: a line the cache asked for arrives, also when its read
\* was parked, and an I/O operation that was started gets its answer, unless
\* evictions never stop.
RequestsAnswered ==
  /\ filling # None ~> filling = None
  /\ <>[](evictions = <<>>) => (rg_ioop_init ~> ~rg_ioop_init)
=============================================================================
