----------------------------- MODULE LineTraffic ----------------------------
(***************************************************************************)
(* The rules of ccore.bsv that carry line fills, evictions and I/O of the  *)
(* data cache over one AXI master port.  One rule is one action.           *)
(*                                                                         *)
(* The cache, the transactor's FIFOs and the fabric behind them are        *)
(* submodules that are not part of the repository; they are modelled from  *)
(* what these rules ask of them.  A line is BEATS parts; a part carries    *)
(* its number and one of two values, so that a part that is missing, out   *)
(* of place or of an older version of the line is seen.                    *)
(***************************************************************************)
EXTENDS Naturals, Sequences, SequencesExt

CONSTANTS Line,       \* cache lines
          Op,         \* tags of I/O operations
          None,
          BEATS,      \* dblocks * dwords * 8 / buswidth
          EVICTIONS,  \* places of the cache's eviction FIFO
          CHANNEL     \* places of each FIFO of the transactor

ASSUME LineAssumption ==
  /\ Line \cap Op = {} /\ None \notin Line \cup Op
  /\ BEATS \in Nat \ {0, 1} /\ EVICTIONS \in Nat \ {0} /\ CHANNEL \in Nat \ {0}

VARIABLES
  resident, filling, last, evictions, rd_req,    \* the cache
  io_req,                                        \* its request for I/O
  rg_burst_count, rg_shift_amount, wr_write_req, rg_read_line_req,
  ar, aw, w, r, b,                               \* memory_xactor
  accepted, arriving, mem                        \* the fabric and the memory

cacheVars  == <<resident, filling, last, evictions, rd_req>>
burstVars  == <<rg_burst_count, rg_shift_amount, wr_write_req>>
requests   == <<ar, aw, w>>
responses  == <<r, b>>
fabricVars == <<accepted, arriving, mem>>
lineVars   == <<cacheVars, io_req, burstVars, rg_read_line_req, requests,
                responses, fabricVars>>

Part  == [part : 0 .. BEATS - 1, val : {0, 1}]
Whole(v) == [i \in 1 .. BEATS |-> [part |-> i - 1, val |-> v]]

Room(ch) == Len(ch) < CHANNEL

LineInit ==
  /\ resident = Line /\ filling = None /\ evictions = <<>> /\ rd_req = <<>>
  /\ last = [l \in Line |-> 0]
  /\ io_req = <<>>
  /\ rg_burst_count = 0 /\ rg_shift_amount = 1
  /\ wr_write_req = None /\ rg_read_line_req = None
  /\ ar = <<>> /\ aw = <<>> /\ w = <<>> /\ r = <<>> /\ b = <<>>
  /\ accepted = <<>> /\ arriving = <<>>
  /\ mem = [l \in Line |-> Whole(0)]

-----------------------------------------------------------------------------
(* The cache: it evicts a line that stores have changed, and fetches one   *)
(* line at a time that it does not hold.                                   *)

Evict(l) ==
  /\ l \in resident /\ Len(evictions) < EVICTIONS
  /\ resident' = resident \ {l}
  /\ last' = [last EXCEPT ![l] = 1 - last[l]]
  /\ evictions' = Append(evictions, [line |-> l, val |-> 1 - last[l]])
  /\ UNCHANGED <<filling, rd_req, io_req, burstVars, rg_read_line_req,
                 requests, responses, fabricVars>>

Miss(l) ==
  /\ l \notin resident /\ filling = None
  /\ filling' = l
  /\ rd_req' = Append(rd_req, l)
  /\ UNCHANGED <<resident, last, evictions, io_req, burstVars,
                 rg_read_line_req, requests, responses, fabricVars>>

-----------------------------------------------------------------------------
(* Line reads.                                                             *)

SameLineNever(l) == FALSE   (* mutant: a read is not compared with the write *)

\* The addresses are compared without the bits below dwords + dblocks; two
\* lines that differ there only are one line here.
SameLine(l) == wr_write_req = l

SendRead(l) == ar' = Append(ar, [id |-> 0, of |-> l]) /\ UNCHANGED <<aw, w>>

rl_handle_dmem_line_read_request ==
  /\ rg_read_line_req = None /\ rd_req # <<>> /\ Room(ar)
  /\ rd_req' = Tail(rd_req)
  /\ \/ /\ SameLine(Head(rd_req))
        /\ rg_read_line_req' = Head(rd_req)
        /\ UNCHANGED requests
     \/ /\ ~SameLine(Head(rd_req))
        /\ SendRead(Head(rd_req))
        /\ UNCHANGED rg_read_line_req
  /\ UNCHANGED <<resident, filling, last, evictions, io_req, burstVars,
                 responses, fabricVars>>

rl_handle_delayed_read ==
  /\ rg_read_line_req # None /\ wr_write_req = None /\ Room(ar)
  /\ SendRead(rg_read_line_req)
  /\ rg_read_line_req' = None
  /\ UNCHANGED <<cacheVars, io_req, burstVars, responses, fabricVars>>

rl_handle_dmem_line_resp ==
  /\ r # <<>> /\ Head(r).id = 0
  /\ r' = Tail(r)
  /\ filling' = None
  /\ resident' = resident \cup {Head(r).of}
  /\ UNCHANGED <<last, evictions, rd_req, io_req, burstVars,
                 rg_read_line_req, requests, b, fabricVars>>

-----------------------------------------------------------------------------
(* Evictions: the first beat goes out with the address, one more beat in   *)
(* each later step; the line leaves the cache's FIFO with its last beat.   *)

PartAt(n) == [part |-> n, val |-> Head(evictions).val]
Beat(of, p, l) == [of |-> of, data |-> p, last |-> l]

rl_handle_dmem_write_request ==
  /\ rg_burst_count = 0 /\ evictions # <<>> /\ Room(aw) /\ Room(w)
  /\ LET l == Head(evictions).line
     IN  /\ aw' = Append(aw, [id |-> 0, of |-> l])
         /\ w' = Append(w, Beat(l, PartAt(0), FALSE))
         /\ wr_write_req' = l
  /\ rg_burst_count' = rg_burst_count + 1
  /\ UNCHANGED <<cacheVars, io_req, rg_shift_amount, rg_read_line_req, ar,
                 responses, fabricVars>>

LastBeat == rg_burst_count = BEATS - 1

burst_keeps_write_req ==   (* mutant: wr_write_req is not reset *)
  /\ rg_burst_count # 0 /\ evictions # <<>> /\ Room(w)
  /\ w' = Append(w, Beat(Head(evictions).line, PartAt(rg_shift_amount), LastBeat))
  /\ rg_burst_count' = (rg_burst_count + 1) % BEATS
  /\ rg_shift_amount' = IF LastBeat THEN 1 ELSE (rg_shift_amount + 1) % BEATS
  /\ evictions' = IF LastBeat THEN Tail(evictions) ELSE evictions
  /\ UNCHANGED <<resident, filling, last, rd_req, io_req, wr_write_req,
                 rg_read_line_req, ar, aw, responses, fabricVars>>

rl_dmem_burst_write_data ==
  /\ rg_burst_count # 0 /\ evictions # <<>> /\ Room(w)
  /\ w' = Append(w, Beat(Head(evictions).line, PartAt(rg_shift_amount), LastBeat))
  /\ \/ /\ LastBeat
        /\ rg_burst_count' = 0 /\ rg_shift_amount' = 1
        /\ wr_write_req' = None
        /\ evictions' = Tail(evictions)
     \/ /\ ~LastBeat
        /\ rg_burst_count' = rg_burst_count + 1
        /\ rg_shift_amount' = (rg_shift_amount + 1) % BEATS
        /\ UNCHANGED <<wr_write_req, evictions>>
  /\ UNCHANGED <<resident, filling, last, rd_req, io_req, rg_read_line_req,
                 ar, aw, responses, fabricVars>>

handle_dmem_line_write_resp ==
  /\ b # <<>> /\ Head(b).id = 0
  /\ b' = Tail(b)
  /\ UNCHANGED <<cacheVars, io_req, burstVars, rg_read_line_req, requests, r,
                 fabricVars>>

-----------------------------------------------------------------------------
(* I/O.                                                                    *)

InitiateRead(o) == /\ Room(ar)
                   /\ ar' = Append(ar, [id |-> 1, of |-> o])
                   /\ UNCHANGED <<aw, w>>

InitiateWrite(o) == /\ Room(aw) /\ Room(w)
                    /\ aw' = Append(aw, [id |-> 1, of |-> o])
                    /\ w' = Append(w, Beat(o, [part |-> 0, val |-> 0], TRUE))
                    /\ UNCHANGED ar

initiate_io_in_burst ==   (* mutant: it does not wait for the burst *)
  /\ io_req # <<>>
  /\ IF Head(io_req).write THEN InitiateWrite(Head(io_req).op)
                           ELSE InitiateRead(Head(io_req).op)
  /\ io_req' = Tail(io_req)
  /\ UNCHANGED <<cacheVars, burstVars, rg_read_line_req, responses, fabricVars>>

rl_initiate_io ==
  /\ rg_burst_count = 0 /\ io_req # <<>>
  /\ IF Head(io_req).write THEN InitiateWrite(Head(io_req).op)
                           ELSE InitiateRead(Head(io_req).op)
  /\ io_req' = Tail(io_req)
  /\ UNCHANGED <<cacheVars, burstVars, rg_read_line_req, responses, fabricVars>>

\* The answer goes back to the cache, and through it to write-back.
IoAnswer(ch) == IF ch # <<>> /\ Head(ch).id = 1 THEN {Head(ch)} ELSE {}

rl_handle_io_read_response ==
  /\ IoAnswer(r) # {}
  /\ r' = Tail(r)
  /\ UNCHANGED <<cacheVars, io_req, burstVars, rg_read_line_req, requests, b,
                 fabricVars>>

rl_handle_io_write_resp ==
  /\ IoAnswer(b) # {}
  /\ b' = Tail(b)
  /\ UNCHANGED <<cacheVars, io_req, burstVars, rg_read_line_req, requests, r,
                 fabricVars>>

-----------------------------------------------------------------------------
(* The fabric.  Writes are served in the order of their addresses, a burst *)
(* when its last beat is there; reads of one id in their order, and before *)
(* or after any write: the channels are independent.                       *)

Written == Head(accepted \o aw)

FabricWrite ==
  /\ w # <<>> /\ accepted \o aw # <<>>
  /\ w' = Tail(w)
  /\ aw' = IF accepted = <<>> THEN Tail(aw) ELSE aw
  /\ LET burst == Append(arriving, Head(w).data)
     IN  \/ /\ ~Head(w).last
            /\ accepted' = <<Written>> /\ arriving' = burst
            /\ UNCHANGED <<b, mem>>
         \/ /\ Head(w).last /\ Room(b)
            /\ accepted' = <<>> /\ arriving' = <<>>
            /\ b' = Append(b, Written)
            /\ mem' = IF Written.id = 0 THEN [mem EXCEPT ![Written.of] = burst]
                                        ELSE mem
  /\ UNCHANGED <<cacheVars, io_req, burstVars, rg_read_line_req, ar, r>>

FabricRead(id) ==
  /\ Room(r)
  /\ \E i \in DOMAIN ar :
       /\ ar[i].id = id /\ \A j \in 1 .. i - 1 : ar[j].id # id
       /\ ar' = RemoveAt(ar, i)
       /\ r' = Append(r, [id |-> ar[i].id, of |-> ar[i].of,
                          data |-> IF ar[i].id = 0 THEN mem[ar[i].of]
                                                   ELSE Whole(0)])
  /\ UNCHANGED <<cacheVars, io_req, burstVars, rg_read_line_req, aw, w, b,
                 fabricVars>>
=============================================================================
