-------------------------- MODULE MemoryPath_proofs --------------------------
(***************************************************************************)
(* The memory path, for any number of lines, beats, tags and places.       *)
(***************************************************************************)
EXTENDS MemoryPath, SequenceTheorems, FunctionTheorems, FiniteSetTheorems, TLAPS

(* What travels, with the owner its id names.                              *)
Msg     == [id : {0}, of : Line] \cup [id : {1}, of : Op]
DataMsg == [id : {0}, of : Line, data : Seq(Part)] \cup [id : {1}, of : Op, data : Seq(Part)]
Ops     == [op : Op, kind : Released, epoch : {0, 1}]
Flight  == Ops \cup [op : {None}, kind : {"load", "base", "trap"}, epoch : {0, 1}]
Eviction  == [line : Line, val : {0, 1}]
IoRequests == [op : Op, write : BOOLEAN]
Beats   == [of : Line \cup Op, data : Part, last : BOOLEAN]
Answer  == [epoch : {0, 1}, result : {"fault", "data", "entry"}]

Pend == accepted \o aw

LineShape ==
  /\ resident \subseteq Line /\ filling \in Line \cup {None}
  /\ last \in [Line -> {0, 1}]
  /\ evictions \in Seq(Eviction)
  /\ rd_req \in Seq(Line) /\ io_req \in Seq(IoRequests)
  /\ rg_burst_count \in 0 .. BEATS - 1 /\ rg_shift_amount \in 0 .. BEATS - 1
  /\ wr_write_req \in Line \cup {None} /\ rg_read_line_req \in Line \cup {None}
  /\ ar \in Seq(Msg) /\ aw \in Seq(Msg) /\ b \in Seq(Msg)
  /\ w \in Seq(Beats)
  /\ r \in Seq(DataMsg)
  /\ accepted \in Seq(Msg) /\ Len(accepted) <= 1
  /\ arriving \in Seq(Part) /\ mem \in [Line -> Seq(Part)]

PathShape ==
  /\ isb_s3s4 \in Seq(Flight) /\ Len(isb_s3s4) <= D34
  /\ isb_s4s5 \in Seq(Flight) /\ Len(isb_s4s5) <= D45
  /\ core_req \in Seq(Flight)
  /\ io_buffer \in Seq(Ops) /\ store_buffer \in Seq(Ops)
  /\ ff_memory_response \in Seq(Answer) /\ Len(ff_memory_response) <= 1
  /\ rg_epoch \in {0, 1} /\ rg_ioop_init \in BOOLEAN
  /\ wr_ioop_response \in Op \cup {None}

(* The burst under way is of the oldest eviction, and the last message.    *)
BurstInv ==
  /\ rg_shift_amount = IF rg_burst_count = 0 THEN 1 ELSE rg_burst_count
  /\ IF rg_burst_count = 0 THEN wr_write_req = None
     ELSE /\ evictions # <<>> /\ Pend # <<>>
          /\ Pend[Len(Pend)] = [id |-> 0, of |-> Head(evictions).line]
          /\ wr_write_req = Head(evictions).line

(* The beats W are those of the messages P that the fabric has not taken,  *)
(* a of the first message's being taken and c of the last message's sent   *)
(* (all of them if c = 0).  The k-th beat belongs to message g[k] and is   *)
(* its part p[k]; the entry after the last is the beat that stage sends    *)
(* next.  v[n] is the version that message n carries.                      *)
BeatInv(W, P, v, g, p, k) ==
  /\ g[k] <= Len(P)
  /\ P[g[k]].id = 1 => p[k] = 0
  /\ P[g[k]].id = 0 => W[k].data = [part |-> p[k], val |-> v[g[k]]]
  /\ W[k].last <=> (P[g[k]].id = 1 \/ p[k] = BEATS - 1)
  /\ g[k + 1] = IF W[k].last THEN g[k] + 1 ELSE g[k]
  /\ p[k + 1] = IF W[k].last THEN 0 ELSE p[k] + 1

BeatsInv(W, P, c, a, v, g, p) ==
  /\ g[1] = 1 /\ p[1] = a
  /\ \A i, j \in 1 .. Len(W) + 1 : i <= j => g[i] <= g[j]
  /\ p[Len(W) + 1] = c
  /\ g[Len(W) + 1] = IF c = 0 THEN Len(P) + 1 ELSE Len(P)
  /\ \A k \in 1 .. Len(W) : BeatInv(W, P, v, g, p, k)

Carried(W, P, c, a, v) ==
  \E g \in [1 .. Len(W) + 1 -> 1 .. Len(P) + 1] :
  \E p \in [1 .. Len(W) + 1 -> 0 .. BEATS - 1] : BeatsInv(W, P, c, a, v, g, p)

ArrivingInv(v) ==
  /\ accepted = <<>> => arriving = <<>>
  /\ accepted # <<>> => accepted[1].id = 0 /\ arriving # <<>>
  /\ \A i \in DOMAIN arriving : arriving[i] = [part |-> i - 1, val |-> v[1]]

(* The newest version x of a line is that of the last eviction in E of it, *)
(* or else of the last message in P, or else memory's.                     *)
Newest(E, P, v, memory, l, x) ==
  /\ \A n \in DOMAIN E : E[n].line = l /\ (\A m \in DOMAIN E : m > n => E[m].line # l)
                           => E[n].val = x
  /\ (\A m \in DOMAIN E : E[m].line # l) =>
       /\ \A n \in DOMAIN P : P[n].of = l /\ (\A m \in DOMAIN P : m > n => P[m].of # l)
                                => v[n] = x
       /\ (\A m \in DOMAIN P : P[m].of # l) => memory = Whole(x)

VersionsInv(v) ==
  /\ Carried(w, Pend, rg_burst_count, Len(arriving), v)
  /\ ArrivingInv(v)
  /\ rg_burst_count # 0 => v[Len(Pend)] = Head(evictions).val
  /\ \A l \in Line : Newest(evictions, Pend, v, mem[l], l, last[l])

LinesInv == BurstInv /\ \E v \in [DOMAIN Pend -> {0, 1}] : VersionsInv(v)

(* An I/O operation that has been started is in one place.                 *)
Places == {"request", "read", "write", "data", "response", "answer"}
NoIo(q)    == \A n \in DOMAIN q : q[n].id # 1
Only(q, o) == \E n \in DOMAIN q : /\ q[n].id = 1 /\ q[n].of = o
                                  /\ \A m \in DOMAIN q : q[m].id = 1 => m = n

IoIn(q, here, o) == IF here THEN Only(q, o) ELSE NoIo(q)

IoAt(place, o) ==
  /\ IF place = "request" THEN Len(io_req) = 1 /\ io_req[1].op = o ELSE io_req = <<>>
  /\ IoIn(ar, place = "read", o)
  /\ IoIn(Pend, place = "write", o)
  /\ IoIn(r, place = "data", o)
  /\ IoIn(b, place = "response", o)
  /\ IF place = "answer" THEN wr_ioop_response = o ELSE wr_ioop_response = None

IoInv ==
  IF rg_ioop_init
  THEN /\ isb_s4s5 # <<>> /\ Head(isb_s4s5).kind \in Io /\ Head(isb_s4s5).epoch = rg_epoch
       /\ \E place \in Places : IoAt(place, Head(isb_s4s5).op)
  ELSE IoAt("none", None)

(* The cache has the memory operations of isb_s3s4, and has answered the   *)
(* first.                                                                  *)
AnswersInv ==
  \E c \in IF ff_memory_response = <<>> THEN {core_req}
           ELSE {<<isb_s3s4[n]>> \o core_req : n \in DOMAIN isb_s3s4} :
    /\ Picks(c, isb_s3s4, Memory)
    /\ ff_memory_response # <<>> => ff_memory_response[1] \in Answers(c[1])

UniqueTags ==
  \A m, n \in DOMAIN InOrder : InOrder[m].op \in Op /\ InOrder[m].op = InOrder[n].op => m = n

IInv == /\ LineShape /\ PathShape /\ LinesInv
        /\ IoInv /\ AnswersInv /\ UniqueTags /\ BuffersInStep

-----------------------------------------------------------------------------
(* Types.                                                                  *)

LEMMA ShapeTypes == LineShape /\ PathShape => TypeOK
<1> USE DEF Msg, DataMsg, Ops, Flight, Answer, Message, Instr, Kind, Released, Io
<1>1. ASSUME NEW S, NEW T, S \subseteq T PROVE Seq(S) \subseteq Seq(T)
  BY <1>1
<1>2. /\ Msg \subseteq Message /\ Flight \subseteq Instr /\ Ops \subseteq Instr
      /\ DataMsg \subseteq [id : {0, 1}, of : Line \cup Op, data : Seq(Part)]
  OBVIOUS
<1>3. /\ Seq(Msg) \subseteq Seq(Message) /\ Seq(Flight) \subseteq Seq(Instr)
      /\ Seq(Ops) \subseteq Seq(Instr)
      /\ Seq(DataMsg) \subseteq Seq([id : {0, 1}, of : Line \cup Op, data : Seq(Part)])
  <2> HIDE DEF Msg, DataMsg, Ops, Flight, Message, Instr
  <2> QED BY <1>1, <1>2
<1> QED
  <2> HIDE DEF Msg, DataMsg, Ops, Flight, Message, Instr
  <2> QED BY <1>3 DEF LineShape, PathShape, TypeOK, Answer, Eviction, IoRequests, Beats

(* A tag is free while an instruction can be taken.                        *)
LEMMA TaggedFinite ==
  ASSUME NEW s \in Seq(Flight)
  PROVE  IsFiniteSet(Tagged(s)) /\ Cardinality(Tagged(s)) <= Len(s)
                                /\ Cardinality(Tagged(s)) \in Nat
<1> DEFINE f == [i \in 1 .. Len(s) |-> s[i].op]
<1>1. f \in Surjection(1 .. Len(s), Tagged(s))
  BY DEF Surjection, Tagged
<1>2. IsFiniteSet(1 .. Len(s)) /\ Cardinality(1 .. Len(s)) = Len(s)
  <2>1. Len(s) \in Nat
    OBVIOUS
  <2> QED BY <2>1, FS_Interval
<1>3. IsFiniteSet(Tagged(s)) /\ Cardinality(Tagged(s)) <= Len(s)
  BY <1>1, <1>2, FS_Surjection
<1> QED BY <1>3, FS_CardinalityType

LEMMA TagFree ==
  ASSUME PathShape, Len(isb_s3s4) < D34
  PROVE  Free # {}
<1> DEFINE A == Tagged(isb_s3s4)  B == Tagged(isb_s4s5)
<1>1. /\ IsFiniteSet(A) /\ Cardinality(A) \in Nat /\ Cardinality(A) < D34
      /\ IsFiniteSet(B) /\ Cardinality(B) \in Nat /\ Cardinality(B) <= D45
  BY TaggedFinite, PathAssumption DEF PathShape
<1>2. IsFiniteSet(A \cup B) /\ Cardinality(A \cup B) < D34 + D45
  <2>1. /\ IsFiniteSet(A \cup B)
        /\ Cardinality(A \cup B) = Cardinality(A) + Cardinality(B) - Cardinality(A \cap B)
    BY <1>1, FS_Union
  <2>2. Cardinality(A \cap B) \in Nat
    BY <1>1, FS_Intersection, FS_CardinalityType
  <2> HIDE DEF A, B
  <2> QED BY <1>1, <2>1, <2>2, PathAssumption
<1>3. ASSUME Free = {} PROVE FALSE
  <2>1. Op \subseteq A \cup B
    BY <1>3 DEF Free
  <2>2. Cardinality(Op) <= Cardinality(A \cup B)
    BY <1>2, <2>1, FS_Subset
  <2> HIDE DEF A, B
  <2>3. Cardinality(Op) \in Nat /\ Cardinality(A \cup B) \in Nat
    BY <1>2, PathAssumption, FS_CardinalityType
  <2> QED BY <1>2, <2>2, <2>3, PathAssumption
<1> QED BY <1>3

LEMMA MessageTypes ==
  ASSUME NEW m \in Msg
  PROVE  \/ m.id = 0 /\ m.of \in Line
         \/ m.id = 1 /\ m.of \in Op
BY DEF Msg

LEMMA PendShape ==
  ASSUME LineShape
  PROVE  /\ Pend \in Seq(Msg) /\ Len(Pend) = Len(accepted) + Len(aw)
         /\ accepted # <<>> => Pend[1] = accepted[1]
BY DEF LineShape, Pend

LEMMA WholeType == ASSUME NEW v \in {0, 1} PROVE Whole(v) \in Seq(Part)
<1> DEFINE f(i) == [part |-> i - 1, val |-> v]
<1>1. BEATS \in Nat /\ \A i \in 1 .. BEATS : f(i) \in Part
  BY LineAssumption DEF Part
<1> QED BY <1>1 DEF Whole

LEMMA HeadTail ==
  ASSUME NEW S, NEW q \in Seq(S), q # <<>>
  PROVE  /\ Head(q) = q[1] /\ Head(q) \in S /\ Tail(q) \in Seq(S)
         /\ Len(q) \in Nat \ {0} /\ Len(Tail(q)) = Len(q) - 1
         /\ \A i \in 1 .. Len(q) - 1 : Tail(q)[i] = q[i + 1]
OBVIOUS

LEMMA Single ==
  ASSUME NEW S, NEW q \in Seq(S), Len(q) = 1
  PROVE  q = <<q[1]>>
<1>1. <<q[1]>> \in Seq(S) /\ Len(<<q[1]>>) = 1 /\ <<q[1]>>[1] = q[1]
  OBVIOUS
<1> QED BY <1>1, SeqEqual

LEMMA Appended ==
  ASSUME NEW S, NEW q \in Seq(S), NEW x \in S
  PROVE  Append(q, x) \in Seq(S)
OBVIOUS

(* Every rule keeps the types of what it moves.                            *)
LEMMA LineShapeKept ==
  ASSUME LineShape, PathShape, [Next]_vars
  PROVE  LineShape'
<1> USE LineAssumption
<1>1. CASE UNCHANGED lineVars
  BY <1>1 DEF LineShape, lineVars, cacheVars, burstVars, requests, responses, fabricVars
<1>2. ASSUME ma_commit_io PROVE LineShape'
  <2>1. io_buffer \in Seq(Ops) /\ io_buffer # <<>>
    BY <1>2 DEF ma_commit_io, PathShape
  <2>2. Head(io_buffer) \in Ops
    BY <2>1, HeadTail
  <2>3. IoRequest(Head(io_buffer)) \in IoRequests
    BY <2>2 DEF Ops, IoRequest, IoRequests
  <2>4. io_req' \in Seq(IoRequests)
    <3>1. io_req \in Seq(IoRequests) /\ Append(io_req, IoRequest(Head(io_buffer))) \in Seq(IoRequests)
      BY <2>3, Appended, Zenon DEF LineShape
    <3> QED BY <1>2, <3>1 DEF ma_commit_io
  <2> QED
    BY <1>2, <2>4 DEF ma_commit_io, LineShape, cacheVars, burstVars, requests, responses, fabricVars
<1>3. ASSUME NEW l \in Line, Evict(l) PROVE LineShape'
  <2>1. [line |-> l, val |-> 1 - last[l]] \in Eviction /\ 1 - last[l] \in {0, 1}
    <3>1. last[l] \in {0, 1}
      BY DEF LineShape
    <3>2. 1 - last[l] \in {0, 1}
      BY <3>1
    <3> QED BY <3>2 DEF Eviction
  <2>2. evictions' \in Seq(Eviction)
    BY <1>3, <2>1, Appended DEF Evict, LineShape
  <2> QED
    BY <1>3, <2>1, <2>2 DEF Evict, LineShape, burstVars, requests, responses, fabricVars
<1>4. ASSUME NEW l \in Line, Miss(l) PROVE LineShape'
  BY <1>4 DEF Miss, LineShape, burstVars, requests, responses, fabricVars
<1>5. ASSUME rl_handle_dmem_line_read_request PROVE LineShape'
  <2>1. Head(rd_req) \in Line /\ Tail(rd_req) \in Seq(Line)
    BY <1>5, HeadTail DEF rl_handle_dmem_line_read_request, LineShape
  <2>2. [id |-> 0, of |-> Head(rd_req)] \in Msg
    BY <2>1 DEF Msg
  <2>3. ar' \in Seq(Msg)
    <3>1. ar \in Seq(Msg) /\ Append(ar, [id |-> 0, of |-> Head(rd_req)]) \in Seq(Msg)
      BY <2>2, Appended, Zenon DEF LineShape
    <3> QED BY <1>5, <3>1 DEF rl_handle_dmem_line_read_request, SendRead, requests
  <2> QED
    BY <1>5, <2>1, <2>3 DEF rl_handle_dmem_line_read_request, SendRead, LineShape, burstVars,
                            requests, responses, fabricVars
<1>6. ASSUME rl_handle_delayed_read PROVE LineShape'
  <2>1. rg_read_line_req \in Line
    BY <1>6 DEF rl_handle_delayed_read, LineShape
  <2>2. [id |-> 0, of |-> rg_read_line_req] \in Msg
    BY <2>1 DEF Msg
  <2>3. ar' \in Seq(Msg)
    BY <1>6, <2>2, Appended DEF rl_handle_delayed_read, SendRead, LineShape
  <2> QED
    BY <1>6, <2>3 DEF rl_handle_delayed_read, SendRead, LineShape, burstVars, cacheVars,
                      responses, fabricVars
<1>7. ASSUME rl_handle_dmem_line_resp PROVE LineShape'
  <2>1. Head(r) \in DataMsg /\ Tail(r) \in Seq(DataMsg)
    BY <1>7, HeadTail DEF rl_handle_dmem_line_resp, LineShape
  <2>2. Head(r).of \in Line
    BY <1>7, <2>1 DEF rl_handle_dmem_line_resp, DataMsg
  <2> QED
    BY <1>7, <2>1, <2>2 DEF rl_handle_dmem_line_resp, LineShape, burstVars, requests, fabricVars
<1>8. ASSUME rl_handle_dmem_write_request PROVE LineShape'
  <2>1. Head(evictions) \in Eviction
    BY <1>8, HeadTail DEF rl_handle_dmem_write_request, LineShape
  <2>2. Head(evictions).line \in Line /\ Head(evictions).val \in {0, 1}
    BY <2>1 DEF Eviction
  <2>3. /\ [id |-> 0, of |-> Head(evictions).line] \in Msg
        /\ Beat(Head(evictions).line, PartAt(0), FALSE) \in Beats
        /\ 1 \in 0 .. BEATS - 1
    BY <2>2 DEF Msg, Beat, Beats, PartAt, Part
  <2>4. /\ wr_write_req' \in Line \cup {None} /\ rg_burst_count' \in 0 .. BEATS - 1
        /\ aw' \in Seq(Msg) /\ w' \in Seq(Beats)
    <3>1. aw \in Seq(Msg) /\ Append(aw, [id |-> 0, of |-> Head(evictions).line]) \in Seq(Msg)
      BY <2>3, Appended, Zenon DEF LineShape
    <3>2. w \in Seq(Beats) /\ Append(w, Beat(Head(evictions).line, PartAt(0), FALSE)) \in Seq(Beats)
      BY <2>3, Appended, Zenon DEF LineShape
    <3>3. /\ aw' = Append(aw, [id |-> 0, of |-> Head(evictions).line])
          /\ w' = Append(w, Beat(Head(evictions).line, PartAt(0), FALSE))
          /\ wr_write_req' = Head(evictions).line
          /\ rg_burst_count = 0 /\ rg_burst_count' = rg_burst_count + 1
      BY <1>8, Zenon DEF rl_handle_dmem_write_request
    <3>4. rg_burst_count' \in 0 .. BEATS - 1
      <4>1. rg_burst_count' = 0 + 1
        BY <3>3
      <4> QED BY <2>3, <4>1
    <3> QED BY <2>2, <3>1, <3>2, <3>3, <3>4, Zenon
  <2> QED
    BY <1>8, <2>4 DEF rl_handle_dmem_write_request, LineShape, cacheVars, responses, fabricVars
<1>9. ASSUME rl_dmem_burst_write_data PROVE LineShape'
  <2>1. Head(evictions) \in Eviction /\ Tail(evictions) \in Seq(Eviction)
    BY <1>9, HeadTail DEF rl_dmem_burst_write_data, LineShape
  <2>2. Head(evictions).line \in Line /\ Head(evictions).val \in {0, 1}
    BY <2>1 DEF Eviction
  <2>3. /\ rg_shift_amount \in 0 .. BEATS - 1 /\ rg_burst_count \in 0 .. BEATS - 1
        /\ BEATS \in Nat \ {0, 1} /\ LastBeat \in BOOLEAN
    BY DEF LineShape, LastBeat
  <2>4. Beat(Head(evictions).line, PartAt(rg_shift_amount), LastBeat) \in Beats
    BY <2>2, <2>3 DEF Beat, Beats, PartAt, Part
  <2>5. /\ (rg_shift_amount + 1) % BEATS \in 0 .. BEATS - 1
        /\ rg_burst_count # BEATS - 1 => rg_burst_count + 1 \in 0 .. BEATS - 1
    BY <2>3
  <2>6. rg_burst_count' \in 0 .. BEATS - 1 /\ rg_shift_amount' \in 0 .. BEATS - 1
    BY <1>9, <2>3, <2>5 DEF rl_dmem_burst_write_data, LastBeat
  <2>7. w' \in Seq(Beats)
    BY <1>9, <2>4, Appended DEF rl_dmem_burst_write_data, LineShape
  <2>8. wr_write_req' \in Line \cup {None} /\ evictions' \in Seq(Eviction)
    BY <1>9, <2>1 DEF rl_dmem_burst_write_data, LineShape
  <2> QED
    BY <1>9, <2>6, <2>7, <2>8 DEF rl_dmem_burst_write_data, LineShape, responses, fabricVars
<1>10. ASSUME rl_initiate_io PROVE LineShape'
  <2> DEFINE o == Head(io_req).op
  <2>1. Head(io_req) \in IoRequests /\ Tail(io_req) \in Seq(IoRequests)
    BY <1>10, HeadTail DEF rl_initiate_io, LineShape
  <2>2. o \in Op
    BY <2>1 DEF IoRequests
  <2>3. [id |-> 1, of |-> o] \in Msg /\ Beat(o, [part |-> 0, val |-> 0], TRUE) \in Beats
    BY <2>2 DEF Msg, Beat, Beats, Part
  <2> HIDE DEF o
  <2>4. aw' \in Seq(Msg) /\ ar' \in Seq(Msg) /\ w' \in Seq(Beats)
    <3>1. aw \in Seq(Msg) /\ ar \in Seq(Msg) /\ w \in Seq(Beats)
      BY DEF LineShape
    <3>2. /\ Append(aw, [id |-> 1, of |-> o]) \in Seq(Msg)
          /\ Append(ar, [id |-> 1, of |-> o]) \in Seq(Msg)
      BY <2>3, <3>1, Appended, Zenon
    <3>3. Append(w, Beat(o, [part |-> 0, val |-> 0], TRUE)) \in Seq(Beats)
      BY <2>3, <3>1, Appended, Zenon
    <3> QED
      BY <1>10, <3>1, <3>2, <3>3 DEF rl_initiate_io, InitiateRead, InitiateWrite, o
  <2> QED
    BY <1>10, <2>1, <2>4 DEF rl_initiate_io, LineShape, cacheVars, burstVars, responses, fabricVars
<1>11. ASSUME handle_dmem_line_write_resp PROVE LineShape'
  BY <1>11 DEF handle_dmem_line_write_resp, LineShape, cacheVars, burstVars, requests, fabricVars
<1>12. ASSUME rl_handle_io_read_response PROVE LineShape'
  <2>1. r # <<>>
    BY <1>12 DEF rl_handle_io_read_response, IoAnswer
  <2> QED
    BY <1>12, <2>1 DEF rl_handle_io_read_response, LineShape, cacheVars, burstVars, requests, fabricVars
<1>13. ASSUME rl_handle_io_write_resp PROVE LineShape'
  <2>1. b # <<>>
    BY <1>13 DEF rl_handle_io_write_resp, IoAnswer
  <2> QED
    BY <1>13, <2>1 DEF rl_handle_io_write_resp, LineShape, cacheVars, burstVars, requests, fabricVars
<1>14. ASSUME FabricWrite PROVE LineShape'
  <2>1. /\ Written = Pend[1] /\ Pend[1] \in Msg
        /\ accepted = <<>> => aw # <<>>
    BY <1>14, PendShape, HeadTail DEF FabricWrite, Written, Pend, LineShape
  <2>2. Head(w) \in Beats /\ Tail(w) \in Seq(Beats)
    BY <1>14, HeadTail DEF FabricWrite, LineShape
  <2>3. w' \in Seq(Beats) /\ Head(w).data \in Part /\ aw' \in Seq(Msg)
    BY <1>14, <2>1, <2>2, HeadTail DEF FabricWrite, LineShape, Beats
  <2>4. arriving \in Seq(Part) /\ Append(arriving, Head(w).data) \in Seq(Part)
    BY <2>3, Appended DEF LineShape
  <2>5. /\ accepted' \in Seq(Msg) /\ Len(accepted') <= 1 /\ arriving' \in Seq(Part)
        /\ b' \in Seq(Msg)
    <3>1. /\ Append(b, Pend[1]) \in Seq(Msg) /\ <<Pend[1]>> \in Seq(Msg) /\ Len(<<Pend[1]>>) = 1
          /\ b \in Seq(Msg) /\ <<>> \in Seq(Msg) /\ Len(<<>>) = 0
          /\ <<>> \in Seq(Part)
      BY <2>1 DEF LineShape
    <3>2. /\ accepted' \in {<<>>, <<Written>>} /\ b' \in {b, Append(b, Written)}
          /\ arriving' \in {<<>>, Append(arriving, Head(w).data)}
      BY <1>14, Zenon DEF FabricWrite
    <3>3. accepted' \in Seq(Msg) /\ Len(accepted') <= 1
      <4>1. CASE accepted' = <<>>
        BY <3>1, <4>1
      <4>2. CASE accepted' = <<Written>>
        <5>1. accepted' = <<Pend[1]>>
          BY <2>1, <4>2
        <5> QED BY <3>1, <5>1
      <4> QED BY <3>2, <4>1, <4>2
    <3>4. b' \in Seq(Msg)
      BY <2>1, <3>1, <3>2
    <3> QED BY <2>4, <3>1, <3>2, <3>3, <3>4, Zenon
  <2>6. mem' \in [Line -> Seq(Part)]
    <3>1. Pend[1].id = 0 => Pend[1].of \in Line
      BY <2>1, MessageTypes
    <3>2. mem \in [Line -> Seq(Part)]
      BY DEF LineShape
    <3>3. \/ UNCHANGED mem
          \/ Pend[1].id = 0 /\ mem' = [mem EXCEPT ![Pend[1].of] = Append(arriving, Head(w).data)]
      BY <1>14, <2>1 DEF FabricWrite
    <3> QED BY <2>4, <3>1, <3>2, <3>3
  <2> QED
    BY <1>14, <2>3, <2>5, <2>6 DEF FabricWrite, LineShape, cacheVars, burstVars
<1>15. ASSUME NEW id \in {0, 1}, FabricRead(id) PROVE LineShape'
  <2> DEFINE D(i) == IF ar[i].id = 0 THEN mem[ar[i].of] ELSE Whole(0)
  <2>1. PICK i \in DOMAIN ar :
          /\ ar[i].id = id
          /\ ar' = RemoveAt(ar, i)
          /\ r' = Append(r, [id |-> ar[i].id, of |-> ar[i].of, data |-> D(i)])
    BY <1>15 DEF FabricRead
  <2>2. ar \in Seq(Msg) /\ i \in 1 .. Len(ar) /\ ar[i] \in Msg
    BY DEF LineShape
  <2>3. ar' \in Seq(Msg)
    BY <2>1, <2>2 DEF RemoveAt
  <2>4. D(i) \in Seq(Part)
    BY <2>2, WholeType, MessageTypes DEF LineShape
  <2>5. [id |-> ar[i].id, of |-> ar[i].of, data |-> D(i)] \in DataMsg
    <3>4. \/ ar[i].id = 0 /\ ar[i].of \in Line
          \/ ar[i].id = 1 /\ ar[i].of \in Op
      BY <2>2, MessageTypes
    <3> DEFINE d == D(i)  x == ar[i].id  y == ar[i].of
    <3>1. d \in Seq(Part)
      BY <2>4
    <3>2. (x = 0 /\ y \in Line) \/ (x = 1 /\ y \in Op)
      BY <3>4
    <3> HIDE DEF d, x, y
    <3>3. [id |-> x, of |-> y, data |-> d] \in DataMsg
      BY <3>1, <3>2 DEF DataMsg
    <3> QED BY <3>3 DEF d, x, y
  <2>6. r' \in Seq(DataMsg)
    BY <2>1, <2>5, Appended DEF LineShape
  <2> QED
    BY <1>15, <2>3, <2>6 DEF FabricRead, LineShape, cacheVars, burstVars, fabricVars
<1>16. CASE UNCHANGED vars
  BY <1>1, <1>16 DEF vars
<1>17. CASE Next
  BY <1>1, <1>2, <1>3, <1>4, <1>5, <1>6, <1>7, <1>8, <1>9, <1>10, <1>11, <1>12, <1>13,
     <1>14, <1>15, <1>17
  DEF Next, Stage3, Stage4, Stage5, rl_exe_base_memory, CacheAnswers, rl_handle_memory,
      rl_fwd_trapout, rl_writeback_trap, rl_writeback_baseout, rl_writeback_memop_store,
      rl_writeback_memop_init, rl_writeback_memop_done, rl_writeback_memop_drop,
      CacheEvicts, CacheMisses, LineReads, DelayedReads, LineWrites, InitiateIo,
      LineFilled, LineWritten, IoRead, IoWritten, FabricWrites, FabricReads
<1> QED BY <1>16, <1>17

-----------------------------------------------------------------------------
(* Picks.                                                                  *)

LEMMA PicksHead ==
  ASSUME NEW S, NEW q \in Seq(S), NEW s \in Seq(S), NEW K,
         s # <<>>, s[1].kind \in K, Picks(q, s, K)
  PROVE  q # <<>> /\ q[1] = s[1] /\ Picks(Tail(q), Tail(s), K)
<1>1. PICK f \in [DOMAIN q -> DOMAIN s] :
        /\ \A i \in DOMAIN q : q[i] = s[f[i]] /\ s[f[i]].kind \in K
        /\ \A i, j \in DOMAIN q : i < j => f[i] < f[j]
        /\ \A n \in DOMAIN s : s[n].kind \in K => \E i \in DOMAIN q : n = f[i]
  BY DEF Picks
<1>2. 1 \in DOMAIN q /\ f[1] = 1
  BY SMTT(20), <1>1
<1>3. /\ DOMAIN Tail(q) = 1 .. Len(q) - 1 /\ DOMAIN Tail(s) = 1 .. Len(s) - 1
      /\ \A i \in 1 .. Len(q) - 1 : Tail(q)[i] = q[i + 1]
      /\ \A i \in 1 .. Len(s) - 1 : Tail(s)[i] = s[i + 1]
  BY <1>2
<1> DEFINE h == [i \in DOMAIN Tail(q) |-> f[i + 1] - 1]
<1>4. \A i \in DOMAIN Tail(q) : /\ i + 1 \in DOMAIN q /\ f[i + 1] \in DOMAIN s /\ f[i + 1] > 1
                                /\ h[i] = f[i + 1] - 1 /\ h[i] \in DOMAIN Tail(s)
  BY <1>1, <1>2, <1>3
<1>5. h \in [DOMAIN Tail(q) -> DOMAIN Tail(s)]
  BY <1>4
<1> HIDE DEF h
<1>6. \A i \in DOMAIN Tail(q) : Tail(q)[i] = Tail(s)[h[i]] /\ Tail(s)[h[i]].kind \in K
  BY <1>1, <1>3, <1>4
<1>7. \A i, j \in DOMAIN Tail(q) : i < j => h[i] < h[j]
  <2>1. ASSUME NEW i \in DOMAIN Tail(q), NEW j \in DOMAIN Tail(q), i < j PROVE h[i] < h[j]
    <3>1. i + 1 < j + 1 /\ i + 1 \in DOMAIN q /\ j + 1 \in DOMAIN q
      BY <1>3, <1>4, <2>1
    <3>2. f[i + 1] < f[j + 1]
      BY <1>1, <3>1
    <3> QED BY <1>4, <3>2
  <2> QED BY <2>1
<1>8. ASSUME NEW n \in DOMAIN Tail(s), Tail(s)[n].kind \in K
      PROVE  \E i \in DOMAIN Tail(q) : n = h[i]
  <2>1. PICK i \in DOMAIN q : n + 1 = f[i]
    BY <1>1, <1>3, <1>8
  <2>2. i # 1 /\ i - 1 \in DOMAIN Tail(q) /\ (i - 1) + 1 = i
    BY <1>2, <1>3, <2>1
  <2>3. n = h[i - 1]
    BY <1>3, <1>4, <2>1, <2>2
  <2> QED BY <2>2, <2>3
<1>9. Picks(Tail(q), Tail(s), K)
  BY <1>5, <1>6, <1>7, <1>8 DEF Picks
<1> QED BY <1>1, <1>2, <1>9

LEMMA PicksSkip ==
  ASSUME NEW S, NEW q \in Seq(S), NEW s \in Seq(S), NEW K,
         s # <<>>, s[1].kind \notin K, Picks(q, s, K)
  PROVE  Picks(q, Tail(s), K)
<1>1. PICK f \in [DOMAIN q -> DOMAIN s] :
        /\ \A i \in DOMAIN q : q[i] = s[f[i]] /\ s[f[i]].kind \in K
        /\ \A i, j \in DOMAIN q : i < j => f[i] < f[j]
        /\ \A n \in DOMAIN s : s[n].kind \in K => \E i \in DOMAIN q : n = f[i]
  BY DEF Picks
<1>2. /\ DOMAIN Tail(s) = 1 .. Len(s) - 1
      /\ \A i \in 1 .. Len(s) - 1 : Tail(s)[i] = s[i + 1]
  OBVIOUS
<1> DEFINE h == [i \in DOMAIN q |-> f[i] - 1]
<1>3. \A i \in DOMAIN q : /\ f[i] \in DOMAIN s /\ f[i] > 1
                          /\ h[i] = f[i] - 1 /\ h[i] \in DOMAIN Tail(s)
  BY <1>1, <1>2
<1>4. h \in [DOMAIN q -> DOMAIN Tail(s)]
  BY <1>3
<1> HIDE DEF h
<1>5. \A i \in DOMAIN q : q[i] = Tail(s)[h[i]] /\ Tail(s)[h[i]].kind \in K
  BY <1>1, <1>2, <1>3
<1>6. \A i, j \in DOMAIN q : i < j => h[i] < h[j]
  BY <1>1, <1>3
<1>7. ASSUME NEW n \in DOMAIN Tail(s), Tail(s)[n].kind \in K
      PROVE  \E i \in DOMAIN q : n = h[i]
  <2>1. PICK i \in DOMAIN q : n + 1 = f[i]
    BY <1>1, <1>2, <1>7
  <2> QED BY <1>2, <1>3, <2>1
<1> QED BY <1>4, <1>5, <1>6, <1>7 DEF Picks

LEMMA PicksMore ==
  ASSUME NEW S, NEW q \in Seq(S), NEW s \in Seq(S), NEW K, Picks(q, s, K),
         NEW t \in Seq(S), t # <<>>, t[Len(t)].kind \in K,
         \A m \in 1 .. Len(t) - 1 : t[m].kind \notin K
  PROVE  Picks(Append(q, t[Len(t)]), s \o t, K)
<1>1. PICK f \in [DOMAIN q -> DOMAIN s] :
        /\ \A i \in DOMAIN q : q[i] = s[f[i]] /\ s[f[i]].kind \in K
        /\ \A i, j \in DOMAIN q : i < j => f[i] < f[j]
        /\ \A n \in DOMAIN s : s[n].kind \in K => \E i \in DOMAIN q : n = f[i]
  BY DEF Picks
<1>2. PICK N \in Nat, M \in Nat, L \in Nat, T \in Nat :
        N = Len(q) + 1 /\ L = Len(s) /\ T = Len(t) /\ M = L + T
  <2>1. /\ Len(q) + 1 \in Nat /\ Len(s) \in Nat /\ Len(t) \in Nat
        /\ Len(s) + Len(t) \in Nat
    OBVIOUS
  <2> QED BY <2>1
<1>3. /\ DOMAIN q = 1 .. N - 1 /\ DOMAIN s = 1 .. L /\ DOMAIN t = 1 .. T
      /\ N \in 1 .. N /\ T \in 1 .. T /\ M \in 1 .. M /\ T > 0 /\ L < M
  BY <1>2
<1> DEFINE q1 == Append(q, t[Len(t)])  s1 == s \o t
<1>4. /\ DOMAIN q1 = 1 .. N /\ q1[N] = t[T]
      /\ \A i \in 1 .. N - 1 : q1[i] = q[i] /\ i \in 1 .. N
  BY <1>2
<1>5. /\ DOMAIN s1 = 1 .. M /\ s1[M] = t[T]
      /\ \A n \in 1 .. L : s1[n] = s[n] /\ n \in 1 .. M
      /\ \A n \in L + 1 .. M : s1[n] = t[n - L] /\ n - L \in 1 .. T
  BY <1>2
<1> DEFINE h == [i \in 1 .. N |-> IF i = N THEN M ELSE f[i]]
<1>6. \A i \in 1 .. N - 1 : f[i] \in 1 .. L
  BY <1>3
<1>7. /\ h[N] = M /\ h \in [1 .. N -> 1 .. M]
      /\ \A i \in 1 .. N - 1 : h[i] = f[i]
  BY <1>3, <1>5, <1>6
<1>8. \A i \in 1 .. N : i = N \/ i \in 1 .. N - 1
  OBVIOUS
<1> HIDE DEF h, q1, s1
<1>9. \A i \in 1 .. N : q1[i] = s1[h[i]] /\ s1[h[i]].kind \in K
  <2>1. t[T].kind \in K
    BY <1>2
  <2>2. ASSUME NEW i \in 1 .. N - 1 PROVE q1[i] = s1[h[i]] /\ s1[h[i]].kind \in K
    <3>1. q[i] = s[f[i]] /\ s[f[i]].kind \in K
      BY <1>1, <1>3
    <3> QED BY <1>4, <1>5, <1>6, <1>7, <3>1
  <2> QED BY <1>4, <1>5, <1>7, <1>8, <2>1, <2>2
<1>10. \A i, j \in 1 .. N : i < j => h[i] < h[j]
  <2>1. ASSUME NEW i \in 1 .. N, NEW j \in 1 .. N, i < j PROVE h[i] < h[j]
    <3>1. i \in 1 .. N - 1 /\ h[i] = f[i] /\ f[i] \in 1 .. L
      BY <1>6, <1>7, <2>1
    <3>2. CASE j = N
      BY <1>3, <1>7, <3>1, <3>2
    <3>3. CASE j \in 1 .. N - 1
      <4>1. f[i] < f[j]
        BY <1>1, <1>3, <2>1, <3>1, <3>3
      <4> QED BY <1>7, <3>1, <3>3, <4>1
    <3> QED BY <1>8, <3>2, <3>3
  <2> QED BY <2>1
<1>11. ASSUME NEW n \in 1 .. M, s1[n].kind \in K PROVE \E i \in 1 .. N : n = h[i]
  <2>1. CASE n \in 1 .. L
    <3>1. n \in DOMAIN s /\ s[n].kind \in K
      BY <1>3, <1>5, <1>11, <2>1
    <3>2. PICK i \in DOMAIN q : n = f[i]
      BY <1>1, <3>1
    <3> QED BY <1>3, <1>4, <1>7, <3>2
  <2>2. CASE n \in L + 1 .. M
    <3>1. n - L \in 1 .. T /\ t[n - L].kind \in K
      BY <1>5, <1>11, <2>2
    <3>2. n - L = T
      <4>1. n - L \notin 1 .. T - 1
        BY <1>2, <3>1
      <4> QED BY <3>1, <4>1
    <3>3. n = M
      BY <1>2, <3>2
    <3> QED BY <1>3, <1>7, <3>3
  <2> QED BY <1>2, <2>1, <2>2
<1>12. Picks(q1, s1, K)
  <2>1. \A i \in DOMAIN q1 : q1[i] = s1[h[i]] /\ s1[h[i]].kind \in K
    BY <1>4, <1>9
  <2>2. \A n \in DOMAIN s1 : s1[n].kind \in K => \E i \in DOMAIN q1 : n = h[i]
    BY <1>4, <1>5, <1>11
  <2>3. h \in [DOMAIN q1 -> DOMAIN s1]
    BY <1>4, <1>5, <1>7
  <2>4. \A i, j \in DOMAIN q1 : i < j => h[i] < h[j]
    BY <1>4, <1>10
  <2> QED BY <2>1, <2>2, <2>3, <2>4, Zenon DEF Picks
<1> QED BY <1>12 DEF q1, s1

LEMMA PicksNoMore ==
  ASSUME NEW S, NEW q \in Seq(S), NEW s \in Seq(S), NEW K, Picks(q, s, K),
         NEW t \in Seq(S), \A m \in DOMAIN t : t[m].kind \notin K
  PROVE  Picks(q, s \o t, K)
<1>1. PICK f \in [DOMAIN q -> DOMAIN s] :
        /\ \A i \in DOMAIN q : q[i] = s[f[i]] /\ s[f[i]].kind \in K
        /\ \A i, j \in DOMAIN q : i < j => f[i] < f[j]
        /\ \A n \in DOMAIN s : s[n].kind \in K => \E i \in DOMAIN q : n = f[i]
  BY DEF Picks
<1> DEFINE s1 == s \o t
<1>2. /\ DOMAIN s1 = 1 .. Len(s) + Len(t) /\ Len(t) \in Nat /\ Len(s) \in Nat
      /\ \A n \in 1 .. Len(s) : s1[n] = s[n]
      /\ \A n \in Len(s) + 1 .. Len(s) + Len(t) : s1[n] = t[n - Len(s)]
      /\ DOMAIN s = 1 .. Len(s) /\ DOMAIN t = 1 .. Len(t)
  OBVIOUS
<1> HIDE DEF s1
<1>3. f \in [DOMAIN q -> DOMAIN s1]
  BY <1>2
<1>4. \A i \in DOMAIN q : q[i] = s1[f[i]] /\ s1[f[i]].kind \in K
  BY <1>1, <1>2
<1>5. ASSUME NEW n \in DOMAIN s1, s1[n].kind \in K PROVE \E i \in DOMAIN q : n = f[i]
  <2>1. n \in 1 .. Len(s)
    <3>1. ASSUME n \notin 1 .. Len(s) PROVE FALSE
      <4>1. n \in Len(s) + 1 .. Len(s) + Len(t) /\ n - Len(s) \in DOMAIN t
        BY <1>2, <3>1
      <4> QED BY <1>2, <1>5, <4>1
    <3> QED BY <3>1
  <2> QED BY <1>1, <1>2, <1>5, <2>1
<1>6. Picks(q, s1, K)
  BY <1>1, <1>3, <1>4, <1>5 DEF Picks
<1> QED BY <1>6 DEF s1

LEMMA PicksFirst ==
  ASSUME NEW S, NEW q \in Seq(S), NEW s \in Seq(S), NEW K, Picks(q, s, K), q # <<>>
  PROVE  \E n \in DOMAIN s : /\ q[1] = s[n] /\ s[n].kind \in K
                             /\ \A m \in 1 .. n - 1 : s[m].kind \notin K
<1>1. PICK f \in [DOMAIN q -> DOMAIN s] :
        /\ \A i \in DOMAIN q : q[i] = s[f[i]] /\ s[f[i]].kind \in K
        /\ \A i, j \in DOMAIN q : i < j => f[i] < f[j]
        /\ \A n \in DOMAIN s : s[n].kind \in K => \E i \in DOMAIN q : n = f[i]
  BY DEF Picks
<1>2. 1 \in DOMAIN q /\ f[1] \in DOMAIN s
  BY <1>1
<1>3. ASSUME NEW m \in 1 .. f[1] - 1, s[m].kind \in K PROVE FALSE
  <2>1. m \in DOMAIN s
    BY <1>2
  <2>2. PICK i \in DOMAIN q : m = f[i]
    BY <1>1, <1>3, <2>1
  <2>3. i = 1 \/ 1 < i
    OBVIOUS
  <2>4. f[1] <= f[i]
    BY <1>1, <1>2, <2>2, <2>3
  <2> QED BY <1>2, <2>1, <2>2, <2>4
<1> QED BY <1>1, <1>2, <1>3

-----------------------------------------------------------------------------
(* What the cache has answered.                                            *)

First(n) == /\ n \in DOMAIN isb_s3s4 /\ isb_s3s4[n].kind \in Memory
            /\ \A m \in 1 .. n - 1 : isb_s3s4[m].kind \notin Memory
HasEntry == \E i \in DOMAIN ff_memory_response : ff_memory_response[i].result = "entry"

LEMMA HeldIs ==
  ASSUME PathShape
  PROVE  /\ ~HasEntry => Held = isb_s4s5
         /\ \A n : HasEntry /\ First(n) => Held = isb_s4s5 \o SubSeq(isb_s3s4, 1, n)
         /\ Held \in Seq(Flight)
         /\ isb_s4s5 # <<>> => Held # <<>> /\ Held[1] = Head(isb_s4s5)
<1> DEFINE s == isb_s3s4
<1>1. s \in Seq(Flight) /\ isb_s4s5 \in Seq(Flight)
  BY DEF PathShape
<1>2. Answered = {n \in DOMAIN s : HasEntry /\ First(n)}
  BY DEF Answered, HasEntry, First
<1>3. SubSeq(s, 1, 0) = <<>> /\ isb_s4s5 \o <<>> = isb_s4s5
  BY <1>1
<1>4. Answered = {} => Held = isb_s4s5
  BY <1>3 DEF Held
<1>5. ASSUME NEW n, HasEntry, First(n)
      PROVE  Held = isb_s4s5 \o SubSeq(isb_s3s4, 1, n)
  <2>1. n \in Answered
    BY <1>2, <1>5 DEF First
  <2>2. ASSUME NEW m \in Answered PROVE m = n
    <3>1. m \in DOMAIN s /\ n \in DOMAIN s /\ First(m) /\ First(n)
      BY <1>2, <1>5, <2>2 DEF First
    <3>2. m \in Nat /\ n \in Nat /\ ~(m < n) /\ ~(n < m)
      BY <1>1, <3>1 DEF First
    <3> QED BY <3>2
  <2>3. (CHOOSE m \in Answered : TRUE) = n
    BY <2>1, <2>2
  <2> QED BY <2>1, <2>3 DEF Held
<1>6. ~HasEntry => Answered = {}
  BY <1>2
<1>7. Held = isb_s4s5 \/ \E n \in DOMAIN s : Held = isb_s4s5 \o SubSeq(s, 1, n)
  BY <1>2, <1>4, <1>5
<1>8. Held \in Seq(Flight) /\ (isb_s4s5 # <<>> => Held # <<>> /\ Held[1] = Head(isb_s4s5))
  <2>1. CASE Held = isb_s4s5
    BY <1>1, <2>1
  <2>2. ASSUME NEW n \in DOMAIN s, Held = isb_s4s5 \o SubSeq(s, 1, n)
        PROVE  Held \in Seq(Flight) /\ (isb_s4s5 # <<>> => Held # <<>> /\ Held[1] = Head(isb_s4s5))
    <3>1. SubSeq(s, 1, n) \in Seq(Flight)
      BY <1>1
    <3> DEFINE t == SubSeq(s, 1, n)
    <3> HIDE DEF t
    <3>2. isb_s4s5 \o t \in Seq(Flight)
      BY <1>1, <3>1 DEF t
    <3>3. isb_s4s5 # <<>> => isb_s4s5 \o t # <<>> /\ (isb_s4s5 \o t)[1] = Head(isb_s4s5)
      BY <1>1, <3>1 DEF t
    <3> QED BY <2>2, <3>2, <3>3 DEF t
  <2> QED BY <1>7, <2>1, <2>2
<1> QED BY <1>4, <1>5, <1>6, <1>8

HeldFact == /\ ~HasEntry => Held = isb_s4s5
            /\ \A n : HasEntry /\ First(n) => Held = isb_s4s5 \o SubSeq(isb_s3s4, 1, n)

LEMMA HeldNow == PathShape => HeldFact
BY HeldIs DEF HeldFact

LEMMA HeldAfter == PathShape' => HeldFact'
<1>1. (PathShape => HeldFact)'
  BY HeldNow, PTL
<1> QED BY <1>1

LEMMA HeldLeaves ==
  ASSUME PathShape, isb_s4s5 # <<>>, Leave, UNCHANGED ff_memory_response
  PROVE  Held' = Tail(Held)
<1> DEFINE n == IF Answered = {} THEN 0 ELSE CHOOSE m \in Answered : TRUE
           t == SubSeq(isb_s3s4, 1, n)
<1>1. Answered' = Answered /\ isb_s3s4' = isb_s3s4 /\ isb_s4s5' = Tail(isb_s4s5)
  BY DEF Answered, Leave
<1>2. Held = isb_s4s5 \o t /\ Held' = Tail(isb_s4s5) \o t
  BY <1>1 DEF Held
<1>3. n \in 0 .. Len(isb_s3s4) /\ isb_s3s4 \in Seq(Flight) /\ isb_s4s5 \in Seq(Flight)
  <2>1. Answered \subseteq DOMAIN isb_s3s4
    BY DEF Answered
  <2>2. n = 0 \/ n \in DOMAIN isb_s3s4
    BY <2>1
  <2> HIDE DEF n
  <2> QED BY <2>2 DEF PathShape
<1> HIDE DEF n
<1>4. t \in Seq(Flight)
  BY <1>3
<1> HIDE DEF t
<1>5. Tail(isb_s4s5 \o t) = Tail(isb_s4s5) \o t
  BY <1>3, <1>4
<1> QED BY <1>2, <1>5

(* The instructions that the cache has, the answered one first.            *)
LEMMA Asked ==
  ASSUME PathShape, AnswersInv
  PROVE  /\ ff_memory_response = <<>> => Picks(core_req, isb_s3s4, Memory)
         /\ ff_memory_response # <<>> =>
              \E n : /\ First(n)
                     /\ ff_memory_response[1] \in Answers(isb_s3s4[n])
                     /\ Picks(<<isb_s3s4[n]>> \o core_req, isb_s3s4, Memory)
<1>1. CASE ff_memory_response = <<>>
  BY <1>1 DEF AnswersInv
<1>2. CASE ff_memory_response # <<>>
  <2>1. PICK k \in DOMAIN isb_s3s4 :
          /\ Picks(<<isb_s3s4[k]>> \o core_req, isb_s3s4, Memory)
          /\ ff_memory_response[1] \in Answers((<<isb_s3s4[k]>> \o core_req)[1])
    BY <1>2 DEF AnswersInv
  <2> DEFINE c == <<isb_s3s4[k]>> \o core_req
  <2>2. /\ isb_s3s4 \in Seq(Flight) /\ c \in Seq(Flight) /\ c # <<>> /\ c[1] = isb_s3s4[k]
    BY DEF PathShape
  <2>3. PICK n \in DOMAIN isb_s3s4 :
          /\ c[1] = isb_s3s4[n] /\ isb_s3s4[n].kind \in Memory
          /\ \A m \in 1 .. n - 1 : isb_s3s4[m].kind \notin Memory
    <3>1. Picks(c, isb_s3s4, Memory)
      BY <2>1
    <3> HIDE DEF c
    <3> QED BY <2>2, <3>1, PicksFirst
  <2>4. First(n) /\ isb_s3s4[n] = isb_s3s4[k]
    BY <2>2, <2>3 DEF First
  <2> QED BY <1>2, <2>1, <2>2, <2>4
<1> QED BY <1>1, <1>2

LEMMA AskedBack ==
  ASSUME NEW n \in DOMAIN isb_s3s4', ff_memory_response' # <<>>,
         isb_s3s4' \in Seq(Flight), core_req' \in Seq(Flight),
         (ff_memory_response[1] \in Answers(isb_s3s4[n]))',
         Picks(<<isb_s3s4[n]>> \o core_req, isb_s3s4, Memory)'
  PROVE  AnswersInv'
<1>1. (<<isb_s3s4'[n]>> \o core_req')[1] = isb_s3s4'[n]
  OBVIOUS
<1> QED BY <1>1 DEF AnswersInv

LEMMA AnswersKept ==
  ASSUME LineShape, PathShape, PathShape', AnswersInv, [Next]_vars
  PROVE  AnswersInv'
<1>1. CASE UNCHANGED <<isb_s3s4, core_req, ff_memory_response>>
  BY <1>1 DEF AnswersInv
<1>2. ASSUME NEW kind \in Kinds, rl_exe_base_memory(kind) PROVE AnswersInv'
  <2> DEFINE i == [op |-> Tag(kind), kind |-> kind, epoch |-> rg_epoch]
             after == IF kind \in Memory THEN <<i>> ELSE <<>>
  <2>1. isb_s3s4' = isb_s3s4 \o <<i>> /\ core_req' = core_req \o after
    <3>1. isb_s3s4' = Append(isb_s3s4, i)
      BY <1>2 DEF rl_exe_base_memory
    <3>2. core_req' = IF kind \in Memory THEN Append(core_req, i) ELSE core_req
      BY <1>2 DEF rl_exe_base_memory
    <3>3. isb_s3s4 \in Seq(Flight) /\ core_req \in Seq(Flight)
      BY DEF PathShape
    <3> HIDE DEF i
    <3>4. /\ Append(isb_s3s4, i) = isb_s3s4 \o <<i>> /\ Append(core_req, i) = core_req \o <<i>>
          /\ core_req \o <<>> = core_req
      BY <3>3
    <3> QED BY <3>1, <3>2, <3>4
  <2>2. i \in Flight /\ i.kind = kind
    <3>1. isb_s3s4'[Len(isb_s3s4) + 1] = i /\ Len(isb_s3s4) + 1 \in DOMAIN isb_s3s4'
      BY <2>1 DEF PathShape
    <3> QED BY <3>1 DEF PathShape
  <2> HIDE DEF i
  <2>3. ASSUME NEW q \in Seq(Flight), Picks(q, isb_s3s4, Memory)
        PROVE  Picks(q \o after, isb_s3s4', Memory)
    <3>1. isb_s3s4 \in Seq(Flight) /\ <<i>> \in Seq(Flight) /\ <<i>> # <<>>
          /\ Len(<<i>>) = 1 /\ <<i>>[1] = i /\ DOMAIN <<i>> = {1}
      BY <2>2 DEF PathShape
    <3>2. CASE kind \in Memory
      <4>1. Picks(Append(q, i), isb_s3s4 \o <<i>>, Memory)
        <5>1. <<i>>[Len(<<i>>)].kind \in Memory /\ \A m \in 1 .. Len(<<i>>) - 1 : <<i>>[m].kind \notin Memory
          BY <2>2, <3>1, <3>2
        <5>2. Picks(Append(q, <<i>>[Len(<<i>>)]), isb_s3s4 \o <<i>>, Memory)
          BY <2>3, <3>1, <5>1, PicksMore
        <5> QED BY <3>1, <5>2
      <4>2. q \o after = Append(q, i)
        BY <2>2, <3>2
      <4> QED BY <2>1, <4>1, <4>2
    <3>3. CASE kind \notin Memory
      <4>1. \A m \in DOMAIN <<i>> : <<i>>[m].kind \notin Memory
        BY <2>2, <3>1, <3>3
      <4>2. Picks(q, isb_s3s4 \o <<i>>, Memory)
        BY <2>3, <3>1, <4>1, PicksNoMore
      <4>3. q \o after = q
        BY <3>3
      <4> QED BY <2>1, <4>2, <4>3
    <3> QED BY <3>2, <3>3
  <2>4. ff_memory_response' = ff_memory_response
    BY <1>2 DEF rl_exe_base_memory
  <2>5. CASE ff_memory_response = <<>>
    <3>1. Picks(core_req', isb_s3s4', Memory)
      BY <2>1, <2>3, <2>5, Asked DEF PathShape
    <3> QED BY <2>4, <2>5, <3>1 DEF AnswersInv
  <2>6. CASE ff_memory_response # <<>>
    <3>1. PICK n : /\ First(n)
                   /\ ff_memory_response[1] \in Answers(isb_s3s4[n])
                   /\ Picks(<<isb_s3s4[n]>> \o core_req, isb_s3s4, Memory)
      BY <2>6, Asked
    <3> DEFINE c == <<isb_s3s4[n]>> \o core_req
    <3>2. /\ n \in DOMAIN isb_s3s4 /\ n \in DOMAIN isb_s3s4' /\ isb_s3s4'[n] = isb_s3s4[n]
          /\ c \in Seq(Flight)
      BY <2>1, <3>1 DEF First, PathShape
    <3>3. c \o after = <<isb_s3s4'[n]>> \o core_req'
      <4>1. core_req \in Seq(Flight) /\ after \in Seq(Flight) /\ isb_s3s4[n] \in Flight
        BY <2>2, <3>2 DEF PathShape
      <4> HIDE DEF after
      <4>2. (<<isb_s3s4[n]>> \o core_req) \o after = <<isb_s3s4[n]>> \o (core_req \o after)
        BY <4>1
      <4> QED BY <2>1, <3>2, <4>2
    <3> HIDE DEF c, after
    <3>4. Picks(<<isb_s3s4'[n]>> \o core_req', isb_s3s4', Memory)
      BY <2>3, <3>1, <3>2, <3>3 DEF c
    <3> QED BY <2>4, <2>6, <3>1, <3>2, <3>4, AskedBack DEF PathShape
  <2> QED BY <2>5, <2>6
<1>3. ASSUME CacheAnswers PROVE AnswersInv'
  <2>1. /\ ff_memory_response = <<>> /\ core_req # <<>> /\ core_req' = Tail(core_req)
        /\ isb_s3s4' = isb_s3s4
    BY <1>3 DEF CacheAnswers, pipeVars
  <2>2. PICK n \in DOMAIN isb_s3s4 : core_req[1] = isb_s3s4[n]
    BY <2>1, Asked, PicksFirst DEF PathShape
  <2>3. PICK a \in Answers(core_req[1]) : ff_memory_response' = <<a>>
    <3>1. Head(core_req) = core_req[1]
      BY <2>1, HeadTail DEF PathShape
    <3> QED BY <1>3, <3>1 DEF CacheAnswers
  <2>4. <<isb_s3s4'[n]>> \o core_req' = core_req
    <3>1. core_req \in Seq(Flight)
      BY DEF PathShape
    <3> QED BY <2>1, <2>2, <3>1
  <2>5. Picks(<<isb_s3s4'[n]>> \o core_req', isb_s3s4', Memory)
    BY <2>1, <2>4, Asked
  <2>6. (ff_memory_response[1] \in Answers(isb_s3s4[n]))' /\ ff_memory_response' # <<>>
    BY <2>1, <2>2, <2>3
  <2> QED BY <2>1, <2>5, <2>6, AskedBack DEF PathShape
<1>4. ASSUME rl_handle_memory PROVE AnswersInv'
  <2>1. /\ ff_memory_response # <<>> /\ ff_memory_response' = <<>> /\ core_req' = core_req
        /\ isb_s3s4 # <<>> /\ isb_s3s4[1].kind \in Memory
    BY <1>4, HeadTail DEF rl_handle_memory, PathShape
  <2>2. PICK n : /\ First(n)
                 /\ ff_memory_response[1] \in Answers(isb_s3s4[n])
                 /\ Picks(<<isb_s3s4[n]>> \o core_req, isb_s3s4, Memory)
    BY <2>1, Asked
  <2>3. n = 1
    <3>1. n \in Nat /\ n > 0 /\ ~(1 \in 1 .. n - 1)
      BY <2>1, <2>2 DEF First, PathShape
    <3> QED BY <3>1
  <2> DEFINE c == <<isb_s3s4[1]>> \o core_req
  <2>4. c \in Seq(Flight) /\ isb_s3s4 \in Seq(Flight) /\ Tail(c) = core_req
    BY <2>1 DEF PathShape
  <2>5. Picks(core_req, Tail(isb_s3s4), Memory)
    <3>1. Picks(c, isb_s3s4, Memory)
      BY <2>2, <2>3
    <3> HIDE DEF c
    <3>2. Picks(Tail(c), Tail(isb_s3s4), Memory)
      BY <2>1, <2>4, <3>1, PicksHead
    <3> QED BY <2>4, <3>2
  <2>6. Head(ff_memory_response).epoch = Head(isb_s3s4).epoch
    <3>1. /\ Head(ff_memory_response) = ff_memory_response[1]
          /\ Head(isb_s3s4) = isb_s3s4[1]
      BY <2>1, HeadTail DEF PathShape
    <3> QED BY <2>2, <2>3, <3>1 DEF Answers
  <2>7. isb_s3s4' = Tail(isb_s3s4)
    BY <1>4, <2>6 DEF rl_handle_memory, Forward
  <2> QED BY <2>1, <2>5, <2>7 DEF AnswersInv
<1>5. ASSUME rl_fwd_trapout PROVE AnswersInv'
  <2>1. /\ isb_s3s4 # <<>> /\ isb_s3s4[1].kind \notin Memory /\ isb_s3s4 \in Seq(Flight)
        /\ isb_s3s4' = Tail(isb_s3s4)
        /\ UNCHANGED <<core_req, ff_memory_response>>
    BY <1>5, HeadTail DEF rl_fwd_trapout, Forward, ansVars, PathShape, Memory
  <2>2. CASE ff_memory_response = <<>>
    <3>1. Picks(core_req, Tail(isb_s3s4), Memory)
      BY <2>1, <2>2, Asked, PicksSkip DEF PathShape
    <3> QED BY <2>1, <2>2, <3>1 DEF AnswersInv
  <2>3. CASE ff_memory_response # <<>>
    <3>1. PICK n : /\ First(n)
                   /\ ff_memory_response[1] \in Answers(isb_s3s4[n])
                   /\ Picks(<<isb_s3s4[n]>> \o core_req, isb_s3s4, Memory)
      BY <2>3, Asked
    <3>2. /\ n \in DOMAIN isb_s3s4 /\ n # 1 /\ n - 1 \in DOMAIN isb_s3s4'
          /\ isb_s3s4'[n - 1] = isb_s3s4[n]
      BY <2>1, <3>1 DEF First
    <3> DEFINE c == <<isb_s3s4[n]>> \o core_req
    <3>3. c \in Seq(Flight)
      BY <2>1, <3>2 DEF PathShape
    <3> HIDE DEF c
    <3>4. Picks(c, Tail(isb_s3s4), Memory)
      BY <2>1, <3>1, <3>3, PicksSkip DEF c
    <3>5. Picks(<<isb_s3s4'[n - 1]>> \o core_req', isb_s3s4', Memory)
      BY <2>1, <3>2, <3>4 DEF c
    <3> QED BY <2>1, <2>3, <3>1, <3>2, <3>5, AskedBack DEF PathShape
  <2> QED BY <2>2, <2>3
<1>6. CASE UNCHANGED vars
  BY <1>1, <1>6 DEF vars, pathVars, pipeVars, ansVars
<1>7. CASE Next
  BY <1>1, <1>2, <1>3, <1>4, <1>5, <1>7
  DEF Next, Stage3, Stage4, Stage5, Leave,
      rl_writeback_trap, rl_writeback_baseout, rl_writeback_memop_store,
      rl_writeback_memop_init, rl_writeback_memop_done, rl_writeback_memop_drop,
      CacheEvicts, CacheMisses, LineReads, DelayedReads, LineWrites, InitiateIo,
      LineFilled, LineWritten, IoRead, IoWritten, FabricWrites, FabricReads,
      pathVars, pipeVars, ansVars, IoResponse
<1> QED BY <1>6, <1>7

-----------------------------------------------------------------------------
(* The cache's buffers.                                                    *)

(* An entry that write-back finds at the head is the cache's oldest.       *)
LEMMA OldestIo ==
  ASSUME PathShape, BuffersInStep, wr_ioop_response = None,
         isb_s4s5 # <<>>, Head(isb_s4s5).kind \in Io
  PROVE  /\ io_buffer # <<>> /\ Head(io_buffer) = Head(isb_s4s5)
         /\ Held # <<>> /\ Head(Held) = Head(isb_s4s5)
         /\ Picks(Tail(io_buffer), Tail(Held), Io)
<1>1. /\ Held \in Seq(Flight) /\ io_buffer \in Seq(Flight) /\ Held # <<>>
      /\ Held[1] = Head(isb_s4s5) /\ Head(Held) = Held[1]
  BY HeldIs DEF PathShape, Flight
<1>2. Picks(io_buffer, Held, Io)
  BY DEF BuffersInStep
<1>3. io_buffer # <<>> /\ io_buffer[1] = Held[1] /\ Picks(Tail(io_buffer), Tail(Held), Io)
  BY <1>1, <1>2, PicksHead
<1>4. Head(io_buffer) = io_buffer[1]
  BY <1>1, <1>3, HeadTail
<1> QED BY <1>1, <1>3, <1>4

(* An answer of the bus is of the operation that was started.              *)
LEMMA AnswerComes ==
  ASSUME LineShape, PathShape, IoInv, BuffersInStep,
         NEW ch, NEW S, ch \in Seq(S), ch = r \/ ch = b, NEW a \in IoAnswer(ch)
  PROVE  /\ rg_ioop_init /\ wr_ioop_response = None /\ io_buffer # <<>>
         /\ a = ch[1] /\ ch # <<>> /\ a.id = 1 /\ a.of = Head(isb_s4s5).op /\ a.of \in Op
         /\ IoAt(IF ch = r THEN "data" ELSE "response", Head(isb_s4s5).op)
         /\ isb_s4s5 # <<>> /\ Head(isb_s4s5).kind \in Io
<1>1. ch # <<>> /\ a = ch[1] /\ a.id = 1
  BY DEF IoAnswer
<1>2. ~NoIo(ch) /\ ~NoIo(ch)
  BY <1>1 DEF NoIo
<1>3. rg_ioop_init
  BY <1>2 DEF IoInv, IoAt, IoIn
<1>4. PICK place \in Places : IoAt(place, Head(isb_s4s5).op)
  BY <1>3 DEF IoInv
<1>5. place = IF ch = r THEN "data" ELSE "response"
  BY <1>2, <1>4 DEF IoAt, IoIn
<1>6. Only(ch, Head(isb_s4s5).op) /\ wr_ioop_response = None
  BY <1>4, <1>5 DEF IoAt, IoIn
<1>7. a.of = Head(isb_s4s5).op
  BY <1>1, <1>6 DEF Only
<1>8. isb_s4s5 # <<>> /\ Head(isb_s4s5).kind \in Io
  BY <1>3 DEF IoInv
<1>9. Head(isb_s4s5).op \in Op
  <2>1. Head(isb_s4s5) \in Flight
    BY <1>8, HeadTail DEF PathShape
  <2> QED BY <1>8, <2>1 DEF Flight, Ops, Io
<1> QED BY <1>1, <1>3, <1>4, <1>5, <1>6, <1>7, <1>8, <1>9, OldestIo

LEMMA PathShapeKept ==
  ASSUME LineShape, PathShape, IoInv, BuffersInStep, [Next]_vars
  PROVE  PathShape'
<1>1. CASE UNCHANGED pathVars
  BY <1>1 DEF PathShape, pathVars, pipeVars, wbVars, ansVars, bufVars
<1>2. ASSUME NEW kind \in Kinds, rl_exe_base_memory(kind) PROVE PathShape'
  <2> DEFINE i == [op |-> Tag(kind), kind |-> kind, epoch |-> rg_epoch]
  <2>1. Free # {} /\ Free \subseteq Op
    BY <1>2, TagFree DEF rl_exe_base_memory, Free
  <2>2. IF kind \in Released THEN Tag(kind) \in Op ELSE Tag(kind) = None
    BY <2>1 DEF Tag
  <2>3. kind \in Kind /\ rg_epoch \in {0, 1}
    BY PathAssumption DEF PathShape
  <2>4. i \in Flight
    <3> DEFINE t == Tag(kind)
    <3>1. (kind \in Released /\ t \in Op) \/ (kind \in {"load", "trap"} /\ t = None)
      BY <2>2, <2>3 DEF Kind, Released, Io
    <3> HIDE DEF t
    <3>2. [op |-> t, kind |-> kind, epoch |-> rg_epoch] \in Flight
      BY <2>3, <3>1 DEF Flight, Ops
    <3> QED BY <3>2 DEF t
  <2> HIDE DEF i
  <2>5. /\ Append(isb_s3s4, i) \in Seq(Flight) /\ Len(Append(isb_s3s4, i)) = Len(isb_s3s4) + 1
        /\ Append(core_req, i) \in Seq(Flight)
    BY <2>4 DEF PathShape
  <2>6. isb_s3s4' = Append(isb_s3s4, i) /\ core_req' \in {core_req, Append(core_req, i)}
    BY <1>2 DEF rl_exe_base_memory, i
  <2>7. Len(isb_s3s4') <= D34
    BY <1>2, <2>5, <2>6, PathAssumption DEF rl_exe_base_memory, PathShape
  <2> QED
    BY <1>2, <2>5, <2>6, <2>7 DEF rl_exe_base_memory, PathShape, wbVars, bufVars
<1>3. ASSUME CacheAnswers PROVE PathShape'
  <2> DEFINE i == Head(core_req)
  <2>1. i \in Flight /\ Tail(core_req) \in Seq(Flight)
    BY <1>3, HeadTail DEF CacheAnswers, PathShape
  <2>2. i.epoch \in {0, 1} /\ (i.kind \in Released => i \in Ops)
    BY <2>1 DEF Flight, Ops, Released, Io
  <2> HIDE DEF i
  <2>3. PICK a \in Answers(i) :
          /\ ff_memory_response' = <<a>>
          /\ io_buffer' = IF a.result = "entry" /\ i.kind \in Io
                          THEN Append(io_buffer, i) ELSE io_buffer
          /\ store_buffer' = IF a.result = "entry" /\ i.kind = "store"
                             THEN Append(store_buffer, i) ELSE store_buffer
    BY <1>3 DEF CacheAnswers, i
  <2>4. a \in Answer
    BY <2>2, <2>3 DEF Answers, Answer
  <2>5. <<a>> \in Seq(Answer) /\ Len(<<a>>) = 1
    BY <2>4
  <2>6. /\ ff_memory_response' \in Seq(Answer) /\ Len(ff_memory_response') <= 1
    BY <2>3, <2>5
  <2>7. io_buffer' \in Seq(Ops) /\ store_buffer' \in Seq(Ops)
    <3>1. io_buffer \in Seq(Ops) /\ store_buffer \in Seq(Ops)
      BY DEF PathShape
    <3>2. i.kind \in Released =>
            Append(io_buffer, i) \in Seq(Ops) /\ Append(store_buffer, i) \in Seq(Ops)
      BY <2>2, <3>1
    <3> QED BY <2>3, <3>1, <3>2 DEF Released
  <2>8. core_req' \in Seq(Flight)
    BY <1>3, <2>1 DEF CacheAnswers
  <2> QED
    BY <1>3, <2>6, <2>7, <2>8 DEF CacheAnswers, PathShape, pipeVars, wbVars
<1>4. ASSUME NEW i \in Flight, isb_s3s4 # <<>>, Forward(i)
      PROVE  /\ isb_s3s4' \in Seq(Flight) /\ Len(isb_s3s4') <= D34
             /\ isb_s4s5' \in Seq(Flight) /\ Len(isb_s4s5') <= D45
  <2>1. Tail(isb_s3s4) \in Seq(Flight) /\ Len(Tail(isb_s3s4)) <= D34
    BY <1>4, HeadTail, PathAssumption DEF PathShape
  <2>2. /\ Append(isb_s4s5, i) \in Seq(Flight)
        /\ Len(Append(isb_s4s5, i)) = Len(isb_s4s5) + 1 /\ Len(isb_s4s5) \in Nat
    BY DEF PathShape
  <2> QED BY <1>4, <2>1, <2>2, PathAssumption DEF Forward
<1>5. ASSUME rl_handle_memory PROVE PathShape'
  <2> DEFINE i == Head(isb_s3s4)
  <2>1. i \in Flight /\ i.epoch \in {0, 1}
    <3>1. i \in Flight
      BY <1>5, HeadTail DEF rl_handle_memory, PathShape
    <3> QED BY <3>1 DEF Flight, Ops
  <2>2. \A k \in {"trap", "base"} : [op |-> None, kind |-> k, epoch |-> i.epoch] \in Flight
    BY <2>1 DEF Flight
  <2> HIDE DEF i
  <2>3. \/ UNCHANGED pipeVars
        \/ Forward([op |-> None, kind |-> "trap", epoch |-> i.epoch])
        \/ Forward([op |-> None, kind |-> "base", epoch |-> i.epoch])
        \/ Forward(i)
    <3>1. ff_memory_response \in Seq(Answer) /\ ff_memory_response # <<>>
      BY <1>5 DEF rl_handle_memory, PathShape
    <3>2. Head(ff_memory_response) \in Answer
      BY <3>1, HeadTail
    <3>3. Head(ff_memory_response).result \in {"fault", "data", "entry"}
      BY <3>2 DEF Answer
    <3> QED BY <1>5, <3>3 DEF rl_handle_memory, i
  <2>4. /\ isb_s3s4' \in Seq(Flight) /\ Len(isb_s3s4') <= D34
        /\ isb_s4s5' \in Seq(Flight) /\ Len(isb_s4s5') <= D45
    <3>1. CASE UNCHANGED pipeVars
      BY <3>1 DEF pipeVars, PathShape
    <3>2. isb_s3s4 # <<>>
      BY <1>5 DEF rl_handle_memory
    <3> QED BY <1>4, <2>1, <2>2, <2>3, <3>1, <3>2
  <2>5. ff_memory_response' = <<>> /\ <<>> \in Seq(Answer) /\ Len(<<>>) = 0
    BY <1>5 DEF rl_handle_memory
  <2> QED
    BY <1>5, <2>4, <2>5 DEF rl_handle_memory, PathShape, wbVars, bufVars
<1>6. ASSUME rl_fwd_trapout PROVE PathShape'
  <2>1. Head(isb_s3s4) \in Flight /\ isb_s3s4 # <<>>
    BY <1>6, HeadTail DEF rl_fwd_trapout, PathShape
  <2> QED
    BY <1>4, <1>6, <2>1 DEF rl_fwd_trapout, PathShape, wbVars, ansVars, bufVars
<1>7. ASSUME Leave, isb_s4s5 # <<>>
      PROVE  /\ isb_s4s5' \in Seq(Flight) /\ Len(isb_s4s5') <= D45 /\ isb_s3s4' = isb_s3s4
  <2>1. Tail(isb_s4s5) \in Seq(Flight) /\ Len(Tail(isb_s4s5)) <= D45
    BY <1>7, HeadTail, PathAssumption DEF PathShape
  <2> QED BY <1>7, <2>1 DEF Leave
<1>8. ASSUME rl_writeback_trap PROVE PathShape'
  <2>1. rg_epoch' \in {0, 1}
    BY <1>8 DEF rl_writeback_trap, PathShape
  <2> QED
    BY <1>7, <1>8, <2>1 DEF rl_writeback_trap, AtWb, PathShape, ansVars, bufVars
<1>9. ASSUME rl_writeback_baseout PROVE PathShape'
  BY <1>7, <1>9 DEF rl_writeback_baseout, AtWb, PathShape, wbVars, ansVars, bufVars
<1>10. ASSUME rl_writeback_memop_store PROVE PathShape'
  <2>1. Tail(store_buffer) \in Seq(Ops)
    BY <1>10, HeadTail DEF rl_writeback_memop_store, ma_commit_store, PathShape
  <2> QED
    BY <1>7, <1>10, <2>1 DEF rl_writeback_memop_store, ma_commit_store, AtWb, PathShape,
                            wbVars, ansVars
<1>11. ASSUME ma_commit_io PROVE io_buffer' \in Seq(Ops) /\ UNCHANGED store_buffer
  <2>1. Tail(io_buffer) \in Seq(Ops) /\ io_buffer \in Seq(Ops)
    BY <1>11, HeadTail DEF ma_commit_io, PathShape
  <2> QED BY <1>11, <2>1 DEF ma_commit_io, bufVars
<1>12. ASSUME rl_writeback_memop_init PROVE PathShape'
  BY <1>11, <1>12 DEF rl_writeback_memop_init, PathShape, pipeVars, ansVars
<1>13. ASSUME rl_writeback_memop_done PROVE PathShape'
  <2>1. rg_epoch' \in {0, 1} /\ None \in Op \cup {None}
    BY <1>13 DEF rl_writeback_memop_done, PathShape
  <2> QED
    BY <1>7, <1>13, <2>1 DEF rl_writeback_memop_done, AtWb, PathShape, ansVars, bufVars
<1>14. ASSUME rl_writeback_memop_drop PROVE PathShape'
  BY <1>7, <1>11, <1>14 DEF rl_writeback_memop_drop, AtWb, PathShape, wbVars, ansVars
<1>15. ASSUME NEW ch, NEW S, ch \in Seq(S), ch = r \/ ch = b, IoAnswer(ch) # {}, IoResponse(ch)
       PROVE  PathShape'
  <2>1. PICK m \in IoAnswer(ch) : wr_ioop_response' = m.of
    BY <1>15 DEF IoResponse
  <2>2. m.of \in Op /\ io_buffer # <<>>
    BY <1>15, AnswerComes
  <2>3. Tail(io_buffer) \in Seq(Ops)
    BY <2>2, HeadTail DEF PathShape
  <2> QED
    BY <1>15, <2>1, <2>2, <2>3 DEF IoResponse, PathShape, pipeVars, wbVars, ansVars
<1>16. IoRead => PathShape'
  BY <1>15 DEF IoRead, rl_handle_io_read_response, LineShape
<1>17. IoWritten => PathShape'
  BY <1>15 DEF IoWritten, rl_handle_io_write_resp, LineShape
<1>18. CASE UNCHANGED vars
  BY <1>1, <1>18 DEF vars
<1>19. CASE Next
  BY <1>1, <1>2, <1>3, <1>5, <1>6, <1>8, <1>9, <1>10, <1>12, <1>13, <1>14, <1>16, <1>17, <1>19
  DEF Next, Stage3, Stage4, Stage5, CacheEvicts, CacheMisses, LineReads, DelayedReads,
      LineWrites, InitiateIo, LineFilled, LineWritten, FabricWrites, FabricReads
<1> QED BY <1>18, <1>19

(* The invariant on buffers, as a predicate of what it reads.              *)
InStep(stores, ios, held, answer) ==
  /\ Picks(stores, held, {"store"})
  /\ IF answer = None THEN Picks(ios, held, Io)
     ELSE held # <<>> /\ Head(held).kind \in Io /\ Picks(ios, Tail(held), Io)

LEMMA InStepMore ==
  ASSUME NEW stores \in Seq(Flight), NEW ios \in Seq(Flight), NEW held \in Seq(Flight),
         NEW answer, InStep(stores, ios, held, answer),
         NEW t \in Seq(Flight), t # <<>>,
         \A m \in 1 .. Len(t) - 1 : t[m].kind \notin Released
  PROVE  InStep(IF t[Len(t)].kind = "store" THEN Append(stores, t[Len(t)]) ELSE stores,
                IF t[Len(t)].kind \in Io THEN Append(ios, t[Len(t)]) ELSE ios,
                held \o t, answer)
<1> DEFINE x == t[Len(t)]
<1>1. ASSUME NEW q \in Seq(Flight), NEW s \in Seq(Flight), NEW K \in SUBSET Released,
             Picks(q, s, K)
      PROVE  Picks(IF x.kind \in K THEN Append(q, x) ELSE q, s \o t, K)
  <2>1. \A m \in 1 .. Len(t) - 1 : t[m].kind \notin K
    OBVIOUS
  <2>2. CASE x.kind \in K
    BY <1>1, <2>1, <2>2, PicksMore
  <2>3. CASE x.kind \notin K
    <3>1. \A m \in DOMAIN t : m \in 1 .. Len(t) - 1 \/ m = Len(t)
      OBVIOUS
    <3>2. \A m \in DOMAIN t : t[m].kind \notin K
      BY <2>1, <2>3, <3>1
    <3> QED BY <1>1, <2>3, <3>2, PicksNoMore
  <2> QED BY <2>2, <2>3
<1> DEFINE stores1 == IF x.kind \in {"store"} THEN Append(stores, x) ELSE stores
           ios1 == IF x.kind \in Io THEN Append(ios, x) ELSE ios
<1>2. {"store"} \subseteq Released /\ Io \subseteq Released
  BY DEF Released
<1>3. Picks(stores1, held \o t, {"store"})
  BY <1>1, <1>2 DEF InStep
<1>4. CASE answer = None
  <2>1. Picks(ios1, held \o t, Io)
    BY <1>1, <1>2, <1>4 DEF InStep
  <2> QED BY <1>3, <1>4, <2>1 DEF InStep
<1>5. CASE answer # None
  <2>1. /\ held # <<>> /\ Head(held).kind \in Io /\ Picks(ios, Tail(held), Io)
        /\ Tail(held) \in Seq(Flight)
    BY <1>5, HeadTail DEF InStep
  <2>2. Picks(ios1, Tail(held) \o t, Io)
    BY <1>1, <1>2, <2>1
  <2>3. /\ held \o t # <<>> /\ Head(held \o t) = Head(held)
        /\ Tail(held \o t) = Tail(held) \o t
    BY <2>1
  <2> QED BY <1>3, <1>5, <2>1, <2>2, <2>3 DEF InStep
<1> QED BY <1>4, <1>5

LEMMA Buffered ==
  /\ BuffersInStep <=> InStep(store_buffer, io_buffer, Held, wr_ioop_response)
  /\ PathShape => store_buffer \in Seq(Flight) /\ io_buffer \in Seq(Flight)
BY DEF BuffersInStep, InStep, PathShape, Flight

(* An instruction that the cache has nothing to do with goes to stage5.    *)
LEMMA BuffersPass ==
  ASSUME PathShape, BuffersInStep, NEW x \in Flight, x.kind \notin Released,
         Held' = Held \o <<x>>, UNCHANGED <<bufVars, wr_ioop_response>>
  PROVE  BuffersInStep'
<1>1. /\ <<x>> \in Seq(Flight) /\ <<x>> # <<>> /\ <<x>>[Len(<<x>>)] = x
      /\ \A m \in 1 .. Len(<<x>>) - 1 : <<x>>[m].kind \notin Released
      /\ x.kind # "store" /\ x.kind \notin Io
  BY DEF Released
<1>2. Held \in Seq(Flight) /\ store_buffer \in Seq(Flight) /\ io_buffer \in Seq(Flight)
  BY HeldIs, Buffered
<1>3. InStep(store_buffer, io_buffer, Held \o <<x>>, wr_ioop_response)
  BY <1>1, <1>2, InStepMore, Buffered
<1> QED BY <1>3 DEF BuffersInStep, InStep, bufVars

LEMMA BuffersWait ==
  ASSUME BuffersInStep, Held' = Held, UNCHANGED <<bufVars, wr_ioop_response>>
  PROVE  BuffersInStep'
BY DEF BuffersInStep, bufVars

(* What leaves stage5 without the cache.                                   *)
LEMMA BuffersLeave ==
  ASSUME PathShape, BuffersInStep, isb_s4s5 # <<>>, Leave,
         UNCHANGED <<ff_memory_response, bufVars, wr_ioop_response>>,
         Head(isb_s4s5).kind \notin Released
  PROVE  BuffersInStep'
<1>1. /\ Held' = Tail(Held) /\ Held \in Seq(Flight) /\ Held # <<>>
      /\ Held[1] = Head(isb_s4s5) /\ Head(Held) = Held[1]
  BY HeldIs, HeldLeaves
<1>2. Held[1].kind \notin Io /\ Held[1].kind \notin {"store"}
  BY <1>1 DEF Released
<1>3. wr_ioop_response = None /\ Picks(io_buffer, Held, Io) /\ Picks(store_buffer, Held, {"store"})
  BY <1>1, <1>2 DEF BuffersInStep
<1>4. Picks(io_buffer, Tail(Held), Io) /\ Picks(store_buffer, Tail(Held), {"store"})
  BY <1>1, <1>2, <1>3, Buffered, PicksSkip
<1> QED BY <1>1, <1>3, <1>4 DEF BuffersInStep, bufVars

LEMMA BuffersKept ==
  ASSUME LineShape, PathShape, PathShape', IoInv, AnswersInv, BuffersInStep, [Next]_vars
  PROVE  BuffersInStep'
<1>1. ASSUME UNCHANGED <<isb_s3s4, isb_s4s5, ff_memory_response, io_buffer, store_buffer,
                        wr_ioop_response>>
      PROVE  BuffersInStep'
  <2>1. Held' = Held
    BY <1>1 DEF Held, Answered
  <2> QED BY <1>1, <2>1, BuffersWait DEF bufVars
<1>2. ASSUME NEW kind \in Kinds, rl_exe_base_memory(kind) PROVE BuffersInStep'
  <2>1. /\ \E i : isb_s3s4' = Append(isb_s3s4, i)
        /\ UNCHANGED <<isb_s4s5, ff_memory_response, bufVars, wr_ioop_response>>
    BY <1>2 DEF rl_exe_base_memory
  <2>2. HasEntry' = HasEntry
    BY <2>1 DEF HasEntry
  <2>3. CASE ~HasEntry
    <3>1. Held' = Held
      BY <2>1, <2>2, <2>3, HeldIs, HeldAfter DEF HeldFact
    <3> QED BY <2>1, <3>1, BuffersWait
  <2>4. CASE HasEntry
    <3>1. PICK n : First(n)
      <4>1. ff_memory_response # <<>>
        BY <2>4 DEF HasEntry
      <4> QED BY <4>1, Asked
    <3>2. /\ isb_s3s4 \in Seq(Flight) /\ n \in DOMAIN isb_s3s4 /\ n \in DOMAIN isb_s3s4'
          /\ n \in Nat
          /\ \A m \in 1 .. n : isb_s3s4'[m] = isb_s3s4[m]
          /\ SubSeq(isb_s3s4', 1, n) = SubSeq(isb_s3s4, 1, n)
      <4>1. isb_s3s4 \in Seq(Flight) /\ n \in DOMAIN isb_s3s4
        BY <3>1 DEF First, PathShape
      <4> QED BY SMTT(20), <2>1, <4>1
    <3>3. First(n)'
      <4>1. \A m \in 1 .. n - 1 : m \in 1 .. n
        BY <3>2
      <4>2. n \in 1 .. n
        BY <3>1, <3>2 DEF First
      <4> QED BY <3>1, <3>2, <4>1, <4>2 DEF First
    <3>4. Held' = Held
      BY <2>1, <2>2, <2>4, <3>1, <3>2, <3>3, HeldIs, HeldAfter DEF HeldFact
    <3> QED BY <2>1, <3>4, BuffersWait
  <2> QED BY <2>3, <2>4
<1>3. ASSUME CacheAnswers PROVE BuffersInStep'
  <2> DEFINE i == core_req[1]
  <2>1. /\ ff_memory_response = <<>> /\ core_req # <<>> /\ Head(core_req) = i
        /\ UNCHANGED <<isb_s3s4, isb_s4s5, wr_ioop_response>>
    BY <1>3, HeadTail DEF CacheAnswers, pipeVars, PathShape
  <2>2. PICK a \in Answers(i) :
          /\ ff_memory_response' = <<a>>
          /\ io_buffer' = IF a.result = "entry" /\ i.kind \in Io
                          THEN Append(io_buffer, i) ELSE io_buffer
          /\ store_buffer' = IF a.result = "entry" /\ i.kind = "store"
                             THEN Append(store_buffer, i) ELSE store_buffer
    BY <1>3, <2>1 DEF CacheAnswers
  <2>3. PICK n : i = isb_s3s4[n] /\ First(n)
    BY <2>1, Asked, PicksFirst DEF First, PathShape
  <2> HIDE DEF i
  <2>4. ~HasEntry /\ Held = isb_s4s5
    <3>1. ~HasEntry
      BY <2>1 DEF HasEntry
    <3> QED BY <3>1, HeldIs
  <2>5. DOMAIN ff_memory_response' = {1} /\ ff_memory_response'[1] = a
    BY <2>2
  <2>6. HasEntry' <=> a.result = "entry"
    BY <2>5 DEF HasEntry
  <2>7. CASE a.result # "entry"
    <3>1. Held' = Held
      BY <2>1, <2>4, <2>6, <2>7, HeldAfter DEF HeldFact
    <3> QED BY <2>1, <2>2, <2>7, <3>1, BuffersWait DEF bufVars
  <2>8. CASE a.result = "entry"
    <3> DEFINE t == SubSeq(isb_s3s4, 1, n)
    <3>1. First(n)' /\ isb_s3s4 \in Seq(Flight) /\ n \in DOMAIN isb_s3s4
      BY <2>1, <2>3 DEF First, PathShape
    <3>2. Held' = Held \o t
      BY <2>1, <2>4, <2>6, <2>8, <3>1, HeldAfter DEF HeldFact
    <3>3. /\ t \in Seq(Flight) /\ Len(t) = n /\ t # <<>> /\ t[Len(t)] = i
          /\ \A m \in 1 .. n : t[m] = isb_s3s4[m]
      BY <2>3, <3>1
    <3>4. \A m \in 1 .. Len(t) - 1 : t[m].kind \notin Released
      <4>1. \A m \in 1 .. n - 1 : m \in 1 .. n /\ isb_s3s4[m].kind \notin Memory
        BY <2>3, <3>1 DEF First
      <4>2. Released \subseteq Memory
        BY DEF Released, Memory, Kind, Io
      <4> QED BY <3>3, <4>1, <4>2
    <3> HIDE DEF t
    <3>5. Held \in Seq(Flight) /\ store_buffer \in Seq(Flight) /\ io_buffer \in Seq(Flight)
      BY HeldIs, Buffered
    <3>6. InStep(IF i.kind = "store" THEN Append(store_buffer, i) ELSE store_buffer,
                 IF i.kind \in Io THEN Append(io_buffer, i) ELSE io_buffer,
                 Held \o t, wr_ioop_response)
      <4>1. InStep(store_buffer, io_buffer, Held, wr_ioop_response)
        BY Buffered
      <4> DEFINE x == t[Len(t)]
      <4>2. InStep(IF x.kind = "store" THEN Append(store_buffer, x) ELSE store_buffer,
                   IF x.kind \in Io THEN Append(io_buffer, x) ELSE io_buffer,
                   Held \o t, wr_ioop_response)
        BY <3>3, <3>4, <3>5, <4>1, InStepMore, Zenon
      <4>3. x = i
        BY <3>3
      <4> HIDE DEF x
      <4> QED BY <4>2, <4>3, Zenon
    <3>7. InStep(store_buffer', io_buffer', Held', wr_ioop_response')
      BY <2>1, <2>2, <2>8, <3>2, <3>6
    <3> QED BY <3>7 DEF BuffersInStep, InStep
  <2> QED BY <2>7, <2>8
<1>4. ASSUME rl_handle_memory PROVE BuffersInStep'
  <2> DEFINE i == Head(isb_s3s4)
             a == Head(ff_memory_response)
  <2>1. /\ ff_memory_response # <<>> /\ ff_memory_response' = <<>>
        /\ UNCHANGED <<bufVars, wr_ioop_response>>
        /\ isb_s3s4 \in Seq(Flight) /\ isb_s3s4 # <<>> /\ i = isb_s3s4[1] /\ i \in Flight
        /\ i.kind \in Memory
    BY <1>4, HeadTail DEF rl_handle_memory, PathShape
  <2>2. First(1)
    BY <2>1 DEF First
  <2>3. ff_memory_response \in Seq(Answer) /\ a = ff_memory_response[1] /\ a \in Answer
    BY <2>1, HeadTail DEF PathShape
  <2>4. a.epoch = i.epoch
    <3>1. PICK n : First(n) /\ ff_memory_response[1] \in Answers(isb_s3s4[n])
      BY <2>1, Asked
    <3>2. n = 1
      <4>1. n \in Nat /\ n > 0 /\ ~(1 \in 1 .. n - 1)
        BY <2>1, <2>2, <3>1 DEF First
      <4> QED BY <4>1
    <3> QED BY <2>1, <2>3, <3>1, <3>2 DEF Answers
  <2>5. HasEntry <=> a.result = "entry"
    <3>1. DOMAIN ff_memory_response = {1}
      <4>1. Len(ff_memory_response) <= 1
        BY DEF PathShape
      <4>2. Len(ff_memory_response) \in Nat \ {0}
        BY <2>1, <2>3, HeadTail
      <4>3. Len(ff_memory_response) = 1
        BY <4>1, <4>2
      <4> QED BY <2>3, <4>3
    <3> QED BY <2>3, <3>1 DEF HasEntry
  <2>6. ~HasEntry' /\ Held' = isb_s4s5'
    <3>1. ~HasEntry'
      BY <2>1 DEF HasEntry
    <3> QED BY <3>1, HeldAfter DEF HeldFact
  <2>7. a.result \in {"fault", "data", "entry"} /\ i.epoch \in {0, 1}
    <3>1. i.epoch \in {0, 1}
      BY <2>1 DEF Flight, Ops
    <3> QED BY <2>3, <3>1 DEF Answer
  <2> DEFINE x == CASE a.result = "fault" -> [op |-> None, kind |-> "trap", epoch |-> i.epoch]
                    [] a.result = "data"  -> [op |-> None, kind |-> "base", epoch |-> i.epoch]
                    [] a.result = "entry" -> i
  <2>8. isb_s4s5' = Append(isb_s4s5, x)
    BY <1>4, <2>4 DEF rl_handle_memory, Forward
  <2>9. isb_s4s5' = isb_s4s5 \o <<x>>
    <3>1. isb_s4s5 \in Seq(Flight)
      BY DEF PathShape
    <3> HIDE DEF x
    <3> QED BY <2>8, <3>1
  <2>10. CASE a.result = "entry"
    <3>1. x = isb_s3s4[1]
      BY <2>1, <2>10
    <3>2. Held = isb_s4s5 \o SubSeq(isb_s3s4, 1, 1)
      BY <2>2, <2>5, <2>10, HeldIs
    <3>3. SubSeq(isb_s3s4, 1, 1) = <<isb_s3s4[1]>>
      <4> DEFINE u == SubSeq(isb_s3s4, 1, 1)
      <4>1. u \in Seq(Flight) /\ Len(u) = 1 /\ u[1] = isb_s3s4[1]
        BY <2>1, HeadTail
      <4> HIDE DEF u
      <4> QED BY <4>1, Single DEF u
    <3>4. Held' = Held
      BY <2>6, <2>9, <3>1, <3>2, <3>3
    <3> QED BY <2>1, <3>4, BuffersWait
  <2>11. CASE a.result # "entry"
    <3>1. x \in Flight /\ x.kind \notin Released
      <4>1. \A k \in {"trap", "base"} :
              /\ [op |-> None, kind |-> k, epoch |-> i.epoch] \in Flight
              /\ [op |-> None, kind |-> k, epoch |-> i.epoch].kind = k
              /\ k \notin Released
        BY <2>7 DEF Flight, Released, Io
      <4>2. CASE a.result = "fault"
        BY <4>1, <4>2
      <4>3. CASE a.result = "data"
        BY <4>1, <4>3
      <4> QED BY <2>7, <2>11, <4>2, <4>3
    <3> HIDE DEF x
    <3>2. Held' = Held \o <<x>>
      BY <2>5, <2>6, <2>9, <2>11, HeldIs
    <3> QED BY <2>1, <3>1, <3>2, BuffersPass
  <2> QED BY <2>10, <2>11
<1>5. ASSUME rl_fwd_trapout PROVE BuffersInStep'
  <2> DEFINE x == Head(isb_s3s4)
  <2>1. /\ isb_s3s4 # <<>> /\ x = isb_s3s4[1] /\ isb_s3s4 \in Seq(Flight) /\ x \in Flight
        /\ isb_s3s4' = Tail(isb_s3s4) /\ isb_s4s5' = Append(isb_s4s5, x)
        /\ isb_s4s5 \in Seq(Flight)
        /\ UNCHANGED <<ff_memory_response, bufVars, wr_ioop_response>>
    BY <1>5, HeadTail DEF rl_fwd_trapout, Forward, ansVars, PathShape
  <2>2. x.kind \notin Released /\ x.kind \notin Memory
    BY <1>5 DEF rl_fwd_trapout, Released, Io, Memory
  <2> HIDE DEF x
  <2>3. HasEntry' = HasEntry
    BY <2>1 DEF HasEntry
  <2>4. CASE ~HasEntry
    <3>1. Held' = Held \o <<x>>
      <4>1. isb_s4s5' = isb_s4s5 \o <<x>>
        BY <2>1, AppendIsConcat
      <4>2. Held = isb_s4s5 /\ Held' = isb_s4s5'
        BY <2>3, <2>4, HeldIs, HeldAfter DEF HeldFact
      <4> QED BY <4>1, <4>2
    <3> QED BY <2>1, <2>2, <3>1, BuffersPass
  <2>5. CASE HasEntry
    <3>1. PICK n : First(n)
      <4>1. ff_memory_response # <<>>
        BY <2>5 DEF HasEntry
      <4> QED BY <4>1, Asked
    <3>2. n \in 2 .. Len(isb_s3s4) /\ n - 1 \in DOMAIN isb_s3s4'
      BY <2>1, <2>2, <3>1 DEF First
    <3>3. /\ isb_s3s4'[n - 1] = isb_s3s4[n]
          /\ \A m \in 1 .. n - 2 : isb_s3s4'[m] = isb_s3s4[m + 1] /\ m + 1 \in 1 .. n - 1
      BY <2>1, <3>2
    <3>4. First(n - 1)'
      BY <3>1, <3>2, <3>3 DEF First
    <3>5. Held = isb_s4s5 \o SubSeq(isb_s3s4, 1, n)
      BY <2>5, <3>1, HeldIs
    <3>6. Held' = Append(isb_s4s5, x) \o SubSeq(Tail(isb_s3s4), 1, n - 1)
      BY <2>1, <2>3, <2>5, <3>4, HeldAfter DEF HeldFact
    <3>7. SubSeq(isb_s3s4, 1, n) = <<x>> \o SubSeq(Tail(isb_s3s4), 1, n - 1)
      BY <2>1, <3>2
    <3> DEFINE t == SubSeq(Tail(isb_s3s4), 1, n - 1)
    <3>8. t \in Seq(Flight)
      BY <2>1, <3>2
    <3> HIDE DEF t
    <3>9. Append(isb_s4s5, x) \o t = isb_s4s5 \o (<<x>> \o t)
      BY <2>1, <3>8
    <3>10. Held' = Held
      BY <3>5, <3>6, <3>7, <3>9 DEF t
    <3> QED BY <2>1, <3>10, BuffersWait
  <2> QED BY <2>4, <2>5
<1>6. ASSUME rl_writeback_trap \/ rl_writeback_baseout PROVE BuffersInStep'
  <2>1. /\ isb_s4s5 # <<>> /\ Leave
        /\ UNCHANGED <<ff_memory_response, bufVars, wr_ioop_response>>
        /\ Head(isb_s4s5).kind \notin Released
    BY <1>6 DEF rl_writeback_trap, rl_writeback_baseout, AtWb, ansVars, Released, Io
  <2> QED BY <2>1, BuffersLeave
<1>7. ASSUME isb_s4s5 # <<>>
      PROVE  /\ Held \in Seq(Flight) /\ Held # <<>> /\ Held[1] = Head(isb_s4s5)
             /\ Head(Held) = Held[1]
             /\ store_buffer \in Seq(Flight) /\ io_buffer \in Seq(Flight)
  BY <1>7, HeldIs, Buffered
<1>8. ASSUME rl_writeback_memop_store PROVE BuffersInStep'
  <2>1. /\ isb_s4s5 # <<>> /\ Head(isb_s4s5).kind = "store" /\ Leave
        /\ store_buffer' = Tail(store_buffer)
        /\ UNCHANGED <<ff_memory_response, io_buffer, wr_ioop_response>>
    BY <1>8 DEF rl_writeback_memop_store, ma_commit_store, AtWb, ansVars
  <2>2. Held' = Tail(Held) /\ Held[1].kind \in {"store"} /\ Held[1].kind \notin Io
    BY <1>7, <2>1, HeldLeaves DEF Io
  <2>3. wr_ioop_response = None /\ Picks(io_buffer, Held, Io) /\ Picks(store_buffer, Held, {"store"})
    BY <1>7, <2>1, <2>2 DEF BuffersInStep
  <2>4. Picks(io_buffer, Tail(Held), Io)
    BY <1>7, <2>1, <2>2, <2>3, PicksSkip
  <2>5. Picks(Tail(store_buffer), Tail(Held), {"store"})
    BY <1>7, <2>1, <2>2, <2>3, PicksHead
  <2> QED BY <2>1, <2>2, <2>3, <2>4, <2>5 DEF BuffersInStep
<1>9. IoInv /\ ~rg_ioop_init => wr_ioop_response = None
  BY DEF IoInv, IoAt
<1>10. ASSUME rl_writeback_memop_init PROVE BuffersInStep'
  <2>1. /\ isb_s4s5 # <<>> /\ Head(isb_s4s5).kind \in Io /\ Head(isb_s4s5).epoch = rg_epoch
        /\ wr_ioop_response = None
        /\ UNCHANGED <<isb_s3s4, isb_s4s5, ff_memory_response, wr_ioop_response>>
    BY <1>9, <1>10 DEF rl_writeback_memop_init, AtWb, epochs_match, pipeVars, ansVars
  <2>2. Head(io_buffer) = Head(isb_s4s5)
    BY <2>1, OldestIo
  <2>3. UNCHANGED bufVars
    BY <1>10, <2>1, <2>2 DEF rl_writeback_memop_init, ma_commit_io
  <2> QED BY <1>1, <2>1, <2>3 DEF bufVars
<1>11. ASSUME rl_writeback_memop_done PROVE BuffersInStep'
  <2>1. /\ isb_s4s5 # <<>> /\ Head(isb_s4s5).kind \in Io /\ Leave
        /\ wr_ioop_response # None /\ wr_ioop_response' = None
        /\ UNCHANGED <<ff_memory_response, io_buffer, store_buffer>>
    BY <1>11 DEF rl_writeback_memop_done, AtWb, ansVars, bufVars
  <2>2. Held' = Tail(Held) /\ Held[1].kind \notin {"store"}
    BY <1>7, <2>1, HeldLeaves DEF Io
  <2>3. Picks(io_buffer, Tail(Held), Io) /\ Picks(store_buffer, Held, {"store"})
    BY <2>1 DEF BuffersInStep
  <2>4. Picks(store_buffer, Tail(Held), {"store"})
    BY <1>7, <2>1, <2>2, <2>3, PicksSkip
  <2> QED BY <2>1, <2>2, <2>3, <2>4 DEF BuffersInStep
<1>12. ASSUME rl_writeback_memop_drop PROVE BuffersInStep'
  <2>1. /\ isb_s4s5 # <<>> /\ Head(isb_s4s5).kind \in Io /\ Leave
        /\ Head(isb_s4s5).epoch # rg_epoch
        /\ UNCHANGED <<ff_memory_response, wr_ioop_response>>
    BY <1>12 DEF rl_writeback_memop_drop, AtWb, epochs_match, ansVars
  <2>2. wr_ioop_response = None
    <3>1. ~rg_ioop_init
      BY <2>1 DEF IoInv
    <3> QED BY <1>9, <3>1
  <2>3. Head(io_buffer) = Head(isb_s4s5) /\ Picks(Tail(io_buffer), Tail(Held), Io)
    BY <2>1, <2>2, OldestIo
  <2>4. io_buffer' = Tail(io_buffer) /\ UNCHANGED store_buffer
    BY <1>12, <2>1, <2>3 DEF rl_writeback_memop_drop, ma_commit_io
  <2>5. Held' = Tail(Held) /\ Held[1].kind \notin {"store"}
    BY <1>7, <2>1, HeldLeaves DEF Io
  <2>6. Picks(store_buffer, Held, {"store"})
    BY DEF BuffersInStep
  <2>7. Picks(store_buffer, Tail(Held), {"store"})
    BY <1>7, <2>1, <2>5, <2>6, PicksSkip
  <2> QED BY <2>1, <2>2, <2>3, <2>4, <2>5, <2>7 DEF BuffersInStep
<1>13. ASSUME NEW ch, NEW S, ch \in Seq(S), ch = r \/ ch = b, IoAnswer(ch) # {}, IoResponse(ch)
       PROVE  BuffersInStep'
  <2>1. PICK m \in IoAnswer(ch) : wr_ioop_response' = m.of
    BY <1>13 DEF IoResponse
  <2>2. /\ m.of \in Op /\ wr_ioop_response = None
        /\ isb_s4s5 # <<>> /\ Head(isb_s4s5).kind \in Io
    BY <1>13, AnswerComes
  <2>3. wr_ioop_response' # None
    BY <2>1, <2>2, LineAssumption
  <2>4. /\ Held # <<>> /\ Head(Held).kind \in Io /\ Picks(Tail(io_buffer), Tail(Held), Io)
    BY <2>2, OldestIo
  <2>5. Held' = Held /\ io_buffer' = Tail(io_buffer) /\ store_buffer' = store_buffer
    BY <1>13 DEF IoResponse, Held, Answered, pipeVars, ansVars
  <2>6. Picks(store_buffer, Held, {"store"})
    BY DEF BuffersInStep
  <2> QED BY <2>3, <2>4, <2>5, <2>6 DEF BuffersInStep
<1>14. IoRead => BuffersInStep'
  BY <1>13 DEF IoRead, rl_handle_io_read_response, LineShape
<1>15. IoWritten => BuffersInStep'
  BY <1>13 DEF IoWritten, rl_handle_io_write_resp, LineShape
<1>16. CASE UNCHANGED pathVars
  BY <1>1, <1>16 DEF pathVars, pipeVars, ansVars, bufVars
<1>17. CASE UNCHANGED vars
  BY <1>16, <1>17 DEF vars
<1>18. CASE Next
  BY <1>2, <1>3, <1>4, <1>5, <1>6, <1>8, <1>10, <1>11, <1>12, <1>14, <1>15, <1>16, <1>18
  DEF Next, Stage3, Stage4, Stage5, CacheEvicts, CacheMisses, LineReads, DelayedReads,
      LineWrites, InitiateIo, LineFilled, LineWritten, FabricWrites, FabricReads
<1> QED BY <1>17, <1>18

-----------------------------------------------------------------------------
(* The instructions in flight, and how they move.                          *)

LEMMA InOrderShape ==
  ASSUME PathShape
  PROVE  /\ InOrder \in Seq(Flight) /\ Len(InOrder) = Len(isb_s4s5) + Len(isb_s3s4)
         /\ \A k \in DOMAIN isb_s4s5 : k \in DOMAIN InOrder /\ InOrder[k] = isb_s4s5[k]
         /\ \A k \in DOMAIN isb_s3s4 : /\ Len(isb_s4s5) + k \in DOMAIN InOrder
                                       /\ InOrder[Len(isb_s4s5) + k] = isb_s3s4[k]
         /\ isb_s4s5 # <<>> => /\ InOrder # <<>> /\ Head(InOrder) = Head(isb_s4s5)
                               /\ Tail(InOrder) = Tail(isb_s4s5) \o isb_s3s4
BY SMTT(20) DEF InOrder, PathShape

LEMMA Enters ==
  ASSUME PathShape, NEW i, isb_s3s4' = Append(isb_s3s4, i), UNCHANGED isb_s4s5
  PROVE  InOrder' = Append(InOrder, i)
<1>1. isb_s4s5 \in Seq(Flight) /\ isb_s3s4 \in Seq(Flight)
  BY DEF PathShape
<1>2. isb_s4s5 \o Append(isb_s3s4, i) = Append(isb_s4s5 \o isb_s3s4, i)
  BY <1>1
<1> QED BY <1>2 DEF InOrder

LEMMA Forwards ==
  ASSUME PathShape, isb_s3s4 # <<>>, NEW x \in Flight, Forward(x)
  PROVE  /\ InOrder' = [InOrder EXCEPT ![Len(isb_s4s5) + 1] = x]
         /\ Len(isb_s4s5) + 1 \in DOMAIN InOrder
         /\ InOrder[Len(isb_s4s5) + 1] = Head(isb_s3s4)
<1>1. isb_s4s5 \in Seq(Flight) /\ isb_s3s4 \in Seq(Flight)
  BY DEF PathShape
<1>2. isb_s4s5' = Append(isb_s4s5, x) /\ isb_s3s4' = Tail(isb_s3s4)
  BY DEF Forward
<1> DEFINE s == Append(isb_s4s5, x) \o Tail(isb_s3s4)
           t == [InOrder EXCEPT ![Len(isb_s4s5) + 1] = x]
           L == Len(isb_s4s5)  M == Len(isb_s3s4)
<1>3. /\ s \in Seq(Flight) /\ Len(s) = L + M /\ L \in Nat /\ M \in Nat \ {0}
      /\ \A k \in 1 .. L : s[k] = isb_s4s5[k]
      /\ s[L + 1] = x
      /\ \A k \in L + 2 .. L + M : s[k] = isb_s3s4[k - L]
  BY <1>1
<1>4. /\ InOrder \in Seq(Flight) /\ Len(InOrder) = L + M /\ L + 1 \in 1 .. Len(InOrder)
      /\ \A k \in 1 .. L : InOrder[k] = isb_s4s5[k]
      /\ \A k \in L + 1 .. L + M : InOrder[k] = isb_s3s4[k - L]
  BY <1>1 DEF InOrder
<1>5. /\ t \in Seq(Flight) /\ Len(t) = L + M
      /\ \A k \in 1 .. L + M : t[k] = IF k = L + 1 THEN x ELSE InOrder[k]
  <2>1. InOrder \in Seq(Flight) /\ Len(isb_s4s5) + 1 \in 1 .. Len(InOrder)
    BY <1>4
  <2>2. /\ t \in Seq(Flight) /\ Len(t) = Len(InOrder)
        /\ \A k \in 1 .. Len(InOrder) :
             t[k] = IF k = Len(isb_s4s5) + 1 THEN x ELSE InOrder[k]
    BY <2>1, ExceptSeq
  <2> HIDE DEF t
  <2> QED BY <1>4, <2>2
<1>6. s = t
  <2> HIDE DEF s, t, L, M
  <2>1. \A k \in 1 .. L + M : k \in 1 .. L \/ k = L + 1 \/ k \in L + 2 .. L + M
    BY <1>3
  <2>2. \A k \in L + 2 .. L + M : k \in L + 1 .. L + M /\ k # L + 1
    BY <1>3
  <2>3. \A k \in 1 .. L + M : s[k] = t[k]
    BY <1>3, <1>4, <1>5, <2>1, <2>2
  <2> QED BY <1>3, <1>5, <2>3, SeqEqual
<1>7. InOrder' = s
  BY <1>2 DEF InOrder
<1>8. InOrder[Len(isb_s4s5) + 1] = Head(isb_s3s4) /\ Len(isb_s4s5) + 1 \in DOMAIN InOrder
  BY <1>1 DEF InOrder
<1> QED BY <1>6, <1>7, <1>8

LEMMA Leaves ==
  ASSUME PathShape, isb_s4s5 # <<>>, Leave
  PROVE  InOrder' = Tail(InOrder)
BY InOrderShape DEF Leave, InOrder

(* An operation that is answered with a fault or with data loses its tag.  *)
LEMMA Handles ==
  ASSUME PathShape, rl_handle_memory
  PROVE  \/ UNCHANGED pipeVars
         \/ \E x \in Flight :
              /\ Forward(x)
              /\ \/ x = Head(isb_s3s4)
                 \/ x.op = None /\ x.kind \in {"trap", "base"}
<1> DEFINE i == Head(isb_s3s4)
<1>1. i \in Flight /\ i.epoch \in {0, 1}
  <2>1. i \in Flight
    BY HeadTail DEF rl_handle_memory, PathShape
  <2> QED BY <2>1 DEF Flight, Ops
<1>2. \A k \in {"trap", "base"} : /\ [op |-> None, kind |-> k, epoch |-> i.epoch] \in Flight
                                  /\ [op |-> None, kind |-> k, epoch |-> i.epoch].op = None
                                  /\ [op |-> None, kind |-> k, epoch |-> i.epoch].kind = k
  BY <1>1 DEF Flight
<1>3. Head(ff_memory_response).result \in {"fault", "data", "entry"}
  <2>1. Head(ff_memory_response) \in Answer
    BY HeadTail DEF rl_handle_memory, PathShape
  <2> QED BY <2>1 DEF Answer
<1> HIDE DEF i
<1>4. \/ UNCHANGED pipeVars
      \/ Forward([op |-> None, kind |-> "trap", epoch |-> i.epoch])
      \/ Forward([op |-> None, kind |-> "base", epoch |-> i.epoch])
      \/ Forward(i)
  BY <1>3 DEF rl_handle_memory, i
<1>5. ASSUME NEW k \in {"trap", "base"}, Forward([op |-> None, kind |-> k, epoch |-> i.epoch])
      PROVE  \E x \in Flight : Forward(x) /\ x.op = None /\ x.kind \in {"trap", "base"}
  BY <1>2, <1>5
<1> QED BY <1>1, <1>4, <1>5 DEF i

LEMMA TagsKept ==
  ASSUME LineShape, PathShape, UniqueTags, [Next]_vars
  PROVE  UniqueTags'
<1>1. CASE UNCHANGED pipeVars
  BY <1>1 DEF UniqueTags, InOrder, pipeVars
<1>2. ASSUME NEW kind \in Kinds, rl_exe_base_memory(kind) PROVE UniqueTags'
  <2> DEFINE i == [op |-> Tag(kind), kind |-> kind, epoch |-> rg_epoch]
  <2>1. InOrder' = Append(InOrder, i)
    BY <1>2, Enters DEF rl_exe_base_memory
  <2>2. \A k \in DOMAIN InOrder : InOrder[k].op \in Op => i.op # InOrder[k].op
    <3>1. i.op = None \/ i.op \in Free
      BY <1>2, TagFree DEF rl_exe_base_memory, Tag
    <3>2. None \notin Op
      BY LineAssumption
    <3>3. \A k \in DOMAIN InOrder : InOrder[k].op \in Tagged(isb_s3s4) \cup Tagged(isb_s4s5)
      <4>1. ASSUME NEW k \in DOMAIN InOrder
            PROVE  InOrder[k].op \in Tagged(isb_s3s4) \cup Tagged(isb_s4s5)
        <5>1. \/ k \in DOMAIN isb_s4s5 /\ InOrder[k] = isb_s4s5[k]
              \/ /\ k - Len(isb_s4s5) \in DOMAIN isb_s3s4
                 /\ InOrder[k] = isb_s3s4[k - Len(isb_s4s5)]
          BY DEF InOrder, PathShape
        <5> QED BY <5>1 DEF Tagged
      <4> QED BY <4>1
    <3> HIDE DEF i
    <3> QED BY <3>1, <3>2, <3>3 DEF Free
  <2> HIDE DEF i
  <2>3. /\ DOMAIN InOrder' = DOMAIN InOrder \cup {Len(InOrder) + 1}
        /\ InOrder'[Len(InOrder) + 1] = i
        /\ \A k \in DOMAIN InOrder : InOrder'[k] = InOrder[k]
    BY <2>1, InOrderShape
  <2> QED BY <2>2, <2>3 DEF UniqueTags
<1>3. ASSUME NEW x \in Flight, isb_s3s4 # <<>>, Forward(x),
             x.op = None \/ x = Head(isb_s3s4)
      PROVE  UniqueTags'
  <2> DEFINE n == Len(isb_s4s5) + 1
  <2>1. /\ InOrder' = [InOrder EXCEPT ![n] = x] /\ n \in DOMAIN InOrder
        /\ InOrder[n] = Head(isb_s3s4)
    BY <1>3, Forwards
  <2>2. x.op \in Op => x.op = InOrder[n].op
    BY <1>3, <2>1, LineAssumption
  <2> HIDE DEF n
  <2>3. /\ DOMAIN InOrder' = DOMAIN InOrder
        /\ \A k \in DOMAIN InOrder : InOrder'[k].op \in Op => InOrder'[k].op = InOrder[k].op
    BY <2>1, <2>2, InOrderShape
  <2> QED BY <2>3 DEF UniqueTags
<1>4. ASSUME Leave, isb_s4s5 # <<>> PROVE UniqueTags'
  <2>1. InOrder' = Tail(InOrder) /\ InOrder # <<>> /\ InOrder \in Seq(Flight)
    BY <1>4, Leaves, InOrderShape
  <2>2. \A k \in DOMAIN InOrder' : k + 1 \in DOMAIN InOrder /\ InOrder'[k] = InOrder[k + 1]
    BY <2>1
  <2>3. DOMAIN InOrder' \subseteq Nat
    BY <2>1
  <2>4. ASSUME NEW m \in DOMAIN InOrder', NEW n \in DOMAIN InOrder',
               InOrder'[m].op \in Op, InOrder'[m].op = InOrder'[n].op
        PROVE  m = n
    <3>1. m + 1 = n + 1
      BY <2>2, <2>4 DEF UniqueTags
    <3> QED BY <2>3, <3>1
  <2> QED BY <2>4 DEF UniqueTags
<1>5. rl_handle_memory => UniqueTags'
  BY <1>1, <1>3, Handles DEF rl_handle_memory
<1>6. rl_fwd_trapout => UniqueTags'
  <2>1. isb_s3s4 # <<>> => Head(isb_s3s4) \in Flight
    BY HeadTail DEF PathShape
  <2> QED BY <1>3, <2>1 DEF rl_fwd_trapout
<1>7. CASE UNCHANGED vars
  BY <1>1, <1>7 DEF vars, pathVars
<1>8. CASE Next
  BY <1>1, <1>2, <1>4, <1>5, <1>6, <1>8
  DEF Next, Stage3, Stage4, Stage5, CacheAnswers, AtWb, IoResponse,
      rl_writeback_trap, rl_writeback_baseout, rl_writeback_memop_store,
      rl_writeback_memop_init, rl_writeback_memop_done, rl_writeback_memop_drop,
      CacheEvicts, CacheMisses, LineReads, DelayedReads, LineWrites, InitiateIo,
      LineFilled, LineWritten, IoRead, IoWritten, FabricWrites, FabricReads, pathVars
<1> QED BY <1>7, <1>8

-----------------------------------------------------------------------------
(* The messages of the write channel, and how they move.                   *)

LEMMA PendGrows ==
  ASSUME LineShape, NEW m, aw' = Append(aw, m), UNCHANGED accepted
  PROVE  Pend' = Append(Pend, m)
<1>1. accepted \in Seq(Msg) /\ aw \in Seq(Msg)
  BY DEF LineShape
<1>2. accepted \o Append(aw, m) = Append(accepted \o aw, m)
  BY <1>1
<1> QED BY <1>2 DEF Pend

LEMMA PendServed ==
  ASSUME LineShape, FabricWrite
  PROVE  /\ Pend # <<>> /\ Written = Pend[1] /\ Pend[1] \in Msg
         /\ ~Head(w).last => Pend' = Pend
         /\ Head(w).last => Pend' = Tail(Pend)
<1>1. /\ accepted \in Seq(Msg) /\ aw \in Seq(Msg) /\ Len(accepted) <= 1
      /\ Pend = accepted \o aw /\ Pend # <<>> /\ Pend \in Seq(Msg)
  BY PendShape DEF LineShape, FabricWrite, Pend
<1>2. Written = Pend[1] /\ Pend[1] \in Msg
  BY <1>1, HeadTail DEF Written
<1>3. CASE accepted = <<>>
  <2>1. aw # <<>> /\ Pend = aw /\ aw' = Tail(aw)
    BY <1>1, <1>3 DEF FabricWrite
  <2>2. <<aw[1]>> \o Tail(aw) = aw /\ <<>> \o Tail(aw) = Tail(aw)
    BY <1>1, <2>1
  <2> QED BY <1>1, <1>2, <2>1, <2>2 DEF FabricWrite, Pend
<1>4. CASE accepted # <<>>
  <2>1. Len(accepted) = 1 /\ aw' = aw
    <3>1. Len(accepted) \in Nat \ {0} /\ Len(accepted) <= 1
      BY <1>1, <1>4, HeadTail
    <3>2. aw' = aw
      BY <1>4 DEF FabricWrite
    <3>3. \A n \in Nat \ {0} : n <= 1 => n = 1
      OBVIOUS
    <3> QED BY <3>1, <3>2, <3>3
  <2>2. accepted = <<accepted[1]>> /\ Pend[1] = accepted[1]
    <3>1. accepted \in Seq(Msg) /\ aw \in Seq(Msg)
      BY <1>1
    <3>2. accepted = <<accepted[1]>>
      BY <2>1, <3>1, Single
    <3>3. 1 \in 1 .. Len(accepted)
      BY <2>1
    <3>4. (accepted \o aw)[1] = accepted[1]
      BY SMTT(20), <3>1, <3>3
    <3> QED BY <3>2, <3>4 DEF Pend
  <2>3. Tail(accepted \o aw) = aw /\ <<>> \o aw = aw
    <3>1. Tail(<<accepted[1]>> \o aw) = aw /\ <<>> \o aw = aw
      BY <1>1
    <3> QED BY <2>2, <3>1
  <2> QED BY <1>1, <1>2, <2>1, <2>2, <2>3 DEF FabricWrite, Pend
<1> QED BY <1>1, <1>2, <1>3, <1>4

-----------------------------------------------------------------------------
(* Where the I/O operation is.                                             *)

LEMMA IoAppend ==
  ASSUME NEW S, NEW q \in Seq(S), NEW m, NEW here \in BOOLEAN, NEW o, IoIn(q, here, o)
  PROVE  /\ m.id = 0 => IoIn(Append(q, m), here, o)
         /\ ~here /\ m.id = 1 /\ m.of = o => IoIn(Append(q, m), TRUE, o)
<1>1. /\ DOMAIN Append(q, m) = DOMAIN q \cup {Len(q) + 1} /\ Len(q) + 1 \notin DOMAIN q
      /\ Append(q, m)[Len(q) + 1] = m
      /\ \A n \in DOMAIN q : Append(q, m)[n] = q[n]
  OBVIOUS
<1> DEFINE q1 == Append(q, m)  N == Len(q) + 1
<1>2. ASSUME m.id = 0 PROVE IoIn(q1, here, o)
  <2> HIDE DEF q1, N
  <2>1. CASE here
    <3>1. PICK n \in DOMAIN q : /\ q[n].id = 1 /\ q[n].of = o
                                /\ \A k \in DOMAIN q : q[k].id = 1 => k = n
      BY <2>1 DEF IoIn, Only
    <3>2. n \in DOMAIN q1 /\ q1[n].id = 1 /\ q1[n].of = o
      BY <1>1, <3>1 DEF q1, N
    <3>3. \A k \in DOMAIN q1 : q1[k].id = 1 => k = n
      BY <1>1, <1>2, <3>1 DEF q1, N
    <3> QED BY <2>1, <3>2, <3>3 DEF IoIn, Only
  <2>2. CASE ~here
    <3>1. \A k \in DOMAIN q1 : q1[k].id # 1
      BY <1>1, <1>2, <2>2 DEF q1, N, IoIn, NoIo
    <3> QED BY <2>2, <3>1 DEF IoIn, NoIo
  <2> QED BY <2>1, <2>2
<1>3. ASSUME ~here, m.id = 1, m.of = o PROVE IoIn(q1, TRUE, o)
  <2>1. \A k \in DOMAIN q : q[k].id # 1
    BY <1>3 DEF IoIn, NoIo
  <2>2. N \in DOMAIN q1 /\ q1[N] = m /\ \A k \in DOMAIN q1 : q1[k].id = 1 => k = N
    BY <1>1, <2>1
  <2> HIDE DEF q1, N
  <2> QED BY <1>3, <2>2 DEF IoIn, Only
<1> QED BY <1>2, <1>3

(* t is q without its k-th message.                                        *)
Without(q, k, t) ==
  /\ DOMAIN t = 1 .. Len(q) - 1
  /\ \A j \in DOMAIN t : t[j] = q[IF j < k THEN j ELSE j + 1]

LEMMA IoRemove ==
  ASSUME NEW S, NEW q \in Seq(S), NEW k \in DOMAIN q, NEW t, Without(q, k, t),
         NEW here \in BOOLEAN, NEW o, IoIn(q, here, o)
  PROVE  /\ q[k].id = 0 => IoIn(t, here, o)
         /\ q[k].id = 1 => here /\ q[k].of = o /\ IoIn(t, FALSE, o)
<1> DEFINE old(j) == IF j < k THEN j ELSE j + 1
<1>1. \A j \in DOMAIN t : old(j) \in DOMAIN q /\ old(j) # k /\ t[j] = q[old(j)]
  BY DEF Without
<1>2. \A i \in DOMAIN q : i # k => \E j \in DOMAIN t : old(j) = i
  <2>1. ASSUME NEW i \in DOMAIN q, i # k PROVE \E j \in DOMAIN t : old(j) = i
    <3>1. CASE i < k
      <4>1. i \in DOMAIN t /\ old(i) = i
        BY <3>1 DEF Without
      <4> QED BY <4>1
    <3>2. CASE i > k
      <4>1. i - 1 \in DOMAIN t /\ old(i - 1) = i
        BY <3>2 DEF Without
      <4> QED BY <4>1
    <3> QED BY <2>1, <3>1, <3>2
  <2> QED BY <2>1
<1>3. \A i, j \in DOMAIN t : old(i) = old(j) => i = j
  BY DEF Without
<1> HIDE DEF old
<1>4. ASSUME q[k].id = 0 PROVE IoIn(t, here, o)
  <2>1. CASE here
    <3>1. PICK n \in DOMAIN q : /\ q[n].id = 1 /\ q[n].of = o
                                /\ \A i \in DOMAIN q : q[i].id = 1 => i = n
      BY <2>1 DEF IoIn, Only
    <3>2. n # k
      BY <1>4, <3>1
    <3>3. PICK j \in DOMAIN t : old(j) = n
      BY <1>2, <3>2
    <3>4. t[j].id = 1 /\ t[j].of = o
      BY <1>1, <3>1, <3>3
    <3>5. \A i \in DOMAIN t : t[i].id = 1 => i = j
      BY <1>1, <1>3, <3>1, <3>3
    <3> QED BY <2>1, <3>4, <3>5 DEF IoIn, Only
  <2>2. CASE ~here
    BY <1>1, <2>2 DEF IoIn, NoIo
  <2> QED BY <2>1, <2>2
<1>5. ASSUME q[k].id = 1 PROVE here /\ q[k].of = o /\ IoIn(t, FALSE, o)
  <2>1. here
    BY <1>5 DEF IoIn, NoIo
  <2>2. PICK n \in DOMAIN q : /\ q[n].id = 1 /\ q[n].of = o
                              /\ \A i \in DOMAIN q : q[i].id = 1 => i = n
    BY <2>1 DEF IoIn, Only
  <2>3. n = k
    BY <1>5, <2>2
  <2> QED BY <1>1, <2>1, <2>2, <2>3 DEF IoIn, NoIo
<1> QED BY <1>4, <1>5

LEMMA TailWithout ==
  ASSUME NEW S, NEW q \in Seq(S), q # <<>>
  PROVE  1 \in DOMAIN q /\ Head(q) = q[1] /\ Without(q, 1, Tail(q))
<1>1. /\ 1 \in DOMAIN q /\ Head(q) = q[1] /\ DOMAIN Tail(q) = 1 .. Len(q) - 1
      /\ \A j \in DOMAIN Tail(q) : ~(j < 1) /\ Tail(q)[j] = q[j + 1]
  OBVIOUS
<1> QED BY <1>1 DEF Without

LEMMA RemoveAtWithout ==
  ASSUME NEW S, NEW q \in Seq(S), NEW k \in DOMAIN q
  PROVE  Without(q, k, RemoveAt(q, k))
<1> DEFINE A == SubSeq(q, 1, k - 1)  B == SubSeq(q, k + 1, Len(q))
<1>1. /\ A \in Seq(S) /\ Len(A) = k - 1 /\ \A j \in 1 .. k - 1 : A[j] = q[j]
      /\ B \in Seq(S) /\ Len(B) = Len(q) - k
      /\ \A j \in 1 .. Len(q) - k : B[j] = q[k + j]
      /\ k \in Nat \ {0} /\ Len(q) \in Nat /\ k <= Len(q)
  OBVIOUS
<1>2. RemoveAt(q, k) = A \o B
  BY DEF RemoveAt
<1> HIDE DEF A, B
<1>3. /\ DOMAIN (A \o B) = 1 .. Len(q) - 1
      /\ \A j \in 1 .. k - 1 : (A \o B)[j] = A[j]
      /\ \A j \in k .. Len(q) - 1 : (A \o B)[j] = B[j - (k - 1)]
  BY <1>1
<1>4. \A j \in k .. Len(q) - 1 : (A \o B)[j] = q[j + 1]
  <2>1. ASSUME NEW j \in k .. Len(q) - 1 PROVE (A \o B)[j] = q[j + 1]
    <3>1. j - (k - 1) \in 1 .. Len(q) - k /\ k + (j - (k - 1)) = j + 1
      BY <1>1
    <3> QED BY <1>1, <1>3, <3>1
  <2> QED BY <2>1
<1>5. \A j \in 1 .. Len(q) - 1 : (A \o B)[j] = q[IF j < k THEN j ELSE j + 1]
  BY <1>1, <1>3, <1>4
<1> QED BY <1>2, <1>3, <1>5 DEF Without

(* One step of the operation that was started, and none of another.        *)
IoSteps(place, o) == \/ IoAt(place, o)'
                     \/ place = "request" /\ (IoAt("read", o)' \/ IoAt("write", o)')
                     \/ place = "read" /\ IoAt("data", o)'
                     \/ place = "write" /\ IoAt("response", o)'

LEMMA LineIoSteps ==
  ASSUME LineShape, UNCHANGED wr_ioop_response,
         NEW place \in Places \cup {"none"}, NEW o, IoAt(place, o),
         \/ UNCHANGED <<io_req, ar, accepted, aw, r, b>>
         \/ rl_handle_dmem_line_read_request \/ rl_handle_delayed_read
         \/ rl_handle_dmem_line_resp \/ rl_handle_dmem_write_request
         \/ rl_initiate_io \/ handle_dmem_line_write_resp
         \/ FabricWrite \/ (\E id \in {0, 1} : FabricRead(id))
  PROVE  IoSteps(place, o)
<1> DEFINE I == IF place = "request" THEN Len(io_req) = 1 /\ io_req[1].op = o ELSE io_req = <<>>
           A == IF place = "answer" THEN wr_ioop_response = o ELSE wr_ioop_response = None
<1>1. /\ I /\ A /\ A'
      /\ IoIn(ar, place = "read", o) /\ IoIn(Pend, place = "write", o)
      /\ IoIn(r, place = "data", o) /\ IoIn(b, place = "response", o)
  BY DEF IoAt
<1>2. /\ ar \in Seq(Msg) /\ Pend \in Seq(Msg) /\ b \in Seq(Msg) /\ r \in Seq(DataMsg)
      /\ io_req \in Seq(IoRequests)
  BY PendShape DEF LineShape
<1>3. UNCHANGED <<accepted, aw>> => Pend' = Pend
  BY DEF Pend
<1>4. ASSUME NEW q, NEW here, IoIn(q, here, o), UNCHANGED q PROVE IoIn(q', here, o)
  BY <1>4
<1>5. ASSUME UNCHANGED io_req PROVE I'
  BY <1>1, <1>5
<1>6. CASE UNCHANGED <<io_req, ar, accepted, aw, r, b>>
  BY <1>1, <1>3, <1>6 DEF IoSteps, IoAt
<1>7. ASSUME UNCHANGED <<io_req, accepted, aw, r, b>>,
             NEW m, m.id = 0, ar' = Append(ar, m)
      PROVE  IoSteps(place, o)
  <2>1. IoIn(ar', place = "read", o)
    BY <1>1, <1>2, <1>7, IoAppend
  <2> QED BY <1>1, <1>3, <1>7, <2>1 DEF IoSteps, IoAt
<1>8. ASSUME rl_handle_dmem_line_read_request PROVE IoSteps(place, o)
  <2>1. /\ UNCHANGED <<io_req, accepted, aw, r, b>>
        /\ \/ UNCHANGED ar
           \/ ar' = Append(ar, [id |-> 0, of |-> Head(rd_req)])
    BY <1>8 DEF rl_handle_dmem_line_read_request, SendRead, requests, responses, fabricVars
  <2>2. [id |-> 0, of |-> Head(rd_req)].id = 0
    OBVIOUS
  <2> QED BY <1>6, <1>7, <2>1, <2>2
<1>9. ASSUME rl_handle_delayed_read PROVE IoSteps(place, o)
  <2>1. /\ UNCHANGED <<io_req, accepted, aw, r, b>>
        /\ ar' = Append(ar, [id |-> 0, of |-> rg_read_line_req])
    BY <1>9 DEF rl_handle_delayed_read, SendRead, requests, responses, fabricVars
  <2>2. [id |-> 0, of |-> rg_read_line_req].id = 0
    OBVIOUS
  <2> QED BY <1>7, <2>1, <2>2
<1>10. ASSUME rl_handle_dmem_line_resp PROVE IoSteps(place, o)
  <2>1. /\ UNCHANGED <<io_req, ar, accepted, aw, b>>
        /\ r # <<>> /\ r' = Tail(r) /\ Head(r).id = 0
    BY <1>10 DEF rl_handle_dmem_line_resp, requests, fabricVars
  <2>2. 1 \in DOMAIN r /\ r[1].id = 0 /\ Without(r, 1, r')
    BY <1>2, <2>1, TailWithout
  <2>3. IoIn(r', place = "data", o)
    BY <1>1, <1>2, <2>2, IoRemove
  <2> QED BY <1>1, <1>3, <2>1, <2>3 DEF IoSteps, IoAt
<1>11. ASSUME rl_handle_dmem_write_request PROVE IoSteps(place, o)
  <2> DEFINE m == [id |-> 0, of |-> Head(evictions).line]
  <2>1. UNCHANGED <<io_req, ar, r, b>> /\ Pend' = Append(Pend, m) /\ m.id = 0
    BY <1>11, PendGrows DEF rl_handle_dmem_write_request, responses, fabricVars
  <2>2. IoIn(Pend', place = "write", o)
    BY <1>1, <1>2, <2>1, IoAppend
  <2> QED BY <1>1, <2>1, <2>2 DEF IoSteps, IoAt
<1>12. ASSUME rl_initiate_io PROVE IoSteps(place, o)
  <2> DEFINE m == [id |-> 1, of |-> o]
  <2>1. /\ place = "request" /\ Head(io_req).op = o /\ io_req' = <<>>
        /\ m.id = 1 /\ m.of = o
    <3>1. io_req # <<>> /\ io_req' = Tail(io_req)
      BY <1>12 DEF rl_initiate_io
    <3>2. place = "request" /\ Len(io_req) = 1 /\ io_req[1].op = o
      BY <1>1, <3>1
    <3> QED BY <1>2, <3>1, <3>2
  <2>2. /\ UNCHANGED <<r, b, accepted>>
        /\ \/ ar' = Append(ar, m) /\ UNCHANGED aw
           \/ aw' = Append(aw, m) /\ UNCHANGED ar
    BY <1>12, <2>1 DEF rl_initiate_io, InitiateRead, InitiateWrite, responses, fabricVars
  <2> HIDE DEF m
  <2>3. CASE ar' = Append(ar, m) /\ UNCHANGED aw
    <3>1. IoIn(ar', TRUE, o)
      BY <1>1, <1>2, <2>1, <2>3, IoAppend
    <3>2. IoAt("read", o)'
      BY <1>1, <1>3, <2>1, <2>2, <2>3, <3>1 DEF IoAt
    <3> QED BY <2>1, <3>2 DEF IoSteps
  <2>4. CASE aw' = Append(aw, m) /\ UNCHANGED ar
    <3>1. Pend' = Append(Pend, m)
      BY <2>2, <2>4, PendGrows
    <3>2. IoIn(Pend', TRUE, o)
      BY <1>1, <1>2, <2>1, <3>1, IoAppend
    <3>3. IoAt("write", o)'
      BY <1>1, <2>1, <2>2, <2>4, <3>2 DEF IoAt
    <3> QED BY <2>1, <3>3 DEF IoSteps
  <2> QED BY <2>2, <2>3, <2>4
<1>13. ASSUME handle_dmem_line_write_resp PROVE IoSteps(place, o)
  <2>1. /\ UNCHANGED <<io_req, ar, accepted, aw, r>>
        /\ b # <<>> /\ b' = Tail(b) /\ Head(b).id = 0
    BY <1>13 DEF handle_dmem_line_write_resp, requests, fabricVars
  <2>2. 1 \in DOMAIN b /\ b[1].id = 0 /\ Without(b, 1, b')
    BY <1>2, <2>1, TailWithout
  <2>3. IoIn(b', place = "response", o)
    BY <1>1, <1>2, <2>2, IoRemove
  <2> QED BY <1>1, <1>3, <2>1, <2>3 DEF IoSteps, IoAt
<1>14. ASSUME FabricWrite PROVE IoSteps(place, o)
  <2>1. /\ UNCHANGED <<io_req, ar, r>> /\ Pend # <<>> /\ Pend[1] \in Msg
        /\ \/ UNCHANGED b /\ Pend' = Pend
           \/ b' = Append(b, Pend[1]) /\ Pend' = Tail(Pend)
    BY <1>14, PendServed DEF FabricWrite
  <2>2. CASE UNCHANGED b /\ Pend' = Pend
    BY <1>1, <2>1, <2>2 DEF IoSteps, IoAt
  <2>3. CASE b' = Append(b, Pend[1]) /\ Pend' = Tail(Pend)
    <3>1. 1 \in DOMAIN Pend /\ Without(Pend, 1, Pend')
      BY <1>2, <2>1, <2>3, TailWithout
    <3>2. CASE Pend[1].id = 0
      <4>1. IoIn(Pend', place = "write", o) /\ IoIn(b', place = "response", o)
        BY <1>1, <1>2, <2>3, <3>1, <3>2, IoRemove, IoAppend
      <4> QED BY <1>1, <2>1, <4>1 DEF IoSteps, IoAt
    <3>3. CASE Pend[1].id = 1
      <4>1. place = "write" /\ Pend[1].of = o /\ IoIn(Pend', FALSE, o)
        BY <1>1, <1>2, <3>1, <3>3, IoRemove
      <4>2. IoIn(b', TRUE, o)
        BY <1>1, <1>2, <2>3, <3>3, <4>1, IoAppend
      <4>3. IoAt("response", o)'
        BY <1>1, <2>1, <4>1, <4>2 DEF IoAt
      <4> QED BY <4>1, <4>3 DEF IoSteps
    <3> QED BY <2>1, <3>2, <3>3, MessageTypes
  <2> QED BY <2>1, <2>2, <2>3
<1>15. ASSUME NEW id \in {0, 1}, FabricRead(id) PROVE IoSteps(place, o)
  <2> DEFINE Served(i, m) == /\ ar' = RemoveAt(ar, i)
                             /\ r' = Append(r, m) /\ m.id = ar[i].id /\ m.of = ar[i].of
  <2>0. PICK i \in DOMAIN ar : \E m : Served(i, m)
    BY <1>15 DEF FabricRead
  <2>1. PICK m : Served(i, m)
    BY <2>0
  <2>2. UNCHANGED <<io_req, accepted, aw, b>> /\ Without(ar, i, ar') /\ ar[i] \in Msg
    BY <1>2, <1>15, <2>1, RemoveAtWithout DEF FabricRead, fabricVars
  <2>3. CASE ar[i].id = 0
    <3>1. IoIn(ar', place = "read", o) /\ IoIn(r', place = "data", o)
      BY <1>1, <1>2, <2>1, <2>2, <2>3, IoRemove, IoAppend
    <3> QED BY <1>1, <1>3, <2>2, <3>1 DEF IoSteps, IoAt
  <2>4. CASE ar[i].id = 1
    <3>1. place = "read" /\ ar[i].of = o /\ IoIn(ar', FALSE, o)
      BY <1>1, <1>2, <2>1, <2>2, <2>4, IoRemove
    <3>2. IoIn(r', TRUE, o)
      BY <1>1, <1>2, <2>1, <2>4, <3>1, IoAppend
    <3>3. IoAt("data", o)'
      BY <1>1, <1>3, <2>2, <3>1, <3>2 DEF IoAt
    <3> QED BY <3>1, <3>3 DEF IoSteps
  <2> QED BY <2>2, <2>3, <2>4, MessageTypes
<1> QED BY <1>6, <1>8, <1>9, <1>10, <1>11, <1>12, <1>13, <1>14, <1>15

(* The hand-shake between write-back and the cache.                        *)
LEMMA IoKept ==
  ASSUME LineShape, PathShape, IoInv, BuffersInStep, [Next]_vars
  PROVE  IoInv'
<1> DEFINE o == Head(isb_s4s5).op
<1>1. /\ rg_ioop_init => /\ isb_s4s5 # <<>> /\ Head(isb_s4s5).kind \in Io
                         /\ Head(isb_s4s5).epoch = rg_epoch
                         /\ \E place \in Places : IoAt(place, o)
      /\ ~rg_ioop_init => IoAt("none", None)
      /\ rg_ioop_init \in BOOLEAN /\ isb_s4s5 \in Seq(Flight)
  BY DEF IoInv, PathShape
<1>2. ASSUME UNCHANGED <<rg_epoch, rg_ioop_init>>,
             rg_ioop_init => isb_s4s5' # <<>> /\ Head(isb_s4s5') = Head(isb_s4s5),
             \A place \in Places \cup {"none"} : \A e : IoAt(place, e) => IoSteps(place, e)
      PROVE  IoInv'
  <2>1. CASE rg_ioop_init
    <3>1. PICK place \in Places : IoAt(place, o)
      BY <1>1, <2>1
    <3>2. IoSteps(place, o)
      BY <1>2, <3>1
    <3>3. \E next \in Places : IoAt(next, o)'
      BY <3>2 DEF IoSteps, Places
    <3>4. \E next \in Places : IoAt(next, Head(isb_s4s5).op)'
      BY <1>2, <2>1, <3>3 DEF IoAt
    <3> QED BY <1>1, <1>2, <2>1, <3>4 DEF IoInv
  <2>2. CASE ~rg_ioop_init
    <3>1. IoSteps("none", None)
      BY <1>1, <1>2, <2>2
    <3>2. IoAt("none", None)'
      BY <3>1 DEF IoSteps
    <3> QED BY <1>2, <2>2, <3>2 DEF IoInv
  <2> QED BY <1>1, <2>1, <2>2
<1>3. ASSUME UNCHANGED <<lineVars, wr_ioop_response>>, NEW place, NEW e, IoAt(place, e)
      PROVE  IoSteps(place, e)
  BY <1>3 DEF IoSteps, IoAt, Pend, lineVars, requests, responses, fabricVars
<1>4. ASSUME NEW x, isb_s4s5' = Append(isb_s4s5, x)
      PROVE  rg_ioop_init => isb_s4s5' # <<>> /\ Head(isb_s4s5') = Head(isb_s4s5)
  BY <1>1, <1>4
<1>5. CASE UNCHANGED <<lineVars, wr_ioop_response, rg_epoch, rg_ioop_init, isb_s4s5>>
  BY <1>1, <1>2, <1>3, <1>5
<1>6. ASSUME UNCHANGED pathVars,
             \/ UNCHANGED <<io_req, ar, accepted, aw, r, b>>
             \/ rl_handle_dmem_line_read_request \/ rl_handle_delayed_read
             \/ rl_handle_dmem_line_resp \/ rl_handle_dmem_write_request
             \/ rl_initiate_io \/ handle_dmem_line_write_resp
             \/ FabricWrite \/ (\E id \in {0, 1} : FabricRead(id))
      PROVE  IoInv'
  <2>1. UNCHANGED <<rg_epoch, rg_ioop_init, isb_s4s5, wr_ioop_response>>
    BY <1>6 DEF pathVars, pipeVars, wbVars
  <2>2. ASSUME NEW place \in Places \cup {"none"}, NEW e, IoAt(place, e)
        PROVE  IoSteps(place, e)
    BY <1>6, <2>1, <2>2, LineIoSteps
  <2> QED BY <1>1, <1>2, <2>1, <2>2
<1>7. ASSUME rl_handle_memory \/ rl_fwd_trapout PROVE IoInv'
  <2>1. /\ UNCHANGED <<lineVars, wr_ioop_response, rg_epoch, rg_ioop_init>>
        /\ UNCHANGED isb_s4s5 \/ \E x : isb_s4s5' = Append(isb_s4s5, x)
    BY <1>7 DEF rl_handle_memory, rl_fwd_trapout, Forward, pipeVars, wbVars
  <2> QED BY <1>2, <1>3, <1>4, <1>5, <2>1
<1>8. ASSUME ~rg_ioop_init, UNCHANGED <<lineVars, wr_ioop_response, rg_ioop_init>>
      PROVE  IoInv'
  BY <1>1, <1>8 DEF IoInv, IoAt, Pend, lineVars, requests, responses, fabricVars
<1>9. ASSUME rl_writeback_trap \/ rl_writeback_baseout \/ rl_writeback_memop_store
      PROVE  IoInv'
  <2>1. /\ UNCHANGED <<lineVars, wr_ioop_response, rg_ioop_init>>
        /\ Head(isb_s4s5).kind \notin Io
    BY <1>9 DEF rl_writeback_trap, rl_writeback_baseout, rl_writeback_memop_store,
                AtWb, Io, wbVars
  <2> QED BY <1>1, <1>8, <2>1
<1>10. ASSUME ~rg_ioop_init, isb_s4s5 # <<>>, Head(isb_s4s5).kind \in Io
       PROVE  /\ Head(io_buffer) = Head(isb_s4s5) /\ io_buffer # <<>>
              /\ IoAt("none", None) /\ io_req = <<>> /\ o \in Op
  <2>1. IoAt("none", None)
    BY <1>1, <1>10
  <2>2. wr_ioop_response = None /\ io_req = <<>>
    BY <2>1 DEF IoAt
  <2>3. Head(isb_s4s5) \in Flight
    BY <1>1, <1>10, HeadTail
  <2>4. o \in Op
    BY <1>10, <2>3 DEF Flight, Ops, Io
  <2> QED BY <1>10, <2>1, <2>2, <2>4, OldestIo
<1>11. ASSUME rl_writeback_memop_init PROVE IoInv'
  <2>1. /\ ~rg_ioop_init /\ rg_ioop_init' = TRUE /\ isb_s4s5 # <<>>
        /\ Head(isb_s4s5).kind \in Io /\ Head(isb_s4s5).epoch = rg_epoch
        /\ UNCHANGED <<isb_s4s5, rg_epoch, wr_ioop_response>>
    BY <1>11 DEF rl_writeback_memop_init, AtWb, epochs_match, pipeVars
  <2>2. io_req' = Append(io_req, IoRequest(Head(isb_s4s5)))
    BY <1>10, <1>11, <2>1 DEF rl_writeback_memop_init, ma_commit_io
  <2>3. Len(io_req') = 1 /\ io_req'[1].op = o
    BY <1>10, <2>1, <2>2 DEF IoRequest
  <2>4. UNCHANGED <<ar, accepted, aw, r, b>>
    BY <1>11 DEF rl_writeback_memop_init, ma_commit_io, requests, responses, fabricVars
  <2>5. IoAt("request", o)'
    BY <1>10, <2>1, <2>3, <2>4 DEF IoAt, IoIn, Pend
  <2> QED BY <2>1, <2>5 DEF IoInv, Places
<1>12. ASSUME rl_writeback_memop_done PROVE IoInv'
  <2>1. /\ rg_ioop_init /\ rg_ioop_init' = FALSE
        /\ wr_ioop_response # None /\ wr_ioop_response' = None /\ UNCHANGED lineVars
    BY <1>12 DEF rl_writeback_memop_done
  <2>2. PICK place \in Places : IoAt(place, o)
    BY <1>1, <2>1
  <2>3. place = "answer"
    BY <2>1, <2>2 DEF IoAt
  <2>4. IoAt("none", None)'
    BY <2>1, <2>2, <2>3
    DEF IoAt, IoIn, Pend, lineVars, requests, responses, fabricVars
  <2> QED BY <2>1, <2>4 DEF IoInv
<1>13. ASSUME rl_writeback_memop_drop PROVE IoInv'
  <2>1. /\ isb_s4s5 # <<>> /\ Head(isb_s4s5).kind \in Io /\ Head(isb_s4s5).epoch # rg_epoch
        /\ UNCHANGED <<rg_epoch, rg_ioop_init, wr_ioop_response>>
    BY <1>13 DEF rl_writeback_memop_drop, AtWb, epochs_match, wbVars
  <2>2. ~rg_ioop_init
    BY <1>1, <2>1
  <2>3. UNCHANGED lineVars
    BY <1>10, <1>13, <2>1, <2>2
    DEF rl_writeback_memop_drop, ma_commit_io, lineVars
  <2> QED BY <1>8, <2>1, <2>2, <2>3
<1>14. ASSUME IoRead PROVE IoInv'
  <2>1. /\ IoAnswer(r) # {} /\ r' = Tail(r) /\ \E a \in IoAnswer(r) : wr_ioop_response' = a.of
        /\ UNCHANGED <<io_req, ar, accepted, aw, b, rg_epoch, rg_ioop_init, isb_s4s5>>
    BY <1>14 DEF IoRead, rl_handle_io_read_response, IoResponse, requests, fabricVars,
                 wbVars, pipeVars
  <2>2. r \in Seq(DataMsg)
    BY DEF LineShape
  <2>3. /\ rg_ioop_init /\ wr_ioop_response' = o /\ r # <<>> /\ IoAt("data", o)
    BY <2>1, <2>2, AnswerComes
  <2>4. r[1].id = 1
    BY <2>1, <2>2, AnswerComes
  <2>5. IoIn(r', FALSE, o)
    <3>1. 1 \in DOMAIN r /\ Without(r, 1, r') /\ IoIn(r, TRUE, o)
      BY <2>1, <2>2, <2>3, TailWithout DEF IoAt
    <3> QED BY <2>2, <2>4, <3>1, IoRemove
  <2>6. IoAt("answer", o)'
    BY <2>1, <2>3, <2>5 DEF IoAt, IoIn, Pend
  <2> QED BY <1>1, <2>1, <2>3, <2>6 DEF IoInv, Places
<1>15. ASSUME IoWritten PROVE IoInv'
  <2>1. /\ IoAnswer(b) # {} /\ b' = Tail(b) /\ \E a \in IoAnswer(b) : wr_ioop_response' = a.of
        /\ UNCHANGED <<io_req, ar, accepted, aw, r, rg_epoch, rg_ioop_init, isb_s4s5>>
    BY <1>15 DEF IoWritten, rl_handle_io_write_resp, IoResponse, requests, fabricVars,
                 wbVars, pipeVars
  <2>2. b \in Seq(Msg)
    BY DEF LineShape
  <2>3. /\ rg_ioop_init /\ wr_ioop_response' = o /\ b # <<>>
        /\ IoAt(IF b = r THEN "data" ELSE "response", o)
    BY <2>1, <2>2, AnswerComes
  <2>4. b[1].id = 1 /\ 1 \in DOMAIN b
    BY <2>1, <2>2, <2>3, AnswerComes
  <2>5. IoAt("response", o)
    BY <2>3, <2>4 DEF IoAt, IoIn, NoIo
  <2>6. IoIn(b', FALSE, o)
    <3>1. 1 \in DOMAIN b /\ Without(b, 1, b') /\ IoIn(b, TRUE, o)
      BY <2>1, <2>2, <2>3, <2>5, TailWithout DEF IoAt
    <3> QED BY <2>2, <2>4, <3>1, IoRemove
  <2>7. IoAt("answer", o)'
    BY <2>1, <2>3, <2>5, <2>6 DEF IoAt, IoIn, Pend
  <2> QED BY <1>1, <2>1, <2>3, <2>7 DEF IoInv, Places
<1>16. ASSUME UNCHANGED pathVars,
              \/ \E l \in Line : Evict(l) \/ Miss(l)
              \/ rl_dmem_burst_write_data
       PROVE  IoInv'
  <2>1. UNCHANGED <<io_req, ar, accepted, aw, r, b>>
    BY <1>16 DEF Evict, Miss, rl_dmem_burst_write_data, requests, responses, fabricVars
  <2> QED BY <1>6, <1>16, <2>1
<1>17. ASSUME UNCHANGED vars PROVE IoInv'
  <2>1. UNCHANGED pathVars /\ UNCHANGED <<io_req, ar, accepted, aw, r, b>>
    BY <1>17 DEF vars, lineVars, requests, responses, fabricVars
  <2> QED BY <1>6, <2>1
<1>18. ASSUME Stage3 \/ CacheAnswers PROVE IoInv'
  BY <1>5, <1>18 DEF Stage3, rl_exe_base_memory, CacheAnswers, wbVars, pipeVars
<1>19. CASE Next
  BY <1>6, <1>7, <1>9, <1>11, <1>12, <1>13, <1>14, <1>15, <1>16, <1>18, <1>19
  DEF Next, Stage4, Stage5, CacheEvicts, CacheMisses, LineReads, DelayedReads, LineWrites,
      InitiateIo, LineFilled, LineWritten, FabricWrites, FabricReads
<1> QED BY <1>17, <1>19

-----------------------------------------------------------------------------
(* Bursts, evictions and memory.  A step of the write channel adds one     *)
(* beat, of the last message or of a new one, or takes the first beat.     *)

(* The next beat, of the last message or of a message that goes with it.   *)
NextBeat(W, P, P1, c, c1, v, v1, beat) ==
  /\ W \in Seq(Beats) /\ P \in Seq(Msg) /\ P1 \in Seq(Msg) /\ beat \in Beats
  /\ c \in 0 .. BEATS - 1 /\ c1 \in 0 .. BEATS - 1
  /\ \A n \in 1 .. Len(P) : v1[n] = v[n]
  /\ IF c = 0 THEN \E m \in Msg : P1 = Append(P, m) ELSE P1 = P
  /\ P1[Len(P1)].id = 1 => c = 0
  /\ P1[Len(P1)].id = 0 => beat.data = [part |-> c, val |-> v1[Len(P1)]]
  /\ beat.last <=> (P1[Len(P1)].id = 1 \/ c = BEATS - 1)
  /\ c1 = IF beat.last THEN 0 ELSE c + 1

LEMMA BeatAdded ==
  ASSUME NEW W, NEW P, NEW P1, NEW c, NEW c1, NEW a, NEW v, NEW v1, NEW beat,
         Carried(W, P, c, a, v), NextBeat(W, P, P1, c, c1, v, v1, beat)
  PROVE  Carried(Append(W, beat), P1, c1, a, v1)
<1>t. /\ W \in Seq(Beats) /\ P \in Seq(Msg) /\ P1 \in Seq(Msg) /\ beat \in Beats
      /\ c \in 0 .. BEATS - 1 /\ c1 \in 0 .. BEATS - 1
      /\ \A n \in 1 .. Len(P) : v1[n] = v[n]
  BY DEF NextBeat
<1>0. /\ c = 0 => \E m \in Msg : P1 = Append(P, m)
      /\ c # 0 => P1 = P
      /\ P1[Len(P1)].id = 1 => c = 0
      /\ P1[Len(P1)].id = 0 => beat.data = [part |-> c, val |-> v1[Len(P1)]]
      /\ beat.last <=> (P1[Len(P1)].id = 1 \/ c = BEATS - 1)
      /\ c1 = IF beat.last THEN 0 ELSE c + 1
  BY DEF NextBeat
<1>1. PICK N \in Nat \ {0}, L \in Nat : N = Len(W) + 1 /\ L = Len(P)
  BY <1>t
<1>2. PICK L1 \in Nat : L1 = Len(P1) /\ L1 = IF c = 0 THEN L + 1 ELSE L
  <2>1. c = 0 => Len(P1) = Len(P) + 1
    BY <1>t, <1>0
  <2>2. c # 0 => Len(P1) = Len(P)
    BY <1>0
  <2>3. Len(P1) \in Nat
    BY <1>t
  <2> QED BY <1>1, <2>1, <2>2, <2>3
<1>3. /\ 1 .. Len(W) = 1 .. N - 1 /\ Len(Append(W, beat)) = N
      /\ Append(W, beat)[N] = beat /\ \A k \in 1 .. N - 1 : Append(W, beat)[k] = W[k]
      /\ \A k \in 1 .. L : P1[k] = P[k]
  <2>1. c = 0 => \A k \in 1 .. Len(P) : P1[k] = P[k]
    BY <1>t, <1>0
  <2>2. c # 0 => P1 = P
    BY <1>0
  <2>3. /\ 1 .. Len(W) = 1 .. N - 1 /\ Len(Append(W, beat)) = N
        /\ Append(W, beat)[N] = beat /\ \A k \in 1 .. N - 1 : Append(W, beat)[k] = W[k]
    BY <1>t, <1>1
  <2> QED BY <1>1, <2>1, <2>2, <2>3
<1>4. PICK g \in [1 .. N -> 1 .. L + 1], p \in [1 .. N -> 0 .. BEATS - 1] :
        BeatsInv(W, P, c, a, v, g, p)
  BY <1>1 DEF Carried
<1>5. /\ g[1] = 1 /\ p[1] = a /\ p[N] = c /\ g[N] = L1
      /\ \A i, j \in 1 .. N : i <= j => g[i] <= g[j]
      /\ \A k \in 1 .. N - 1 : BeatInv(W, P, v, g, p, k)
  BY <1>1, <1>2, <1>4 DEF BeatsInv
<1> DEFINE g1 == [k \in 1 .. N + 1 |-> IF k = N + 1 THEN IF beat.last THEN L1 + 1 ELSE L1 ELSE g[k]]
           p1 == [k \in 1 .. N + 1 |-> IF k = N + 1 THEN c1 ELSE p[k]]
<1>6. /\ g1 \in [1 .. N + 1 -> 1 .. L1 + 1] /\ p1 \in [1 .. N + 1 -> 0 .. BEATS - 1]
      /\ g1[N + 1] = (IF beat.last THEN L1 + 1 ELSE L1)
      /\ p1[N + 1] = c1
      /\ \A k \in 1 .. N : g1[k] = g[k] /\ p1[k] = p[k]
  <2>1. \A k \in 1 .. N : g[k] \in 1 .. L1 + 1
    BY <1>2, <1>4
  <2>2. L1 \in 1 .. L1 + 1 /\ L1 + 1 \in 1 .. L1 + 1
    BY <1>4, <1>5
  <2>3. /\ N + 1 \in 1 .. N + 1
        /\ \A k \in 1 .. N : k \in 1 .. N + 1 /\ k # N + 1
        /\ \A k \in 1 .. N + 1 : k = N + 1 \/ k \in 1 .. N
    OBVIOUS
  <2>4. /\ g1[N + 1] = (IF beat.last THEN L1 + 1 ELSE L1) /\ p1[N + 1] = c1
        /\ \A k \in 1 .. N : g1[k] = g[k] /\ p1[k] = p[k]
    BY <2>3
  <2>5. \A k \in 1 .. N + 1 : g1[k] \in 1 .. L1 + 1 /\ p1[k] \in 0 .. BEATS - 1
    <3> HIDE DEF g1, p1
    <3>1. g1[N + 1] \in 1 .. L1 + 1 /\ p1[N + 1] \in 0 .. BEATS - 1
      BY <1>t, <2>2, <2>4
    <3>2. \A k \in 1 .. N : g1[k] \in 1 .. L1 + 1 /\ p1[k] \in 0 .. BEATS - 1
      BY <1>4, <2>1, <2>4
    <3> QED BY <2>3, <3>1, <3>2
  <2>6. g1 \in [1 .. N + 1 -> 1 .. L1 + 1] /\ p1 \in [1 .. N + 1 -> 0 .. BEATS - 1]
    BY <2>5
  <2> QED BY <2>4, <2>6
<1> HIDE DEF g1, p1
<1>7. \A i, j \in 1 .. N + 1 : i <= j => g1[i] <= g1[j]
  <2>1. ASSUME NEW i \in 1 .. N + 1, NEW j \in 1 .. N + 1, i <= j PROVE g1[i] <= g1[j]
    <3>1. CASE j \in 1 .. N
      <4>1. i \in 1 .. N
        BY <2>1, <3>1
      <4> QED BY <1>5, <1>6, <2>1, <3>1, <4>1
    <3>2. CASE j = N + 1 /\ i \in 1 .. N
      <4>1. g1[i] = g[i] /\ g[i] <= g[N] /\ g[i] \in Nat
        BY <1>4, <1>5, <1>6, <3>2
      <4> QED BY <1>2, <1>5, <1>6, <3>2, <4>1
    <3>3. CASE i = N + 1 /\ j = N + 1
      BY <1>6, <3>3
    <3> QED BY <2>1, <3>1, <3>2, <3>3
  <2> QED BY <2>1
<1>8. ASSUME NEW k \in 1 .. N
      PROVE  BeatInv(Append(W, beat), P1, v1, g1, p1, k)
  <2>1. CASE k = N
    <3>1. /\ g1[k] = L1 /\ p1[k] = c /\ Append(W, beat)[k] = beat
          /\ g1[k + 1] = (IF beat.last THEN L1 + 1 ELSE L1) /\ p1[k + 1] = c1
      BY <1>3, <1>5, <1>6, <2>1
    <3> QED BY <1>t, <1>0, <1>2, <3>1 DEF BeatInv
  <2>2. CASE k \in 1 .. N - 1
    <3>1. k + 1 \in 1 .. N /\ BeatInv(W, P, v, g, p, k)
      BY <1>5, <2>2
    <3>2. g[k] \in 1 .. L
      <4>1. g[k] <= Len(P)
        BY <3>1, Zenon DEF BeatInv
      <4> QED BY <1>1, <1>4, <4>1
    <3>3. /\ P1[g[k]] = P[g[k]] /\ v1[g[k]] = v[g[k]] /\ g[k] <= L1
          /\ Append(W, beat)[k] = W[k]
          /\ g1[k] = g[k] /\ g1[k + 1] = g[k + 1] /\ p1[k] = p[k] /\ p1[k + 1] = p[k + 1]
      <4>1. k \in 1 .. N /\ k \in Int /\ Append(W, beat)[k] = W[k]
        BY <1>t, <1>2, <1>3, <2>2
      <4>2. g1[k] = g[k] /\ g1[k + 1] = g[k + 1] /\ p1[k] = p[k] /\ p1[k + 1] = p[k + 1]
        BY <1>6, <3>1, <4>1, Zenon
      <4>3. P1[g[k]] = P[g[k]] /\ v1[g[k]] = v[g[k]] /\ g[k] <= L1
        BY <1>t, <1>1, <1>2, <1>3, <3>2
      <4> QED BY <4>1, <4>2, <4>3
    <3> QED BY <1>2, <3>1, <3>3 DEF BeatInv
  <2> QED BY <2>1, <2>2
<1>9. BeatsInv(Append(W, beat), P1, c1, a, v1, g1, p1)
  <2>1. 1 \in 1 .. N /\ (c1 = 0 <=> beat.last)
    BY <1>t, <1>0, <1>1
  <2>2. g1[1] = 1 /\ p1[1] = a /\ p1[N + 1] = c1
        /\ g1[N + 1] = IF c1 = 0 THEN L1 + 1 ELSE L1
    BY <1>5, <1>6, <2>1
  <2> QED BY <1>2, <1>3, <1>7, <1>8, <2>2 DEF BeatsInv
<1> QED BY <1>2, <1>3, <1>6, <1>9 DEF Carried

LEMMA FirstBeat ==
  ASSUME NEW W \in Seq(Beats), NEW P \in Seq(Msg), W # <<>>,
         NEW c \in 0 .. BEATS - 1, NEW a, NEW v, Carried(W, P, c, a, v)
  PROVE  /\ P # <<>> /\ a \in 0 .. BEATS - 1
         /\ P[1].id = 1 => a = 0
         /\ P[1].id = 0 => Head(W).data = [part |-> a, val |-> v[1]]
         /\ Head(W).last <=> (P[1].id = 1 \/ a = BEATS - 1)
         /\ Head(W).last /\ c # 0 => Len(P) > 1
<1>1. PICK g \in [1 .. Len(W) + 1 -> 1 .. Len(P) + 1], p \in [1 .. Len(W) + 1 -> 0 .. BEATS - 1] :
        BeatsInv(W, P, c, a, v, g, p)
  BY DEF Carried
<1>2. 1 \in 1 .. Len(W) /\ 1 \in 1 .. Len(W) + 1 /\ Head(W) = W[1] /\ Len(P) \in Nat
  BY HeadTail
<1>3. BeatInv(W, P, v, g, p, 1) /\ g[1] = 1 /\ p[1] = a /\ p[1] \in 0 .. BEATS - 1
  BY <1>1, <1>2 DEF BeatsInv
<1>4. Len(P) >= 1
  BY <1>2, <1>3 DEF BeatInv
<1>5. ASSUME Head(W).last, c # 0 PROVE Len(P) > 1
  <2>1. g[2] = 2
    <3>1. g[1 + 1] = IF W[1].last THEN g[1] + 1 ELSE g[1]
      BY <1>3, Zenon DEF BeatInv
    <3> QED BY <1>2, <1>3, <1>5, <3>1
  <2>2. 2 \in 1 .. Len(W) + 1 /\ Len(W) + 1 \in 1 .. Len(W) + 1 /\ 2 <= Len(W) + 1
    BY <1>2
  <2>3. g[2] <= g[Len(W) + 1] /\ g[Len(W) + 1] = Len(P)
    BY <1>1, <1>5, <2>2 DEF BeatsInv
  <2> QED BY <1>2, <2>1, <2>3
<1> QED BY <1>2, <1>3, <1>4, <1>5 DEF BeatInv

LEMMA MinusKeepsOrder == \A x, y, z \in Int : x <= y => x - z <= y - z
OBVIOUS

LEMMA BeatTaken ==
  ASSUME NEW W \in Seq(Beats), NEW P \in Seq(Msg), W # <<>>,
         NEW c \in 0 .. BEATS - 1, NEW a, NEW v, Carried(W, P, c, a, v),
         NEW P1 \in Seq(Msg), NEW v1, NEW a1,
         IF Head(W).last
         THEN /\ P1 = Tail(P) /\ a1 = 0
              /\ \A n \in 1 .. Len(P) - 1 : v1[n] = v[n + 1]
         ELSE P1 = P /\ a1 = a + 1 /\ v1 = v
  PROVE  Carried(Tail(W), P1, c, a1, v1)
<1>0. P # <<>>
  BY FirstBeat
<1>1. PICK N \in Nat, L \in Nat : N = Len(W) - 1 /\ L = Len(P) /\ L >= 1
  <2>1. Len(W) \in Nat \ {0} /\ Len(P) \in Nat \ {0}
    BY <1>0, HeadTail
  <2>2. Len(W) - 1 \in Nat /\ Len(P) \in Nat /\ Len(P) >= 1
    BY <2>1
  <2> QED BY <2>2, Zenon
<1>2. /\ Tail(W) \in Seq(Beats) /\ Len(Tail(W)) = N /\ Head(W) = W[1]
      /\ \A k \in 1 .. N : Tail(W)[k] = W[k + 1]
  BY <1>1, HeadTail
<1>3. PICK g \in [1 .. N + 2 -> 1 .. L + 1], p \in [1 .. N + 2 -> 0 .. BEATS - 1] :
        BeatsInv(W, P, c, a, v, g, p)
  BY <1>1 DEF Carried
<1>4. /\ g[1] = 1 /\ p[1] = a /\ p[N + 2] = c /\ g[N + 2] = (IF c = 0 THEN L + 1 ELSE L)
      /\ \A i, j \in 1 .. N + 2 : i <= j => g[i] <= g[j]
      /\ \A k \in 1 .. N + 1 : BeatInv(W, P, v, g, p, k)
  BY <1>1, <1>3 DEF BeatsInv
<1>5. 1 \in 1 .. N + 1 /\ 2 \in 1 .. N + 2 /\ 1 + 1 = 2
  BY <1>1
<1>6. /\ g[2] = (IF Head(W).last THEN 2 ELSE 1)
      /\ p[2] = (IF Head(W).last THEN 0 ELSE a + 1)
  <2>1. BeatInv(W, P, v, g, p, 1)
    BY <1>4, <1>5
  <2>2. /\ g[1 + 1] = (IF W[1].last THEN g[1] + 1 ELSE g[1])
        /\ p[1 + 1] = (IF W[1].last THEN 0 ELSE p[1] + 1)
    BY <2>1, Zenon DEF BeatInv
  <2> QED BY <1>2, <1>4, <1>5, <2>2
<1> DEFINE d == IF Head(W).last THEN 1 ELSE 0
           g1 == [k \in 1 .. N + 1 |-> g[k + 1] - d]
           p1 == [k \in 1 .. N + 1 |-> p[k + 1]]
<1>7. /\ d \in {0, 1} /\ Len(P1) = L - d
      /\ \A n \in 1 .. L - d : P1[n] = P[n + d] /\ v1[n] = v[n + d]
      /\ p[2] = a1 /\ g[2] = 1 + d
  <2>1. CASE Head(W).last
    <3>1. Len(P1) = L - 1 /\ \A n \in 1 .. L - 1 : P1[n] = P[n + 1]
      BY <1>0, <1>1, <2>1, HeadTail
    <3> QED BY <1>1, <1>6, <2>1, <3>1
  <2>2. CASE ~Head(W).last
    BY <1>1, <1>6, <2>2
  <2> QED BY <2>1, <2>2
<1> HIDE DEF d
<1>8. \A k \in 1 .. N + 1 : /\ k + 1 \in 1 .. N + 2 /\ g[k + 1] \in 1 + d .. L + 1
                            /\ p[k + 1] \in 0 .. BEATS - 1
  <2>1. ASSUME NEW k \in 1 .. N + 1 PROVE g[k + 1] \in 1 + d .. L + 1
    <3>1. k + 1 \in 1 .. N + 2 /\ 2 <= k + 1
      BY <1>1
    <3>2. g[2] <= g[k + 1] /\ g[k + 1] \in 1 .. L + 1
      BY <1>3, <1>4, <1>5, <3>1
    <3> QED BY <1>1, <1>7, <3>2
  <2>2. ASSUME NEW k \in 1 .. N + 1
        PROVE  k + 1 \in 1 .. N + 2 /\ p[k + 1] \in 0 .. BEATS - 1
    <3>1. k + 1 \in 1 .. N + 2
      BY <1>1
    <3> QED BY <1>3, <3>1, Zenon
  <2> QED BY <2>1, <2>2, Zenon
<1>9. /\ g1 \in [1 .. N + 1 -> 1 .. Len(P1) + 1] /\ p1 \in [1 .. N + 1 -> 0 .. BEATS - 1]
      /\ \A k \in 1 .. N + 1 : g1[k] = g[k + 1] - d /\ p1[k] = p[k + 1]
  <2>1. \A k \in 1 .. N + 1 : g[k + 1] - d \in 1 .. Len(P1) + 1
    BY SMTT(20), <1>1, <1>7, <1>8
  <2> QED BY <1>8, <2>1
<1> HIDE DEF g1, p1
<1>10. \A i, j \in 1 .. N + 1 : i <= j => g1[i] <= g1[j]
  <2>1. ASSUME NEW i \in 1 .. N + 1, NEW j \in 1 .. N + 1, i <= j PROVE g1[i] <= g1[j]
    <3>1. i + 1 <= j + 1 /\ i + 1 \in 1 .. N + 2 /\ j + 1 \in 1 .. N + 2
      BY <1>1, <2>1
    <3>2. g[i + 1] <= g[j + 1]
      BY <1>4, <3>1
    <3>3. g1[i] = g[i + 1] - d /\ g1[j] = g[j + 1] - d
      BY <1>9
    <3>4. g[i + 1] \in Nat /\ g[j + 1] \in Nat
      BY <1>3, <3>1
    <3>5. d \in Int /\ g[i + 1] \in Int /\ g[j + 1] \in Int
      <4>1. d \in {0, 1}
        BY <1>7
      <4> QED BY <3>4, <4>1
    <3>6. g[i + 1] - d <= g[j + 1] - d
      BY <3>2, <3>5, MinusKeepsOrder, Zenon
    <3> QED BY <3>3, <3>6
  <2> QED BY <2>1
<1>11. ASSUME NEW k \in 1 .. N
       PROVE  BeatInv(Tail(W), P1, v1, g1, p1, k)
  <2>1. /\ k \in 1 .. N + 1 /\ k + 1 \in 1 .. N + 1 /\ BeatInv(W, P, v, g, p, k + 1)
        /\ Tail(W)[k] = W[k + 1]
    BY <1>1, <1>2, <1>4
  <2>2. /\ g1[k] = g[k + 1] - d /\ g1[k + 1] = g[k + 1 + 1] - d
        /\ p1[k] = p[k + 1] /\ p1[k + 1] = p[k + 1 + 1]
    BY <1>9, <2>1
  <2>3. g[k + 1] \in 1 + d .. L
    <3>1. g[k + 1] <= L
      BY <1>1, <2>1, Zenon DEF BeatInv
    <3>2. g[k + 1] \in 1 + d .. L + 1
      BY <1>8, <2>1, Zenon
    <3>3. d \in {0, 1}
      BY <1>7
    <3> QED BY SMTT(20), <1>1, <3>1, <3>2, <3>3
  <2>4. g1[k] \in 1 .. L - d /\ g1[k] + d = g[k + 1]
    <3>1. d \in {0, 1} /\ g1[k] = g[k + 1] - d
      BY <1>7, <2>2
    <3> QED BY SMTT(20), <1>1, <2>3, <3>1
  <2>5. P1[g1[k]] = P[g[k + 1]] /\ v1[g1[k]] = v[g[k + 1]]
    BY <1>7, <2>4
  <2>6. /\ g[k + 1 + 1] = (IF W[k + 1].last THEN g[k + 1] + 1 ELSE g[k + 1])
        /\ P[g[k + 1]].id = 1 => p[k + 1] = 0
        /\ P[g[k + 1]].id = 0 => W[k + 1].data = [part |-> p[k + 1], val |-> v[g[k + 1]]]
        /\ W[k + 1].last <=> (P[g[k + 1]].id = 1 \/ p[k + 1] = BEATS - 1)
        /\ p[k + 1 + 1] = (IF W[k + 1].last THEN 0 ELSE p[k + 1] + 1)
    BY <2>1, Zenon DEF BeatInv
  <2>7. g1[k + 1] = IF W[k + 1].last THEN g1[k] + 1 ELSE g1[k]
    <3>1. d \in {0, 1} /\ g[k + 1] \in Nat
      BY <1>1, <1>7, <2>3
    <3> QED BY <2>2, <2>6, <3>1
  <2>8. g1[k] <= Len(P1)
    BY <1>1, <1>7, <2>4
  <2> QED BY <2>1, <2>2, <2>5, <2>6, <2>7, <2>8, Zenon DEF BeatInv
<1>12. BeatsInv(Tail(W), P1, c, a1, v1, g1, p1)
  <2>1. 1 \in 1 .. N + 1 /\ N + 1 \in 1 .. N + 1 /\ N + 1 + 1 = N + 2
    BY <1>1
  <2>2. /\ g1[1] = 1 /\ p1[1] = a1 /\ p1[N + 1] = c
        /\ g1[N + 1] = IF c = 0 THEN Len(P1) + 1 ELSE Len(P1)
    BY <1>1, <1>4, <1>5, <1>7, <1>9, <2>1
  <2> QED BY <1>2, <1>10, <1>11, <2>2 DEF BeatsInv
<1> QED BY <1>2, <1>9, <1>12 DEF Carried

(* The newest version of a line, by what a step does to the evictions, the *)
(* messages and memory.                                                    *)
LEMMA NewestEvicted ==
  ASSUME NEW E \in Seq(Eviction), NEW P, NEW v, NEW memory, NEW l, NEW x, NEW y,
         NEW e \in Eviction, Newest(E, P, v, memory, l, x),
         IF e.line = l THEN y = e.val ELSE y = x
  PROVE  Newest(Append(E, e), P, v, memory, l, y)
<1>1. PICK N \in Nat : N = Len(E)
  OBVIOUS
<1>2. /\ DOMAIN E = 1 .. N /\ DOMAIN Append(E, e) = 1 .. N + 1
      /\ Append(E, e)[N + 1] = e /\ \A n \in 1 .. N : Append(E, e)[n] = E[n]
  BY <1>1
<1> DEFINE E1 == Append(E, e)
<1> HIDE DEF E1
<1>3. /\ DOMAIN E = 1 .. N /\ DOMAIN E1 = 1 .. N + 1 /\ E1[N + 1] = e
      /\ \A n \in 1 .. N : E1[n] = E[n]
      /\ N + 1 \in 1 .. N + 1 /\ \A n \in 1 .. N : n \in 1 .. N + 1 /\ N + 1 > n
  BY <1>1, <1>2 DEF E1
<1>4. CASE e.line = l
  BY <1>3, <1>4 DEF Newest, E1
<1>5. CASE e.line # l
  <2>1. \A n \in 1 .. N + 1 : E1[n].line = l => n \in 1 .. N
    BY <1>1, <1>3, <1>5
  <2>2. (\A m \in DOMAIN E1 : E1[m].line # l) => (\A m \in DOMAIN E : E[m].line # l)
    BY <1>3
  <2>3. ASSUME NEW n \in 1 .. N, E1[n].line = l, \A m \in DOMAIN E1 : m > n => E1[m].line # l
        PROVE  E1[n].val = x
    <3>1. E[n].line = l /\ \A m \in DOMAIN E : m > n => E[m].line # l
      BY <1>3, <2>3
    <3> QED BY <1>3, <3>1 DEF Newest
  <2> QED BY <1>3, <1>5, <2>1, <2>2, <2>3 DEF Newest, E1
<1> QED BY <1>4, <1>5

LEMMA NewestSent ==
  ASSUME NEW E, NEW P \in Seq(Msg), NEW v, NEW v1, NEW memory, NEW l, NEW x,
         NEW m \in Msg, Newest(E, P, v, memory, l, x),
         \A n \in 1 .. Len(P) : v1[n] = v[n],
         m.of = l => \E n \in DOMAIN E : E[n].line = l
  PROVE  Newest(E, Append(P, m), v1, memory, l, x)
<1>1. PICK N \in Nat : N = Len(P)
  OBVIOUS
<1> DEFINE P1 == Append(P, m)
<1>2. /\ DOMAIN P = 1 .. N /\ DOMAIN P1 = 1 .. N + 1 /\ P1[N + 1] = m
      /\ \A n \in 1 .. N : P1[n] = P[n] /\ v1[n] = v[n] /\ n \in 1 .. N + 1
      /\ \A n \in 1 .. N + 1 : n = N + 1 \/ n \in 1 .. N
  BY <1>1
<1> HIDE DEF P1
<1>3. CASE \E n \in DOMAIN E : E[n].line = l
  BY <1>3 DEF Newest
<1>4. CASE \A n \in DOMAIN E : E[n].line # l
  <2>1. m.of # l
    BY <1>4
  <2>2. ASSUME NEW n \in DOMAIN P1, P1[n].of = l, \A k \in DOMAIN P1 : k > n => P1[k].of # l
        PROVE  v1[n] = x
    <3>1. n \in 1 .. N /\ P[n].of = l /\ \A k \in DOMAIN P : k > n => P[k].of # l
      BY <1>2, <2>1, <2>2
    <3> QED BY <1>2, <1>4, <3>1 DEF Newest
  <2>3. (\A k \in DOMAIN P1 : P1[k].of # l) => (\A k \in DOMAIN P : P[k].of # l)
    BY <1>2
  <2>4. Newest(E, P1, v1, memory, l, x)
    BY <1>4, <2>2, <2>3 DEF Newest
  <2> QED BY <2>4 DEF P1
<1> QED BY <1>3, <1>4

LEMMA NewestSentWhole ==
  ASSUME NEW E \in Seq(Eviction), E # <<>>, NEW P \in Seq(Msg), P # <<>>,
         NEW v, NEW memory, NEW l, NEW x, Newest(E, P, v, memory, l, x),
         P[Len(P)].of = Head(E).line, v[Len(P)] = Head(E).val
  PROVE  Newest(Tail(E), P, v, memory, l, x)
<1>1. PICK N \in Nat, L \in Nat \ {0} : N = Len(E) - 1 /\ L = Len(P)
  BY HeadTail
<1> DEFINE E1 == Tail(E)
<1>2. /\ DOMAIN E = 1 .. N + 1 /\ DOMAIN E1 = 1 .. N /\ DOMAIN P = 1 .. L
      /\ Head(E) = E[1] /\ \A n \in 1 .. N : E1[n] = E[n + 1]
      /\ \A n \in 1 .. N : n + 1 \in 1 .. N + 1
      /\ \A n \in 1 .. N + 1 : n = 1 \/ n > 1
  BY <1>1, HeadTail
<1> HIDE DEF E1
<1>3. ASSUME NEW n \in DOMAIN E1, E1[n].line = l, \A m \in DOMAIN E1 : m > n => E1[m].line # l
      PROVE  E1[n].val = x
  <2>1. n + 1 \in DOMAIN E /\ E[n + 1].line = l /\ E1[n] = E[n + 1]
    BY <1>2, <1>3
  <2>2. ASSUME NEW m \in DOMAIN E, m > n + 1 PROVE E[m].line # l
    <3>1. n \in 1 .. N /\ m \in 1 .. N + 1
      BY <1>2, <1>3
    <3>2. m - 1 \in 1 .. N /\ m - 1 > n /\ m - 1 + 1 = m
      BY <2>2, <3>1
    <3>3. E1[m - 1] = E[m] /\ m - 1 \in DOMAIN E1
      BY <1>2, <3>2
    <3> QED BY <1>3, <3>2, <3>3
  <2> QED BY <2>1, <2>2 DEF Newest
<1>4. ASSUME \A m \in DOMAIN E1 : E1[m].line # l
      PROVE  /\ \A n \in DOMAIN P : P[n].of = l /\ (\A m \in DOMAIN P : m > n => P[m].of # l)
                                => v[n] = x
             /\ (\A m \in DOMAIN P : P[m].of # l) => memory = Whole(x)
  <2>1. ASSUME NEW m \in DOMAIN E, m > 1 PROVE E[m].line # l
    <3>1. m \in 1 .. N + 1
      BY <1>2
    <3>2. m - 1 \in 1 .. N /\ m - 1 + 1 = m
      BY <2>1, <3>1
    <3>3. E1[m - 1] = E[m] /\ m - 1 \in DOMAIN E1
      BY <1>2, <3>2
    <3> QED BY <1>4, <3>3
  <2>2. L \in DOMAIN P /\ \A n \in DOMAIN P : n = L \/ L > n
    <3>1. L \in 1 .. L /\ \A n \in 1 .. L : n = L \/ L > n
      OBVIOUS
    <3> QED BY <1>2, <3>1
  <2>3. CASE E[1].line = l
    <3>1. E[1].val = x
      BY <1>2, <2>1, <2>3 DEF Newest
    <3>2. P[L].of = l /\ v[L] = x
      BY <1>1, <1>2, <2>3, <3>1
    <3> QED BY <2>2, <3>2
  <2>4. CASE E[1].line # l
    <3>1. \A m \in DOMAIN E : E[m].line # l
      BY <1>2, <2>1, <2>4
    <3> QED BY <3>1 DEF Newest
  <2> QED BY <2>3, <2>4
<1>5. Newest(E1, P, v, memory, l, x)
  BY <1>3, <1>4 DEF Newest
<1> QED BY <1>5 DEF E1

LEMMA NewestWritten ==
  ASSUME NEW E, NEW P \in Seq(Msg), P # <<>>, NEW v, NEW v1, NEW memory, NEW written,
         NEW l, NEW x, Newest(E, P, v, memory, l, x),
         \A n \in 1 .. Len(P) - 1 : v1[n] = v[n + 1],
         written = IF P[1].of = l THEN Whole(v[1]) ELSE memory
  PROVE  Newest(E, Tail(P), v1, written, l, x)
<1>1. PICK N \in Nat : N = Len(P) - 1
  BY HeadTail
<1> DEFINE P1 == Tail(P)
<1>2. /\ DOMAIN P = 1 .. N + 1 /\ DOMAIN P1 = 1 .. N
      /\ \A n \in 1 .. N : P1[n] = P[n + 1] /\ v1[n] = v[n + 1]
      /\ \A n \in 1 .. N : n + 1 \in 1 .. N + 1
      /\ \A n \in 1 .. N + 1 : n = 1 \/ n > 1
      /\ 1 \in DOMAIN P
  BY <1>1, HeadTail
<1> HIDE DEF P1
<1>3. ASSUME \A m \in DOMAIN E : E[m].line # l,
             NEW n \in DOMAIN P1, P1[n].of = l, \A m \in DOMAIN P1 : m > n => P1[m].of # l
      PROVE  v1[n] = x
  <2>1. n + 1 \in DOMAIN P /\ P[n + 1].of = l /\ v1[n] = v[n + 1]
    BY <1>2, <1>3
  <2>2. ASSUME NEW m \in DOMAIN P, m > n + 1 PROVE P[m].of # l
    <3>1. n \in 1 .. N /\ m \in 1 .. N + 1
      BY <1>2, <1>3
    <3>2. m - 1 \in 1 .. N /\ m - 1 > n /\ m - 1 + 1 = m
      BY <2>2, <3>1
    <3>3. P1[m - 1] = P[m] /\ m - 1 \in DOMAIN P1
      BY <1>2, <3>2
    <3> QED BY <1>3, <3>2, <3>3
  <2> QED BY <1>3, <2>1, <2>2 DEF Newest
<1>4. ASSUME \A m \in DOMAIN E : E[m].line # l, \A m \in DOMAIN P1 : P1[m].of # l
      PROVE  written = Whole(x)
  <2>1. ASSUME NEW m \in DOMAIN P, m > 1 PROVE P[m].of # l
    <3>1. m \in 1 .. N + 1
      BY <1>2
    <3>2. m - 1 \in 1 .. N /\ m - 1 + 1 = m
      BY <2>1, <3>1
    <3>3. P1[m - 1] = P[m] /\ m - 1 \in DOMAIN P1
      BY <1>2, <3>2
    <3> QED BY <1>4, <3>3
  <2>2. CASE P[1].of = l
    <3>1. v[1] = x
      BY <1>2, <1>4, <2>1, <2>2 DEF Newest
    <3> QED BY <2>2, <3>1
  <2>3. CASE P[1].of # l
    <3>1. \A m \in DOMAIN P : P[m].of # l
      BY <1>2, <2>1, <2>3
    <3> QED BY <1>4, <2>3, <3>1 DEF Newest
  <2> QED BY <2>2, <2>3
<1>5. Newest(E, P1, v1, written, l, x)
  BY <1>3, <1>4 DEF Newest
<1> QED BY <1>5 DEF P1

LEMMA ArrivingStays ==
  ASSUME LineShape, NEW v, NEW v1, ArrivingInv(v), UNCHANGED <<accepted, arriving>>,
         \A n \in 1 .. Len(Pend) : v1[n] = v[n]
  PROVE  ArrivingInv(v1)'
<1>1. CASE accepted = <<>>
  <2>1. arriving' = <<>> /\ DOMAIN arriving' = {}
    BY <1>1 DEF ArrivingInv
  <2> QED BY <1>1, <2>1 DEF ArrivingInv
<1>2. CASE accepted # <<>>
  <2>1. 1 \in 1 .. Len(Pend)
    BY <1>2, PendShape DEF LineShape
  <2>2. v1[1] = v[1]
    BY <2>1
  <2> QED BY <2>2 DEF ArrivingInv
<1> QED BY <1>1, <1>2

(* A message of the version x follows the others.                          *)
LEMMA Carrying ==
  ASSUME NEW P \in Seq(Msg), NEW m \in Msg, NEW v \in [DOMAIN P -> {0, 1}], NEW x \in {0, 1}
  PROVE  \E v1 \in [DOMAIN Append(P, m) -> {0, 1}] :
            v1[Len(P) + 1] = x /\ \A n \in 1 .. Len(P) : v1[n] = v[n]
<1>1. /\ DOMAIN P = 1 .. Len(P) /\ DOMAIN Append(P, m) = 1 .. Len(P) + 1
      /\ Len(P) + 1 \in 1 .. Len(P) + 1
      /\ \A n \in 1 .. Len(P) : n \in 1 .. Len(P) + 1 /\ n # Len(P) + 1
      /\ \A n \in 1 .. Len(P) + 1 : n = Len(P) + 1 \/ n \in 1 .. Len(P)
  OBVIOUS
<1> DEFINE v1 == [n \in DOMAIN Append(P, m) |-> IF n = Len(P) + 1 THEN x ELSE v[n]]
<1>2. v1 \in [DOMAIN Append(P, m) -> {0, 1}]
  BY <1>1
<1>3. v1[Len(P) + 1] = x /\ \A n \in 1 .. Len(P) : v1[n] = v[n]
  BY <1>1
<1> QED BY <1>2, <1>3

LEMMA RequestLines ==
  ASSUME LineShape, LineShape', LinesInv, rl_handle_dmem_write_request
  PROVE  LinesInv'
<1> USE LineAssumption
<1>1. PICK v \in [DOMAIN Pend -> {0, 1}] : VersionsInv(v)
  BY DEF LinesInv
<1> DEFINE e == Head(evictions)
           m == [id |-> 0, of |-> e.line]
           beat == Beat(e.line, PartAt(0), FALSE)
<1>2. /\ rg_burst_count = 0 /\ rg_burst_count' = 1 /\ wr_write_req' = e.line
      /\ aw' = Append(aw, m) /\ w' = Append(w, beat)
      /\ UNCHANGED <<evictions, last, rg_shift_amount, accepted, arriving, mem>>
  BY DEF rl_handle_dmem_write_request, cacheVars, fabricVars
<1>3. /\ evictions \in Seq(Eviction) /\ evictions # <<>> /\ e \in Eviction
      /\ e = evictions[1] /\ 1 \in DOMAIN evictions /\ e.line \in Line /\ e.val \in {0, 1}
  <2>1. evictions \in Seq(Eviction) /\ evictions # <<>>
    BY DEF LineShape, rl_handle_dmem_write_request
  <2>2. e \in Eviction /\ e = evictions[1] /\ 1 \in DOMAIN evictions
    BY <2>1, HeadTail
  <2> HIDE DEF e
  <2> QED BY <2>1, <2>2 DEF Eviction
<1>4. /\ m \in Msg /\ beat \in Beats /\ m.id = 0 /\ m.of = e.line
      /\ beat.last = FALSE /\ beat.data = [part |-> 0, val |-> e.val]
  BY <1>3 DEF Msg, Beat, Beats, PartAt, Part
<1> HIDE DEF e, m, beat
<1>5. /\ Pend \in Seq(Msg) /\ Pend' = Append(Pend, m) /\ Pend' \in Seq(Msg)
      /\ Len(Pend') = Len(Pend) + 1 /\ Pend'[Len(Pend')] = m /\ Pend' # <<>>
  <2>1. Pend \in Seq(Msg) /\ Pend' = Append(Pend, m)
    BY <1>2, PendShape, PendGrows
  <2> QED BY SMTT(20), <1>4, <2>1
<1>6. PICK v1 \in [DOMAIN Pend' -> {0, 1}] :
        v1[Len(Pend')] = e.val /\ \A n \in 1 .. Len(Pend) : v1[n] = v[n]
  <2>1. v \in [DOMAIN Pend -> {0, 1}]
    OBVIOUS
  <2>2. \E x \in [DOMAIN Append(Pend, m) -> {0, 1}] :
           x[Len(Pend) + 1] = e.val /\ \A n \in 1 .. Len(Pend) : x[n] = v[n]
    <3>1. m \in Msg /\ Pend \in Seq(Msg) /\ e.val \in {0, 1}
      BY <1>3, <1>4, <1>5
    <3> QED BY <2>1, <3>1, Carrying, SMT
  <2> QED BY <1>5, <2>2
<1>7. Carried(w, Pend, rg_burst_count, Len(arriving), v)
  BY <1>1 DEF VersionsInv
<1>8. Carried(w', Pend', rg_burst_count', Len(arriving), v1)
  <2> DEFINE P1 == Pend'  c1 == rg_burst_count'
  <2>1. /\ w \in Seq(Beats) /\ rg_burst_count \in 0 .. BEATS - 1 /\ c1 \in 0 .. BEATS - 1
        /\ 0 # BEATS - 1
    BY DEF LineShape
  <2>2. /\ P1 \in Seq(Msg) /\ P1 = Append(Pend, m)
        /\ P1[Len(P1)].id = 0 /\ v1[Len(P1)] = e.val
        /\ \A n \in 1 .. Len(Pend) : v1[n] = v[n]
    BY <1>4, <1>5, <1>6, <2>1
  <2>4. NextBeat(w, Pend, P1, rg_burst_count, c1, v, v1, beat)
    BY <1>2, <1>4, <1>5, <2>1, <2>2 DEF NextBeat
  <2> HIDE DEF P1, c1
  <2>3. Carried(Append(w, beat), P1, c1, Len(arriving), v1)
    BY <1>7, <2>4, BeatAdded
  <2> QED BY <1>2, <2>3 DEF P1, c1
<1>9. ArrivingInv(v1)'
  BY <1>1, <1>2, <1>6, ArrivingStays DEF VersionsInv
<1>10. ASSUME NEW l \in Line PROVE Newest(evictions, Pend', v1, mem[l], l, last[l])
  <2>1. Newest(evictions, Pend, v, mem[l], l, last[l])
    BY <1>1 DEF VersionsInv
  <2>2. m.of = l => \E n \in DOMAIN evictions : evictions[n].line = l
    BY <1>3, <1>4
  <2>3. Newest(evictions, Append(Pend, m), v1, mem[l], l, last[l])
    <3>1. m \in Msg /\ Pend \in Seq(Msg) /\ \A n \in 1 .. Len(Pend) : v1[n] = v[n]
      BY <1>4, <1>5, <1>6
    <3> QED BY <2>1, <2>2, <3>1, NewestSent, Zenon
  <2> QED BY <1>5, <2>3
<1>11. BurstInv'
  <2>1. Pend'[Len(Pend')] = [id |-> 0, of |-> e.line]
    BY <1>5 DEF m
  <2>2. rg_shift_amount = 1
    BY <1>2 DEF LinesInv, BurstInv
  <2> QED BY <1>2, <1>3, <1>5, <2>1, <2>2 DEF BurstInv, e
<1>12. VersionsInv(v1)'
  BY <1>2, <1>6, <1>8, <1>9, <1>10 DEF VersionsInv, e
<1> QED BY <1>6, <1>11, <1>12 DEF LinesInv

LEMMA BurstLines ==
  ASSUME LineShape, LineShape', LinesInv, rl_dmem_burst_write_data
  PROVE  LinesInv'
<1> USE LineAssumption
<1>1. PICK v \in [DOMAIN Pend -> {0, 1}] : VersionsInv(v)
  BY DEF LinesInv
<1> DEFINE e == Head(evictions)
           beat == Beat(e.line, PartAt(rg_shift_amount), LastBeat)
<1>2. /\ rg_burst_count # 0 /\ evictions # <<>> /\ w' = Append(w, beat)
      /\ LastBeat => /\ rg_burst_count' = 0 /\ rg_shift_amount' = 1
                     /\ wr_write_req' = None /\ evictions' = Tail(evictions)
      /\ ~LastBeat => /\ rg_burst_count' = rg_burst_count + 1
                      /\ rg_shift_amount' = (rg_shift_amount + 1) % BEATS
                      /\ UNCHANGED <<wr_write_req, evictions>>
      /\ UNCHANGED <<last, aw, accepted, arriving, mem>>
  BY DEF rl_dmem_burst_write_data, fabricVars
<1>3. /\ evictions \in Seq(Eviction) /\ e \in Eviction
      /\ e.line \in Line /\ e.val \in {0, 1}
  <2>1. evictions \in Seq(Eviction)
    BY DEF LineShape
  <2>2. e \in Eviction
    BY <1>2, <2>1, HeadTail
  <2> HIDE DEF e
  <2> QED BY <2>1, <2>2 DEF Eviction
<1>4. /\ Pend # <<>> /\ Pend[Len(Pend)] = [id |-> 0, of |-> e.line]
      /\ wr_write_req = e.line /\ rg_shift_amount = rg_burst_count
      /\ rg_burst_count \in 0 .. BEATS - 1
  BY <1>2 DEF LinesInv, BurstInv, LineShape
<1>5. Pend' = Pend /\ Pend \in Seq(Msg)
  BY <1>2, PendShape DEF Pend
<1>6. /\ beat \in Beats /\ (beat.last <=> LastBeat)
      /\ beat.data = [part |-> rg_burst_count, val |-> e.val]
  <2>1. LastBeat \in BOOLEAN
    BY DEF LastBeat
  <2> QED BY <1>3, <1>4, <2>1 DEF Beat, Beats, PartAt, Part
<1> HIDE DEF e, beat
<1>7. v[Len(Pend)] = e.val
  BY <1>1, <1>2 DEF VersionsInv, e
<1>8. Carried(w', Pend', rg_burst_count', Len(arriving'), v)
  <2> DEFINE c1 == rg_burst_count'
  <2>1. /\ w \in Seq(Beats) /\ c1 \in 0 .. BEATS - 1
        /\ Carried(w, Pend, rg_burst_count, Len(arriving), v)
    BY <1>1 DEF LineShape, VersionsInv
  <2>2. c1 = IF beat.last THEN 0 ELSE rg_burst_count + 1
    BY <1>2, <1>6
  <2> HIDE DEF c1
  <2>3. Pend[Len(Pend)].id = 0
    BY <1>4
  <2>4. NextBeat(w, Pend, Pend, rg_burst_count, c1, v, v, beat)
    BY <1>2, <1>4, <1>5, <1>6, <1>7, <2>1, <2>2, <2>3 DEF NextBeat, LastBeat
  <2>5. Carried(Append(w, beat), Pend, c1, Len(arriving), v)
    BY <2>1, <2>4, BeatAdded
  <2> QED BY <1>2, <1>5, <2>5 DEF c1
<1>9. ArrivingInv(v)'
  BY <1>1, <1>2, ArrivingStays DEF VersionsInv
<1>10. ASSUME NEW l \in Line PROVE Newest(evictions', Pend', v, mem'[l], l, last'[l])
  <2>1. Newest(evictions, Pend, v, mem[l], l, last[l])
    BY <1>1 DEF VersionsInv
  <2>2. CASE LastBeat
    <3>1. Pend[Len(Pend)].of = Head(evictions).line /\ v[Len(Pend)] = Head(evictions).val
      BY <1>4, <1>7 DEF e
    <3>2. Newest(Tail(evictions), Pend, v, mem[l], l, last[l])
      BY <1>2, <1>3, <1>4, <1>5, <2>1, <3>1, NewestSentWhole
    <3> QED BY <1>2, <1>5, <2>2, <3>2
  <2>3. CASE ~LastBeat
    BY <1>2, <1>5, <2>1, <2>3
  <2> QED BY <2>2, <2>3
<1>11. BurstInv'
  <2>1. CASE LastBeat
    BY <1>2, <2>1 DEF BurstInv
  <2>2. CASE ~LastBeat
    <3>1. rg_burst_count + 1 \in 1 .. BEATS - 1
      BY <1>4, <2>2 DEF LastBeat
    <3>2. (rg_shift_amount + 1) % BEATS = rg_burst_count + 1
      BY <1>4, <3>1
    <3> QED BY <1>2, <1>4, <1>5, <2>2, <3>1, <3>2 DEF BurstInv, e
  <2> QED BY <2>1, <2>2
<1>12. rg_burst_count' # 0 => v[Len(Pend')] = Head(evictions').val
  BY <1>2, <1>5, <1>7 DEF e
<1>13. VersionsInv(v)'
  BY <1>8, <1>9, <1>10, <1>12 DEF VersionsInv
<1> QED BY <1>5, <1>11, <1>13 DEF LinesInv

LEMMA IoLines ==
  ASSUME LineShape, LineShape', LinesInv, rl_initiate_io, ~UNCHANGED aw
  PROVE  LinesInv'
<1> USE LineAssumption
<1>1. PICK v \in [DOMAIN Pend -> {0, 1}] : VersionsInv(v)
  BY DEF LinesInv
<1> DEFINE o == Head(io_req).op
           m == [id |-> 1, of |-> o]
           beat == Beat(o, [part |-> 0, val |-> 0], TRUE)
<1>2. /\ rg_burst_count = 0 /\ io_req # <<>>
      /\ aw' = Append(aw, m) /\ w' = Append(w, beat)
      /\ UNCHANGED <<evictions, last, rg_burst_count, rg_shift_amount, wr_write_req,
                     accepted, arriving, mem>>
  BY DEF rl_initiate_io, InitiateRead, InitiateWrite, cacheVars, burstVars, fabricVars
<1>3. o \in Op
  <2>1. io_req \in Seq(IoRequests)
    BY DEF LineShape
  <2>2. Head(io_req) \in IoRequests
    BY <1>2, <2>1, HeadTail
  <2> QED BY <2>2 DEF IoRequests
<1>4. /\ m \in Msg /\ beat \in Beats /\ m.id = 1 /\ m.of = o /\ beat.last = TRUE
  BY <1>3 DEF Msg, Beat, Beats, Part
<1> HIDE DEF o, m, beat
<1>5. /\ Pend \in Seq(Msg) /\ Pend' = Append(Pend, m) /\ Pend' \in Seq(Msg)
      /\ Len(Pend') = Len(Pend) + 1 /\ Pend'[Len(Pend')] = m
  <2>1. Pend \in Seq(Msg) /\ Pend' = Append(Pend, m)
    BY <1>2, PendShape, PendGrows
  <2> QED BY SMTT(20), <1>4, <2>1
<1>6. PICK v1 \in [DOMAIN Pend' -> {0, 1}] : \A n \in 1 .. Len(Pend) : v1[n] = v[n]
  <2>1. v \in [DOMAIN Pend -> {0, 1}]
    OBVIOUS
  <2>2. \E x \in [DOMAIN Append(Pend, m) -> {0, 1}] :
           x[Len(Pend) + 1] = 0 /\ \A n \in 1 .. Len(Pend) : x[n] = v[n]
    <3>1. m \in Msg /\ Pend \in Seq(Msg) /\ 0 \in {0, 1}
      BY <1>4, <1>5
    <3> QED BY <2>1, <3>1, Carrying
  <2> QED BY <1>5, <2>2
<1>8. Carried(w', Pend', rg_burst_count', Len(arriving'), v1)
  <2> DEFINE P1 == Pend'
  <2>1. /\ w \in Seq(Beats) /\ rg_burst_count \in 0 .. BEATS - 1
        /\ Carried(w, Pend, rg_burst_count, Len(arriving), v)
    BY <1>1 DEF LineShape, VersionsInv
  <2>2. /\ P1 \in Seq(Msg) /\ P1 = Append(Pend, m) /\ P1[Len(P1)].id = 1
        /\ \A n \in 1 .. Len(Pend) : v1[n] = v[n]
    BY <1>4, <1>5, <1>6
  <2> HIDE DEF P1
  <2>4. NextBeat(w, Pend, P1, rg_burst_count, rg_burst_count, v, v1, beat)
    BY <1>2, <1>4, <1>5, <2>1, <2>2 DEF NextBeat
  <2>5. Carried(Append(w, beat), P1, rg_burst_count, Len(arriving), v1)
    BY <2>1, <2>4, BeatAdded
  <2> QED BY <1>2, <2>5 DEF P1
<1>9. ArrivingInv(v1)'
  BY <1>1, <1>2, <1>6, ArrivingStays DEF VersionsInv
<1>10. ASSUME NEW l \in Line PROVE Newest(evictions, Pend', v1, mem[l], l, last[l])
  <2>1. Newest(evictions, Pend, v, mem[l], l, last[l])
    BY <1>1 DEF VersionsInv
  <2>2. m.of # l
    BY <1>3, <1>4
  <2>3. Newest(evictions, Append(Pend, m), v1, mem[l], l, last[l])
    <3>1. m \in Msg /\ Pend \in Seq(Msg) /\ \A n \in 1 .. Len(Pend) : v1[n] = v[n]
      BY <1>4, <1>5, <1>6
    <3> QED BY <2>1, <2>2, <3>1, NewestSent, Zenon
  <2> QED BY <1>5, <2>3
<1>11. BurstInv'
  BY <1>2 DEF LinesInv, BurstInv
<1>12. VersionsInv(v1)'
  BY <1>2, <1>8, <1>9, <1>10 DEF VersionsInv
<1> QED BY <1>6, <1>11, <1>12 DEF LinesInv

LEMMA EvictLines ==
  ASSUME LineShape, LinesInv, NEW d \in Line, Evict(d)
  PROVE  LinesInv'
<1>1. PICK v \in [DOMAIN Pend -> {0, 1}] : VersionsInv(v)
  BY DEF LinesInv
<1> DEFINE e == [line |-> d, val |-> 1 - last[d]]
<1>2. /\ evictions' = Append(evictions, e) /\ last' = [last EXCEPT ![d] = e.val]
      /\ UNCHANGED <<rg_burst_count, rg_shift_amount, wr_write_req, w, aw, accepted,
                     arriving, mem>>
  BY DEF Evict, burstVars, requests, fabricVars
<1>3. /\ evictions \in Seq(Eviction) /\ last \in [Line -> {0, 1}]
      /\ e \in Eviction /\ e.line = d
  <2>1. 1 - last[d] \in {0, 1}
    <3>1. last[d] \in {0, 1}
      BY DEF LineShape
    <3> QED BY <3>1
  <2> QED BY <2>1 DEF LineShape, Eviction
<1> HIDE DEF e
<1>4. Pend' = Pend
  BY <1>2 DEF Pend
<1>5. evictions # <<>> => evictions' # <<>> /\ Head(evictions') = Head(evictions)
  BY <1>2, <1>3
<1>6. ASSUME NEW l \in Line PROVE Newest(evictions', Pend', v, mem'[l], l, last'[l])
  <2>1. Newest(evictions, Pend, v, mem[l], l, last[l])
    BY <1>1 DEF VersionsInv
  <2>2. last'[l] = IF e.line = l THEN e.val ELSE last[l]
    BY <1>2, <1>3
  <2> DEFINE y == last'[l]
  <2>3. IF e.line = l THEN y = e.val ELSE y = last[l]
    BY <2>2
  <2> HIDE DEF y
  <2>4. Newest(Append(evictions, e), Pend, v, mem[l], l, y)
    BY <1>3, <2>1, <2>3, NewestEvicted
  <2> QED BY <1>2, <1>4, <2>4 DEF y
<1>7. BurstInv'
  BY <1>2, <1>4, <1>5 DEF LinesInv, BurstInv
<1>8. rg_burst_count' # 0 => v[Len(Pend')] = Head(evictions').val
  BY <1>1, <1>2, <1>4, <1>5 DEF VersionsInv, LinesInv, BurstInv
<1>9. ArrivingInv(v)' /\ Carried(w', Pend', rg_burst_count', Len(arriving'), v)
  BY <1>1, <1>2, <1>4 DEF VersionsInv, ArrivingInv
<1>10. VersionsInv(v)'
  BY <1>6, <1>8, <1>9 DEF VersionsInv
<1> QED BY <1>4, <1>7, <1>10 DEF LinesInv

(* The fabric takes a beat, and writes a line when it has it all.          *)
LEMMA ServedLines ==
  ASSUME LineShape, LineShape', LinesInv, FabricWrite
  PROVE  LinesInv'
<1> USE LineAssumption
<1>1. PICK v \in [DOMAIN Pend -> {0, 1}] : VersionsInv(v)
  BY DEF LinesInv
<1> DEFINE beat == Head(w)  N == Len(arriving)
<1>2. /\ w \in Seq(Beats) /\ w # <<>> /\ w' = Tail(w) /\ beat \in Beats
      /\ arriving \in Seq(Part) /\ beat.data \in Part /\ beat.last \in BOOLEAN
      /\ rg_burst_count \in 0 .. BEATS - 1 /\ mem \in [Line -> Seq(Part)]
  <2>1. w \in Seq(Beats) /\ w # <<>> /\ w' = Tail(w)
    BY DEF LineShape, FabricWrite
  <2>2. beat \in Beats
    BY <2>1, HeadTail
  <2> HIDE DEF beat
  <2> QED BY <2>1, <2>2 DEF LineShape, Beats
<1>3. UNCHANGED <<evictions, last, rg_burst_count, rg_shift_amount, wr_write_req>>
  BY DEF FabricWrite, cacheVars, burstVars
<1>4. /\ Pend # <<>> /\ Written = Pend[1] /\ Pend[1] \in Msg /\ Pend \in Seq(Msg)
      /\ ~beat.last => Pend' = Pend
      /\ beat.last => Pend' = Tail(Pend)
  BY PendServed, PendShape
<1>5. /\ ~beat.last => accepted' = <<Pend[1]>> /\ arriving' = Append(arriving, beat.data)
                       /\ mem' = mem
      /\ beat.last => /\ accepted' = <<>> /\ arriving' = <<>>
                      /\ mem' = IF Pend[1].id = 0
                                THEN [mem EXCEPT ![Pend[1].of] = Append(arriving, beat.data)]
                                ELSE mem
  BY <1>4 DEF FabricWrite
<1> HIDE DEF beat
<1>6. Carried(w, Pend, rg_burst_count, N, v)
  BY <1>1 DEF VersionsInv
<1> HIDE DEF N
<1>7. /\ N \in 0 .. BEATS - 1
      /\ Pend[1].id = 1 => N = 0
      /\ Pend[1].id = 0 => beat.data = [part |-> N, val |-> v[1]]
      /\ beat.last <=> (Pend[1].id = 1 \/ N = BEATS - 1)
      /\ beat.last /\ rg_burst_count # 0 => Len(Pend) > 1
  BY <1>2, <1>4, <1>6, FirstBeat DEF beat
<1>8. DOMAIN Pend = 1 .. Len(Pend) /\ Len(Pend) \in Nat \ {0}
  BY <1>4, HeadTail
<1>9. PICK v1 \in [DOMAIN Pend' -> {0, 1}] :
        /\ beat.last => \A n \in 1 .. Len(Pend) - 1 : v1[n] = v[n + 1]
        /\ ~beat.last => v1 = v
  <2>1. CASE ~beat.last
    BY <1>4, <2>1
  <2>2. CASE beat.last
    <3> DEFINE x == [n \in DOMAIN Pend' |-> v[n + 1]]
    <3>1. DOMAIN Pend' = 1 .. Len(Pend) - 1
      BY <1>4, <2>2, HeadTail
    <3>2. \A n \in DOMAIN Pend' : n + 1 \in DOMAIN Pend
      BY <1>8, <3>1
    <3>3. x \in [DOMAIN Pend' -> {0, 1}] /\ \A n \in 1 .. Len(Pend) - 1 : x[n] = v[n + 1]
      BY <3>1, <3>2
    <3> QED BY <2>2, <3>3
  <2> QED BY <2>1, <2>2
<1>10. Carried(w', Pend', rg_burst_count', Len(arriving'), v1)
  <2> DEFINE P1 == Pend'  a1 == Len(arriving')
  <2>1. /\ ~beat.last => P1 = Pend /\ a1 = N + 1 /\ v1 = v
        /\ beat.last => /\ P1 = Tail(Pend) /\ a1 = 0
                        /\ \A n \in 1 .. Len(Pend) - 1 : v1[n] = v[n + 1]
        /\ P1 \in Seq(Msg)
    <3>1. ~beat.last => a1 = N + 1
      BY <1>2, <1>5 DEF N
    <3>2. beat.last => a1 = 0
      BY <1>5
    <3>3. P1 \in Seq(Msg)
      BY <1>4, HeadTail
    <3> HIDE DEF a1, P1
    <3>4. (~beat.last => P1 = Pend) /\ (beat.last => P1 = Tail(Pend))
      BY <1>4 DEF P1
    <3> QED BY <1>9, <3>1, <3>2, <3>3, <3>4
  <2> HIDE DEF P1, a1
  <2>2. IF Head(w).last
        THEN /\ P1 = Tail(Pend) /\ a1 = 0
             /\ \A n \in 1 .. Len(Pend) - 1 : v1[n] = v[n + 1]
        ELSE P1 = Pend /\ a1 = N + 1 /\ v1 = v
    BY <2>1 DEF beat
  <2>3. Carried(Tail(w), P1, rg_burst_count, a1, v1)
    BY <1>2, <1>4, <1>6, <2>1, <2>2, BeatTaken
  <2> QED BY <1>2, <1>3, <2>3 DEF P1, a1
<1>11. \A i \in 1 .. N : arriving[i] = [part |-> i - 1, val |-> v[1]]
  BY <1>1, <1>2 DEF VersionsInv, ArrivingInv, N
<1>12. ASSUME Pend[1].id = 0
       PROVE  /\ Append(arriving, beat.data) \in Seq(Part)
              /\ Len(Append(arriving, beat.data)) = N + 1
              /\ \A i \in 1 .. N + 1 :
                   Append(arriving, beat.data)[i] = [part |-> i - 1, val |-> v[1]]
  <2>1. /\ Append(arriving, beat.data) \in Seq(Part)
        /\ Len(Append(arriving, beat.data)) = N + 1
        /\ Append(arriving, beat.data)[N + 1] = beat.data
        /\ \A i \in 1 .. N : Append(arriving, beat.data)[i] = arriving[i]
    BY <1>2 DEF N
  <2>2. \A i \in 1 .. N + 1 : i \in 1 .. N \/ i = N + 1
    BY <1>7
  <2>3. beat.data = [part |-> N + 1 - 1, val |-> v[1]]
    BY <1>7, <1>12
  <2> DEFINE q == Append(arriving, beat.data)
  <2> HIDE DEF q
  <2>4. \A i \in 1 .. N + 1 : q[i] = [part |-> i - 1, val |-> v[1]]
    <3>1. q[N + 1] = beat.data /\ \A i \in 1 .. N : q[i] = arriving[i]
      BY <2>1 DEF q
    <3>2. ASSUME NEW i \in 1 .. N + 1 PROVE q[i] = [part |-> i - 1, val |-> v[1]]
      <4>1. CASE i \in 1 .. N
        <5>1. q[i] = arriving[i]
          BY <3>1, <4>1
        <5>2. arriving[i] = [part |-> i - 1, val |-> v[1]]
          BY <1>11, <4>1, Zenon
        <5> QED BY <5>1, <5>2, Zenon
      <4>2. CASE i = N + 1
        <5>1. q[i] = q[N + 1] /\ i - 1 = N + 1 - 1
          <6>1. N \in Nat
            BY <1>7
          <6> QED BY <4>2, <6>1
        <5>2. q[N + 1] = [part |-> N + 1 - 1, val |-> v[1]]
          BY <2>3, <3>1, Zenon
        <5> QED BY <5>1, <5>2, Zenon
      <4> QED BY <2>2, <4>1, <4>2
    <3> QED BY <3>2
  <2> QED BY <2>1, <2>4 DEF q
<1>13. ArrivingInv(v1)'
  <2>1. CASE ~beat.last
    <3>1. Pend[1].id = 0
      BY <1>4, <1>7, <2>1, MessageTypes
    <3>2. DOMAIN arriving' = 1 .. N + 1 /\ arriving' # <<>>
      BY <1>5, <1>7, <1>12, <2>1, <3>1
    <3>3. accepted' # <<>> /\ accepted'[1] = Pend[1]
      BY <1>5, <2>1
    <3>4. \A i \in DOMAIN arriving' : arriving'[i] = [part |-> i - 1, val |-> v1[1]]
      BY <1>5, <1>9, <1>12, <2>1, <3>1, <3>2
    <3> QED BY <3>1, <3>2, <3>3, <3>4 DEF ArrivingInv
  <2>2. CASE beat.last
    <3>1. accepted' = <<>> /\ arriving' = <<>> /\ DOMAIN <<>> = {}
      BY <1>5, <2>2
    <3> QED BY <3>1 DEF ArrivingInv
  <2> QED BY <1>2, <2>1, <2>2
<1>14. ASSUME NEW l \in Line PROVE Newest(evictions, Pend', v1, mem'[l], l, last[l])
  <2>1. Newest(evictions, Pend, v, mem[l], l, last[l])
    BY <1>1 DEF VersionsInv
  <2>2. CASE ~beat.last
    BY <1>4, <1>5, <1>9, <2>1, <2>2
  <2>3. CASE beat.last
    <3> DEFINE written == mem'[l]
    <3>1. ASSUME Pend[1].of = l PROVE written = Whole(v[1])
      <4>1. Pend[1].id = 0
        BY <1>4, <3>1, MessageTypes
      <4>2. written = Append(arriving, beat.data)
        BY <1>2, <1>5, <2>3, <3>1, <4>1
      <4>3. N + 1 = BEATS
        BY <1>7, <2>3, <4>1
      <4>4. Append(arriving, beat.data) = Whole(v[1])
        <5> DEFINE q == Append(arriving, beat.data)
        <5>1. q \in Seq(Part) /\ DOMAIN q = 1 .. BEATS
          BY <1>12, <4>1, <4>3
        <5>2. \A i \in 1 .. BEATS : q[i] = [part |-> i - 1, val |-> v[1]]
          BY <1>12, <4>1, <4>3
        <5>3. q = [i \in 1 .. BEATS |-> q[i]]
          <6> HIDE DEF q
          <6> QED BY <5>1
        <5> HIDE DEF q
        <5>4. q = [i \in 1 .. BEATS |-> [part |-> i - 1, val |-> v[1]]]
          BY <5>2, <5>3
        <5> QED BY <5>4 DEF q, Whole
      <4> QED BY <4>2, <4>4
    <3>2. ASSUME Pend[1].of # l PROVE written = mem[l]
      BY <1>2, <1>5, <2>3, <3>2
    <3>3. written = IF Pend[1].of = l THEN Whole(v[1]) ELSE mem[l]
      BY <3>1, <3>2
    <3> HIDE DEF written
    <3>4. Newest(evictions, Tail(Pend), v1, written, l, last[l])
      <4>1. \A n \in 1 .. Len(Pend) - 1 : v1[n] = v[n + 1]
        BY <1>9, <2>3
      <4>2. Pend \in Seq(Msg) /\ Pend # <<>>
        BY <1>4
      <4> QED BY <2>1, <3>3, <4>1, <4>2, NewestWritten
    <3> QED BY <1>4, <2>3, <3>4 DEF written
  <2> QED BY <1>2, <2>2, <2>3
<1>15. rg_burst_count # 0 => /\ Pend' # <<>> /\ Pend'[Len(Pend')] = Pend[Len(Pend)]
                             /\ v1[Len(Pend')] = v[Len(Pend)]
  <2>1. CASE ~beat.last
    BY <1>4, <1>9, <2>1
  <2>2. ASSUME beat.last, rg_burst_count # 0
        PROVE  /\ Pend' # <<>> /\ Pend'[Len(Pend')] = Pend[Len(Pend)]
               /\ v1[Len(Pend')] = v[Len(Pend)]
    <3>1. Len(Pend) > 1 /\ Len(Pend) \in Nat
      BY <1>7, <1>8, <2>2
    <3>2. /\ Pend' \in Seq(Msg) /\ Len(Pend') = Len(Pend) - 1
          /\ \A i \in 1 .. Len(Pend) - 1 : Pend'[i] = Pend[i + 1]
      BY SMTT(20), <1>4, <2>2, HeadTail
    <3>3. Len(Pend) - 1 \in 1 .. Len(Pend) - 1 /\ Len(Pend) - 1 + 1 = Len(Pend)
      BY <3>1
    <3>4. Pend' # <<>>
      BY <3>1, <3>2
    <3> QED BY <1>9, <2>2, <3>2, <3>3, <3>4
  <2> QED BY <1>2, <2>1, <2>2
<1>16. BurstInv'
  BY <1>3, <1>15 DEF LinesInv, BurstInv
<1>17. rg_burst_count' # 0 => v1[Len(Pend')] = Head(evictions').val
  BY <1>1, <1>3, <1>15 DEF VersionsInv
<1>18. VersionsInv(v1)'
  BY <1>3, <1>10, <1>13, <1>14, <1>17 DEF VersionsInv
<1> QED BY <1>9, <1>16, <1>18 DEF LinesInv

LEMMA LinesKept ==
  ASSUME LineShape, LineShape', LinesInv, [Next]_vars
  PROVE  LinesInv'
<1>1. ASSUME UNCHANGED <<evictions, last, rg_burst_count, rg_shift_amount, wr_write_req,
                         w, aw, accepted, arriving, mem>>
      PROVE  LinesInv'
  <2>1. PICK v \in [DOMAIN Pend -> {0, 1}] : VersionsInv(v)
    BY DEF LinesInv
  <2>2. Pend' = Pend
    BY <1>1 DEF Pend
  <2>3. VersionsInv(v)'
    BY <1>1, <2>1, <2>2 DEF VersionsInv, ArrivingInv
  <2>4. BurstInv'
    BY <1>1, <2>2 DEF LinesInv, BurstInv
  <2> QED BY <2>2, <2>3, <2>4 DEF LinesInv
<1>2. ASSUME UNCHANGED lineVars \/ ma_commit_io PROVE LinesInv'
  <2>1. UNCHANGED <<evictions, last, rg_burst_count, rg_shift_amount, wr_write_req,
                    w, aw, accepted, arriving, mem>>
    BY <1>2 DEF ma_commit_io, lineVars, cacheVars, burstVars, requests, fabricVars
  <2> QED BY <1>1, <2>1
<1>3. ASSUME \/ \E l \in Line : Miss(l)
             \/ rl_handle_dmem_line_read_request \/ rl_handle_delayed_read
             \/ rl_handle_dmem_line_resp \/ handle_dmem_line_write_resp
             \/ rl_handle_io_read_response \/ rl_handle_io_write_resp
             \/ \E id \in {0, 1} : FabricRead(id)
      PROVE  LinesInv'
  <2>1. UNCHANGED <<evictions, last, rg_burst_count, rg_shift_amount, wr_write_req,
                    w, aw, accepted, arriving, mem>>
    BY <1>3 DEF Miss, rl_handle_dmem_line_read_request, rl_handle_delayed_read, SendRead,
         rl_handle_dmem_line_resp, handle_dmem_line_write_resp, rl_handle_io_read_response,
         rl_handle_io_write_resp, FabricRead, cacheVars, burstVars, requests, fabricVars
  <2> QED BY <1>1, <2>1
<1>4. ASSUME rl_initiate_io PROVE LinesInv'
  <2>1. CASE UNCHANGED aw
    <3>1. aw \in Seq(Msg)
      BY DEF LineShape
    <3>2. ~InitiateWrite(Head(io_req).op)
      <4>1. SUFFICES ASSUME InitiateWrite(Head(io_req).op) PROVE FALSE
        OBVIOUS
      <4>2. aw = Append(aw, [id |-> 1, of |-> Head(io_req).op])
        BY <2>1, <4>1 DEF InitiateWrite
      <4>3. Len(Append(aw, [id |-> 1, of |-> Head(io_req).op])) = Len(aw) + 1
        BY <3>1
      <4>4. Len(aw) \in Nat
        BY <3>1
      <4> QED BY <4>2, <4>3, <4>4
    <3>3. UNCHANGED <<evictions, last, rg_burst_count, rg_shift_amount, wr_write_req,
                      w, aw, accepted, arriving, mem>>
      BY <1>4, <3>2 DEF rl_initiate_io, InitiateRead, cacheVars, burstVars, fabricVars
    <3> QED BY <1>1, <3>3
  <2>2. CASE ~UNCHANGED aw
    BY <1>4, <2>2, IoLines
  <2> QED BY <2>1, <2>2
<1>5. CASE UNCHANGED vars
  BY <1>2, <1>5 DEF vars
<1>6. CASE Next
  BY <1>2, <1>3, <1>4, <1>6, EvictLines, RequestLines, BurstLines, ServedLines
  DEF Next, Stage3, Stage4, Stage5, CacheAnswers, rl_exe_base_memory, rl_handle_memory,
      rl_fwd_trapout, rl_writeback_trap, rl_writeback_baseout, rl_writeback_memop_store,
      rl_writeback_memop_init, rl_writeback_memop_done, rl_writeback_memop_drop,
      CacheEvicts, CacheMisses, LineReads, DelayedReads, LineWrites, InitiateIo,
      LineFilled, LineWritten, IoRead, IoWritten, FabricWrites, FabricReads
<1> QED BY <1>5, <1>6

-----------------------------------------------------------------------------
(* The invariant.                                                          *)

LEMMA Start == Init => IInv
<1> SUFFICES ASSUME Init PROVE IInv
  OBVIOUS
<1> USE LineAssumption
<1>1. /\ isb_s3s4 = <<>> /\ isb_s4s5 = <<>> /\ core_req = <<>> /\ ff_memory_response = <<>>
      /\ io_buffer = <<>> /\ store_buffer = <<>> /\ rg_ioop_init = FALSE
      /\ wr_ioop_response = None /\ rg_epoch = 0
      /\ evictions = <<>> /\ io_req = <<>> /\ rg_burst_count = 0 /\ rg_shift_amount = 1
      /\ wr_write_req = None /\ ar = <<>> /\ aw = <<>> /\ w = <<>> /\ r = <<>> /\ b = <<>>
      /\ accepted = <<>> /\ arriving = <<>> /\ mem = [l \in Line |-> Whole(0)]
      /\ last = [l \in Line |-> 0]
  BY DEF Init, LineInit
<1>2. DOMAIN <<>> = {} /\ Len(<<>>) = 0 /\ <<>> \o <<>> = <<>>
  OBVIOUS
<1>3. \A S : <<>> \in Seq(S)
  OBVIOUS
<1>4. LineShape
  <2>1. Whole(0) \in Seq(Part)
    BY WholeType
  <2>2. mem \in [Line -> Seq(Part)] /\ last \in [Line -> {0, 1}]
    BY <1>1, <2>1
  <2>3. resident \subseteq Line /\ filling \in Line \cup {None} /\ rg_read_line_req \in Line \cup {None}
        /\ rd_req \in Seq(Line)
    BY <1>3 DEF Init, LineInit
  <2>4. 0 \in 0 .. BEATS - 1 /\ 1 \in 0 .. BEATS - 1
    OBVIOUS
  <2> QED BY <1>1, <1>2, <1>3, <2>2, <2>3, <2>4 DEF LineShape
<1>5. PathShape
  <2>1. 0 <= D34 /\ 0 <= D45 /\ 0 <= 1
    BY PathAssumption
  <2> QED BY <1>1, <1>2, <1>3, <2>1 DEF PathShape
<1>6. Pend = <<>> /\ InOrder = <<>>
  BY <1>1, <1>2 DEF Pend, InOrder
<1>7. \A K : Picks(<<>>, <<>>, K)
  <2>1. <<>> \in [DOMAIN <<>> -> DOMAIN <<>>]
    BY <1>2
  <2> QED BY <1>2, <2>1 DEF Picks
<1>8. LinesInv
  <2> DEFINE v == <<>>
             g == [k \in 1 .. 1 |-> 1]
             p == [k \in 1 .. 1 |-> 0]
  <2>1. v \in [DOMAIN Pend -> {0, 1}]
    BY <1>2, <1>6
  <2>2. Carried(w, Pend, rg_burst_count, Len(arriving), v)
    <3>1. /\ Len(w) = 0 /\ Len(Pend) = 0 /\ Len(arriving) = 0 /\ 0 + 1 = 1
          /\ 1 .. 0 = {} /\ 0 \in 0 .. BEATS - 1
      BY <1>1, <1>2, <1>6
    <3>2. /\ g \in [1 .. 1 -> 1 .. 1] /\ p \in [1 .. 1 -> 0 .. BEATS - 1]
          /\ g[1] = 1 /\ p[1] = 0
      OBVIOUS
    <3> HIDE DEF g, p, v
    <3>3. \A i, j \in 1 .. 1 : i <= j => g[i] <= g[j]
      BY <3>2
    <3>4. BeatsInv(w, Pend, rg_burst_count, Len(arriving), v, g, p)
      BY <1>1, <3>1, <3>2, <3>3 DEF BeatsInv
    <3> QED BY <3>1, <3>2, <3>4 DEF Carried
  <2>3. ArrivingInv(v)
    BY <1>1, <1>2 DEF ArrivingInv
  <2>4. ASSUME NEW l \in Line PROVE Newest(evictions, Pend, v, mem[l], l, last[l])
    <3>1. mem[l] = Whole(0) /\ last[l] = 0
      BY <1>1
    <3> QED BY <1>1, <1>2, <1>6, <3>1 DEF Newest
  <2>5. VersionsInv(v)
    BY <1>1, <2>2, <2>3, <2>4 DEF VersionsInv
  <2>6. BurstInv
    BY <1>1 DEF BurstInv
  <2> QED BY <2>1, <2>5, <2>6 DEF LinesInv
<1>9. IoInv
  BY <1>1, <1>2, <1>6 DEF IoInv, IoAt, IoIn, NoIo
<1>10. AnswersInv
  BY <1>1, <1>7 DEF AnswersInv
<1>11. UniqueTags
  BY <1>2, <1>6 DEF UniqueTags
<1>12. BuffersInStep
  <2>1. ~HasEntry
    BY <1>1, <1>2 DEF HasEntry
  <2>2. Held = <<>>
    BY <1>1, <1>5, <2>1, HeldIs
  <2> QED BY <1>1, <1>7, <2>2 DEF BuffersInStep
<1> QED BY <1>4, <1>5, <1>8, <1>9, <1>10, <1>11, <1>12 DEF IInv

LEMMA Step == IInv /\ [Next]_vars => IInv'
<1> SUFFICES ASSUME IInv, [Next]_vars PROVE IInv'
  OBVIOUS
<1>1. /\ LineShape /\ PathShape /\ LinesInv /\ IoInv /\ AnswersInv /\ UniqueTags
      /\ BuffersInStep
  BY DEF IInv
<1>2. LineShape'
  BY <1>1, LineShapeKept
<1>3. PathShape'
  BY <1>1, PathShapeKept
<1>4. LinesInv'
  BY <1>1, <1>2, LinesKept
<1>5. IoInv' /\ UniqueTags'
  BY <1>1, IoKept, TagsKept
<1>6. AnswersInv' /\ BuffersInStep'
  BY <1>1, <1>3, AnswersKept, BuffersKept
<1> QED BY <1>2, <1>3, <1>4, <1>5, <1>6 DEF IInv

LEMMA Invariant == Spec => []IInv
BY Start, Step, PTL DEF Spec

(* Every variable keeps its type: in particular no two instructions ever   *)
(* need the same tag.                                                      *)
THEOREM TypeCorrect == Spec => []TypeOK
<1>1. IInv => TypeOK
  BY ShapeTypes DEF IInv
<1> QED BY <1>1, Invariant, PTL

(* The store buffer and the I/O buffer of the cache hold what write-back   *)
(* will release or cancel, in the same order.                              *)
THEOREM BuffersAgree == Spec => []BuffersInStep
<1>1. IInv => BuffersInStep
  BY DEF IInv
<1> QED BY <1>1, Invariant, PTL

(* Once nothing of a line is on its way, memory holds the whole line as    *)
(* the cache last had it.                                                  *)
THEOREM LinesLand == Spec => []EvictionsLand
<1>1. IInv => EvictionsLand
  <2> SUFFICES ASSUME IInv, NEW l \in Line, ~OnItsWay(l)
               PROVE  mem[l] = Whole(last[l])
    BY DEF EvictionsLand
  <2>1. PICK v : Newest(evictions, Pend, v, mem[l], l, last[l])
    BY DEF IInv, LinesInv, VersionsInv
  <2>2. \A n \in DOMAIN evictions : evictions[n].line # l
    BY DEF OnItsWay
  <2>3. \A n \in DOMAIN Pend : Pend[n].of # l
    <3>1. Pending = {Pend[n] : n \in DOMAIN Pend}
      <4>1. Pend \in Seq(Msg)
        BY PendShape DEF IInv
      <4> QED BY <4>1 DEF Pending, ToSet, Pend
    <3> QED BY <3>1 DEF OnItsWay
  <2> QED BY <2>1, <2>2, <2>3 DEF Newest
<1> QED BY <1>1, Invariant, PTL

(* While beats of a line remain to be sent, no read of that line is sent.  *)
LEMMA ReadsWait ==
  ASSUME LineShape, BurstInv, [Next]_vars, NEW l \in Line,
         Reads(l) = {}, Reads(l)' # {}
  PROVE  rg_burst_count = 0 \/ Head(evictions).line # l
<1>1. ar \in Seq(Msg)
  BY DEF LineShape
<1>2. ar' # ar
  BY DEF Reads
<1>3. ASSUME NEW m, ar' = Append(ar, m), m.of # l PROVE FALSE
  <2>1. PICK n \in DOMAIN ar' : ar'[n].of = l
    BY DEF Reads
  <2>2. CASE n = Len(ar) + 1
    BY <1>1, <1>3, <2>1, <2>2
  <2>3. CASE n \in DOMAIN ar
    <3>1. ar'[n] = ar[n]
      BY <1>1, <1>3, <2>3
    <3> QED BY <2>1, <2>3, <3>1 DEF Reads
  <2> QED BY <1>1, <1>3, <2>1, <2>2, <2>3
<1>4. CASE rl_handle_dmem_line_read_request
  <2>1. ~SameLine(Head(rd_req)) /\ ar' = Append(ar, [id |-> 0, of |-> Head(rd_req)])
    BY <1>2, <1>4 DEF rl_handle_dmem_line_read_request, SendRead, requests
  <2>2. Head(rd_req) = l
    <3>1. [id |-> 0, of |-> Head(rd_req)].of = Head(rd_req)
      OBVIOUS
    <3> QED BY <1>3, <2>1, <3>1
  <2> QED BY <2>1, <2>2 DEF SameLine, BurstInv
<1>5. CASE rl_handle_delayed_read
  BY <1>5, LineAssumption DEF rl_handle_delayed_read, BurstInv, LineShape
<1>6. CASE rl_initiate_io
  BY <1>6 DEF rl_initiate_io
<1>7. ASSUME NEW id \in {0, 1}, FabricRead(id) PROVE FALSE
  <2>1. PICK i \in DOMAIN ar : ar' = RemoveAt(ar, i)
    BY <1>7 DEF FabricRead
  <2>2. Without(ar, i, ar')
    BY <1>1, <2>1, RemoveAtWithout
  <2>3. PICK n \in DOMAIN ar' : ar'[n].of = l
    BY DEF Reads
  <2>4. \E k \in DOMAIN ar : ar[k] = ar'[n]
    <3>1. n \in 1 .. Len(ar) - 1 /\ ar'[n] = ar[IF n < i THEN n ELSE n + 1]
      BY <2>2, <2>3 DEF Without
    <3>2. n \in DOMAIN ar /\ n + 1 \in DOMAIN ar
      BY <1>1, <3>1
    <3> QED BY <3>1, <3>2
  <2> QED BY <2>3, <2>4 DEF Reads
<1>8. CASE UNCHANGED ar
  BY <1>2, <1>8
<1>9. \/ rl_handle_dmem_line_read_request \/ rl_handle_delayed_read \/ rl_initiate_io
      \/ (\E id \in {0, 1} : FabricRead(id)) \/ UNCHANGED ar
  <2>1. ASSUME UNCHANGED lineVars \/ ma_commit_io PROVE UNCHANGED ar
    BY <2>1 DEF ma_commit_io, lineVars, requests
  <2>2. ASSUME \/ \E k \in Line : Evict(k) \/ Miss(k)
               \/ rl_handle_dmem_line_resp \/ handle_dmem_line_write_resp
               \/ rl_handle_io_read_response \/ rl_handle_io_write_resp
               \/ rl_handle_dmem_write_request \/ rl_dmem_burst_write_data \/ FabricWrite
        PROVE  UNCHANGED ar
    BY <2>2 DEF Evict, Miss, rl_handle_dmem_line_resp, handle_dmem_line_write_resp,
         rl_handle_io_read_response, rl_handle_io_write_resp, rl_handle_dmem_write_request,
         rl_dmem_burst_write_data, FabricWrite, requests
  <2>3. CASE UNCHANGED vars
    BY <2>1, <2>3 DEF vars
  <2>4. CASE Next
    BY <2>1, <2>2, <2>4
    DEF Next, Stage3, Stage4, Stage5, CacheAnswers, rl_exe_base_memory, rl_handle_memory,
        rl_fwd_trapout, rl_writeback_trap, rl_writeback_baseout, rl_writeback_memop_store,
        rl_writeback_memop_init, rl_writeback_memop_done, rl_writeback_memop_drop,
        CacheEvicts, CacheMisses, LineReads, DelayedReads, LineWrites, InitiateIo,
        LineFilled, LineWritten, IoRead, IoWritten, FabricWrites, FabricReads
  <2> QED BY <2>3, <2>4
<1> QED BY <1>4, <1>5, <1>6, <1>7, <1>8, <1>9

(* While beats of a line remain to be sent, no read of that line goes out. *)
THEOREM ReadsStayOut == Spec => NoReadIntoBurst
<1>1. IInv /\ [Next]_vars =>
        [\A l \in Line : Reads(l) = {} /\ Reads(l)' # {}
                           => rg_burst_count = 0 \/ Head(evictions).line # l]_vars
  BY ReadsWait DEF IInv, LinesInv
<1> QED BY <1>1, Invariant, PTL DEF Spec, NoReadIntoBurst

-----------------------------------------------------------------------------
(* The path implements DeviceOnce.  Live and Older by the sequence of the  *)
(* instructions in flight.                                                 *)

OpPlaces(s) == {n \in DOMAIN s : s[n].kind \in Io}
LiveIn(s)   == {s[n].op : n \in OpPlaces(s)}
OlderIn(s)  == {e \in LiveIn(s) \X LiveIn(s) : \E m, n \in OpPlaces(s) :
                  m < n /\ e = <<s[m].op, s[n].op>>}
Distinct(s) == \A m, n \in DOMAIN s : s[m].op \in Op /\ s[m].op = s[n].op => m = n
Before(s, x, y) == \E m, n \in OpPlaces(s) : m < n /\ x = s[m].op /\ y = s[n].op

LEMMA SamePairs ==
  ASSUME NEW S, NEW T, NEW X, NEW Y, X \subseteq S \X T, Y \subseteq S \X T,
         \A x \in S, y \in T : <<x, y>> \in X <=> <<x, y>> \in Y
  PROVE  X = Y
OBVIOUS

LEMMA CutPairs ==
  ASSUME NEW L, NEW X, NEW Z, X \subseteq L \X L,
         \A x \in L, y \in L : <<x, y>> \in X <=> <<x, y>> \in Z
  PROVE  X = Z \cap (L \X L)
OBVIOUS

LEMMA OlderPairs ==
  ASSUME NEW s
  PROVE  /\ OlderIn(s) \subseteq LiveIn(s) \X LiveIn(s)
         /\ \A x, y \in LiveIn(s) : <<x, y>> \in OlderIn(s) <=> Before(s, x, y)
         /\ \A x, y : Before(s, x, y) => x \in LiveIn(s) /\ y \in LiveIn(s)
<1>1. ASSUME NEW x, NEW y, Before(s, x, y) PROVE x \in LiveIn(s) /\ y \in LiveIn(s)
  BY <1>1 DEF Before, LiveIn
<1>2. ASSUME NEW x \in LiveIn(s), NEW y \in LiveIn(s), <<x, y>> \in OlderIn(s) PROVE Before(s, x, y)
  <2>1. PICK m \in OpPlaces(s), n \in OpPlaces(s) : m < n /\ <<x, y>> = <<s[m].op, s[n].op>>
    BY <1>2 DEF OlderIn
  <2> QED BY <2>1 DEF Before
<1>3. ASSUME NEW x \in LiveIn(s), NEW y \in LiveIn(s), Before(s, x, y) PROVE <<x, y>> \in OlderIn(s)
  <2>1. PICK m \in OpPlaces(s), n \in OpPlaces(s) : m < n /\ x = s[m].op /\ y = s[n].op
    BY <1>3 DEF Before
  <2>2. <<x, y>> \in LiveIn(s) \X LiveIn(s)
    OBVIOUS
  <2> QED BY <2>1, <2>2 DEF OlderIn
<1>4. OlderIn(s) \subseteq LiveIn(s) \X LiveIn(s)
  BY DEF OlderIn
<1> QED BY <1>1, <1>2, <1>3, <1>4

LEMMA OpTags ==
  ASSUME NEW s \in Seq(Flight), NEW n \in OpPlaces(s)
  PROVE  n \in DOMAIN s /\ n \in Nat \ {0} /\ s[n].op \in Op /\ s[n].op \in LiveIn(s)
<1>1. n \in DOMAIN s /\ n \in Nat \ {0} /\ s[n] \in Flight /\ s[n].kind \in Io
  BY DEF OpPlaces
<1>2. s[n].op \in Op
  BY <1>1 DEF Flight, Ops, Io
<1> QED BY <1>1, <1>2 DEF LiveIn

(* An operation enters.                                                    *)
LEMMA OpEnters ==
  ASSUME NEW s \in Seq(Flight), NEW x \in Flight
  PROVE  /\ x.kind \notin Io => /\ LiveIn(Append(s, x)) = LiveIn(s)
                                /\ OlderIn(Append(s, x)) = OlderIn(s)
         /\ x.kind \in Io => /\ LiveIn(Append(s, x)) = LiveIn(s) \cup {x.op}
                             /\ OlderIn(Append(s, x)) = OlderIn(s) \cup (LiveIn(s) \X {x.op})
<1> DEFINE t == Append(s, x)  N == Len(s) + 1
<1>1. /\ t \in Seq(Flight) /\ N \in Nat /\ DOMAIN s = 1 .. N - 1 /\ DOMAIN t = 1 .. N
      /\ t[N] = x /\ \A k \in 1 .. N - 1 : t[k] = s[k]
  OBVIOUS
<1>2. /\ \A k \in 1 .. N : k = N \/ k \in 1 .. N - 1
      /\ \A k \in 1 .. N - 1 : k \in 1 .. N /\ k < N
      /\ N \in 1 .. N
  OBVIOUS
<1> HIDE DEF t, N
<1>3. CASE x.kind \notin Io
  <2>1. OpPlaces(t) = OpPlaces(s) /\ \A n \in OpPlaces(s) : t[n] = s[n]
    BY <1>1, <1>2, <1>3 DEF OpPlaces
  <2>2. LiveIn(t) = LiveIn(s)
    BY <2>1 DEF LiveIn
  <2>3. OlderIn(t) = OlderIn(s)
    BY <2>1, <2>2 DEF OlderIn
  <2> QED BY <1>3, <2>2, <2>3 DEF t
<1>4. CASE x.kind \in Io
  <2>1. /\ OpPlaces(t) = OpPlaces(s) \cup {N} /\ \A n \in OpPlaces(s) : t[n] = s[n] /\ n < N
        /\ ~(N < N) /\ \A n \in OpPlaces(s) : ~(N < n)
    BY <1>1, <1>2, <1>4 DEF OpPlaces
  <2>2. LiveIn(t) = LiveIn(s) \cup {x.op}
    BY <1>1, <2>1 DEF LiveIn
  <2>3. ASSUME NEW a, NEW c
        PROVE  Before(t, a, c) <=> (Before(s, a, c) \/ (a \in LiveIn(s) /\ c = x.op))
    <3>1. ASSUME Before(t, a, c)
          PROVE  Before(s, a, c) \/ (a \in LiveIn(s) /\ c = x.op)
      <4>1. PICK m \in OpPlaces(t), n \in OpPlaces(t) : m < n /\ a = t[m].op /\ c = t[n].op
        BY <3>1 DEF Before
      <4>2. m \in OpPlaces(s) /\ a = s[m].op
        BY <2>1, <4>1
      <4>3. CASE n \in OpPlaces(s)
        BY <2>1, <4>1, <4>2, <4>3 DEF Before
      <4>4. CASE n = N
        BY <1>1, <4>1, <4>2, <4>4 DEF LiveIn
      <4> QED BY <2>1, <4>3, <4>4
    <3>2. ASSUME Before(s, a, c) PROVE Before(t, a, c)
      BY <2>1, <3>2 DEF Before
    <3>3. ASSUME a \in LiveIn(s), c = x.op PROVE Before(t, a, c)
      <4>1. PICK m \in OpPlaces(s) : a = s[m].op
        BY <3>3 DEF LiveIn
      <4>2. m \in OpPlaces(t) /\ N \in OpPlaces(t) /\ m < N /\ a = t[m].op /\ c = t[N].op
        BY <1>1, <2>1, <3>3, <4>1
      <4> QED BY <4>2 DEF Before
    <3> QED BY <3>1, <3>2, <3>3
  <2>4. OlderIn(t) = OlderIn(s) \cup (LiveIn(s) \X {x.op})
    <3> DEFINE L == LiveIn(t)  Y == OlderIn(s) \cup (LiveIn(s) \X {x.op})
    <3>1. OlderIn(s) \subseteq LiveIn(s) \X LiveIn(s) /\ OlderIn(t) \subseteq L \X L
      BY OlderPairs
    <3>2. Y \subseteq L \X L
      BY <2>2, <3>1
    <3>3. ASSUME NEW a \in L, NEW c \in L
          PROVE  <<a, c>> \in Y <=> (<<a, c>> \in OlderIn(s) \/ (a \in LiveIn(s) /\ c = x.op))
      OBVIOUS
    <3>4. ASSUME NEW a \in L, NEW c \in L
          PROVE  /\ <<a, c>> \in OlderIn(t) <=> Before(t, a, c)
                 /\ <<a, c>> \in OlderIn(s) <=> Before(s, a, c)
      <4>1. <<a, c>> \in OlderIn(t) <=> Before(t, a, c)
        BY OlderPairs
      <4>2. ASSUME <<a, c>> \in OlderIn(s) PROVE Before(s, a, c)
        <5>1. a \in LiveIn(s) /\ c \in LiveIn(s)
          BY <3>1, <4>2
        <5> QED BY <4>2, <5>1, OlderPairs
      <4>3. ASSUME Before(s, a, c) PROVE <<a, c>> \in OlderIn(s)
        BY <4>3, OlderPairs
      <4> QED BY <4>1, <4>2, <4>3
    <3>5. \A a \in L, c \in L : <<a, c>> \in OlderIn(t) <=> <<a, c>> \in Y
      <4> TAKE a \in L, c \in L
      <4> HIDE DEF L, Y
      <4>1. <<a, c>> \in Y <=> (<<a, c>> \in OlderIn(s) \/ (a \in LiveIn(s) /\ c = x.op))
        BY <3>3
      <4>2. /\ <<a, c>> \in OlderIn(t) <=> Before(t, a, c)
            /\ <<a, c>> \in OlderIn(s) <=> Before(s, a, c)
        BY <3>4
      <4>3. Before(t, a, c) <=> (Before(s, a, c) \/ (a \in LiveIn(s) /\ c = x.op))
        BY <2>3
      <4> QED BY <4>1, <4>2, <4>3
    <3> HIDE DEF L, Y
    <3>6. OlderIn(t) = Y
      BY <3>1, <3>2, <3>5, SamePairs
    <3> QED BY <3>6 DEF Y
  <2> QED BY <1>4, <2>2, <2>4 DEF t
<1> QED BY <1>3, <1>4

(* In t the instruction at place k of s is gone or is no operation any     *)
(* more; those behind it move up by d.                                     *)
MovesUp(s, t, k, d) ==
  /\ s \in Seq(Flight) /\ t \in Seq(Flight) /\ Distinct(s)
  /\ k \in DOMAIN s /\ d \in {0, 1} /\ (d = 1 => k = 1)
  /\ \A j \in Nat : j \in OpPlaces(t) <=> (j + d \in OpPlaces(s) /\ j + d # k)
  /\ \A j \in OpPlaces(t) : t[j].op = s[j + d].op

Drops(s, t, k) ==
  /\ s[k].kind \notin Io => LiveIn(t) = LiveIn(s) /\ OlderIn(t) = OlderIn(s)
  /\ s[k].kind \in Io =>
       /\ s[k].op \in Op /\ s[k].op \in LiveIn(s)
       /\ LiveIn(t) = LiveIn(s) \ {s[k].op}
       /\ OlderIn(t) = OlderIn(s) \cap (LiveIn(t) \X LiveIn(t))

LEMMA OpLeaves ==
  ASSUME NEW s, NEW t, NEW k, NEW d, MovesUp(s, t, k, d)
  PROVE  Drops(s, t, k)
<1>0. /\ s \in Seq(Flight) /\ t \in Seq(Flight) /\ Distinct(s)
      /\ k \in DOMAIN s /\ d \in {0, 1} /\ (d = 1 => k = 1)
      /\ \A j \in Nat : j \in OpPlaces(t) <=> (j + d \in OpPlaces(s) /\ j + d # k)
      /\ \A j \in OpPlaces(t) : t[j].op = s[j + d].op
  BY DEF MovesUp
<1> SUFFICES
       /\ s[k].kind \notin Io => LiveIn(t) = LiveIn(s) /\ OlderIn(t) = OlderIn(s)
       /\ s[k].kind \in Io =>
            /\ s[k].op \in Op /\ s[k].op \in LiveIn(s)
            /\ LiveIn(t) = LiveIn(s) \ {s[k].op}
            /\ OlderIn(t) = OlderIn(s) \cap (LiveIn(t) \X LiveIn(t))
  BY DEF Drops
<1> USE <1>0
<1>1. /\ \A n \in OpPlaces(s) : n \in DOMAIN s /\ n \in Nat \ {0} /\ s[n].op \in Op
      /\ \A n \in OpPlaces(t) : n \in Nat \ {0}
  BY OpTags
<1>2. ASSUME NEW n \in OpPlaces(s), n # k
      PROVE  \E j \in OpPlaces(t) : n = j + d /\ t[j].op = s[n].op
  <2>1. n - d \in Nat /\ n - d + d = n
    BY <1>1
  <2> QED BY <1>2, <2>1
<1>3. \A j \in OpPlaces(t) : j + d \in OpPlaces(s) /\ j + d # k /\ t[j].op = s[j + d].op
  BY <1>1
<1>4. ASSUME NEW x, NEW y
      PROVE  Before(t, x, y) <=>
               \E m, n \in OpPlaces(s) : m # k /\ n # k /\ m < n /\ x = s[m].op /\ y = s[n].op
  <2>1. ASSUME Before(t, x, y)
        PROVE  \E m, n \in OpPlaces(s) : m # k /\ n # k /\ m < n /\ x = s[m].op /\ y = s[n].op
    <3>1. PICK m \in OpPlaces(t), n \in OpPlaces(t) : m < n /\ x = t[m].op /\ y = t[n].op
      BY <2>1 DEF Before
    <3>2. m + d < n + d
      BY <1>1, <3>1
    <3> QED BY <1>3, <3>1, <3>2
  <2>2. ASSUME NEW m \in OpPlaces(s), NEW n \in OpPlaces(s),
               m # k, n # k, m < n, x = s[m].op, y = s[n].op
        PROVE  Before(t, x, y)
    <3>1. PICK i \in OpPlaces(t) : m = i + d /\ t[i].op = s[m].op
      BY <1>2, <2>2
    <3>2. PICK j \in OpPlaces(t) : n = j + d /\ t[j].op = s[n].op
      BY <1>2, <2>2
    <3>3. i < j
      BY <1>1, <2>2, <3>1, <3>2
    <3> QED BY <2>2, <3>1, <3>2, <3>3 DEF Before
  <2> QED BY <2>1, <2>2
<1>5. CASE s[k].kind \notin Io
  <2>1. \A n \in OpPlaces(s) : n # k
    BY <1>5 DEF OpPlaces
  <2>2. LiveIn(t) = LiveIn(s)
    BY <1>2, <1>3, <2>1 DEF LiveIn
  <2>3. ASSUME NEW x, NEW y PROVE Before(t, x, y) <=> Before(s, x, y)
    <3>1. ASSUME Before(t, x, y) PROVE Before(s, x, y)
      <4>1. PICK m \in OpPlaces(s), n \in OpPlaces(s) : m < n /\ x = s[m].op /\ y = s[n].op
        BY <1>4, <3>1
      <4> QED BY <4>1 DEF Before
    <3>2. ASSUME Before(s, x, y) PROVE Before(t, x, y)
      <4>1. PICK m \in OpPlaces(s), n \in OpPlaces(s) : m < n /\ x = s[m].op /\ y = s[n].op
        BY <3>2 DEF Before
      <4> QED BY <1>4, <2>1, <4>1
    <3> QED BY <3>1, <3>2
  <2>4. OlderIn(t) = OlderIn(s)
    <3>1. \A x, y \in LiveIn(s) : <<x, y>> \in OlderIn(t) <=> <<x, y>> \in OlderIn(s)
      BY <2>2, <2>3, OlderPairs
    <3>2. OlderIn(t) \subseteq LiveIn(s) \X LiveIn(s) /\ OlderIn(s) \subseteq LiveIn(s) \X LiveIn(s)
      BY <2>2, OlderPairs
    <3> QED BY <3>1, <3>2, SamePairs
  <2> QED BY <1>5, <2>2, <2>4
<1>6. CASE s[k].kind \in Io
  <2>1. k \in OpPlaces(s) /\ s[k].op \in Op /\ s[k].op \in LiveIn(s)
    BY <1>1, <1>6 DEF OpPlaces, LiveIn
  <2>2. \A n \in OpPlaces(s) : s[n].op = s[k].op <=> n = k
    BY <1>1, <2>1 DEF Distinct
  <2>3. LiveIn(t) = LiveIn(s) \ {s[k].op}
    <3>1. ASSUME NEW x \in LiveIn(t) PROVE x \in LiveIn(s) /\ x # s[k].op
      <4>1. PICK j \in OpPlaces(t) : x = t[j].op
        BY DEF LiveIn
      <4>2. j + d \in OpPlaces(s) /\ j + d # k /\ x = s[j + d].op
        BY <1>3, <4>1
      <4> QED BY <2>2, <4>2 DEF LiveIn
    <3>2. ASSUME NEW x \in LiveIn(s), x # s[k].op PROVE x \in LiveIn(t)
      <4>1. PICK n \in OpPlaces(s) : x = s[n].op
        BY DEF LiveIn
      <4>2. \E j \in OpPlaces(t) : t[j].op = s[n].op
        BY <1>2, <3>2, <4>1
      <4> QED BY <4>1, <4>2 DEF LiveIn
    <3> QED BY <3>1, <3>2
  <2>4. ASSUME NEW x \in LiveIn(t), NEW y \in LiveIn(t)
        PROVE  Before(t, x, y) <=> Before(s, x, y)
    <3>1. ASSUME Before(t, x, y) PROVE Before(s, x, y)
      <4>1. PICK m \in OpPlaces(s), n \in OpPlaces(s) : m < n /\ x = s[m].op /\ y = s[n].op
        BY <1>4, <3>1
      <4> QED BY <4>1 DEF Before
    <3>2. ASSUME Before(s, x, y) PROVE Before(t, x, y)
      <4>1. PICK m \in OpPlaces(s), n \in OpPlaces(s) : m < n /\ x = s[m].op /\ y = s[n].op
        BY <3>2 DEF Before
      <4>2. m # k /\ n # k
        BY <2>3, <4>1
      <4> QED BY <1>4, <4>1, <4>2
    <3> QED BY <3>1, <3>2
  <2>5. OlderIn(t) = OlderIn(s) \cap (LiveIn(t) \X LiveIn(t))
    <3>1. OlderIn(t) \subseteq LiveIn(t) \X LiveIn(t)
      BY OlderPairs
    <3>2. \A x \in LiveIn(t), y \in LiveIn(t) : <<x, y>> \in OlderIn(t) <=> <<x, y>> \in OlderIn(s)
      <4> TAKE x \in LiveIn(t), y \in LiveIn(t)
      <4>1. <<x, y>> \in OlderIn(t) <=> Before(t, x, y)
        BY OlderPairs
      <4>2. x \in LiveIn(s) /\ y \in LiveIn(s)
        BY <2>3
      <4>3. <<x, y>> \in OlderIn(s) <=> Before(s, x, y)
        BY <4>2, OlderPairs
      <4> QED BY <2>4, <4>1, <4>3
    <3> QED BY <3>1, <3>2, CutPairs
  <2> QED BY <1>6, <2>1, <2>3, <2>5
<1> QED BY <1>5, <1>6

LEMMA DeviceNow ==
  /\ Live = LiveIn(InOrder) /\ Older = OlderIn(InOrder)
  /\ Live' = LiveIn(InOrder') /\ Older' = OlderIn(InOrder')
  /\ UniqueTags <=> Distinct(InOrder)
BY DEF Live, Older, IoPlaces, LiveIn, OlderIn, OpPlaces, UniqueTags, Distinct

LEMMA OldestFirst ==
  ASSUME NEW s, NEW x \in LiveIn(s)
  PROVE  (\A y \in LiveIn(s) : <<y, x>> \notin OlderIn(s)) <=> \A y : ~Before(s, y, x)
BY OlderPairs

(* How far the started operation has come, by the place where it is.       *)
Stage(place) == CASE place = "none" -> "waiting"
                  [] place \in {"request", "read", "write"} -> "asked"
                  [] place \in {"data", "response", "answer"} -> "performed"

HeadFact == \A place \in Places \cup {"none"}, o \in Op \cup {None} :
              IoAt(place, o) /\ (place # "none" => o \in Op) => HeadState = Stage(place)

LEMMA SentIo ==
  ASSUME NEW q, NEW S, q \in Seq(S), \A m \in S : (m.of \in Op) <=> (m.id = 1)
  PROVE  ({q[n].of : n \in DOMAIN q} \cap Op = {}) <=> NoIo(q)
<1>1. \A n \in DOMAIN q : q[n] \in S
  OBVIOUS
<1>2. \A n \in DOMAIN q : (q[n].of \in Op) <=> (q[n].id = 1)
  BY <1>1
<1> QED BY <1>2 DEF NoIo

LEMMA HeadIs == LineShape => HeadFact
<1> SUFFICES ASSUME LineShape, NEW place \in Places \cup {"none"}, NEW o \in Op \cup {None},
                    IoAt(place, o), place # "none" => o \in Op
             PROVE  HeadState = Stage(place)
  BY DEF HeadFact
<1>1. /\ ar \in Seq(Msg) /\ Pend \in Seq(Msg) /\ b \in Seq(Msg) /\ r \in Seq(DataMsg)
      /\ io_req \in Seq(IoRequests)
  BY PendShape DEF LineShape
<1>2. \A m \in Msg : (m.of \in Op) <=> (m.id = 1)
  BY LineAssumption, MessageTypes
<1>3. \A m \in DataMsg : (m.of \in Op) <=> (m.id = 1)
  BY LineAssumption DEF DataMsg
<1>4. /\ {ar[n].of : n \in DOMAIN ar} \cap Op = {} <=> NoIo(ar)
      /\ {Pend[n].of : n \in DOMAIN Pend} \cap Op = {} <=> NoIo(Pend)
      /\ {r[n].of : n \in DOMAIN r} \cap Op = {} <=> NoIo(r)
      /\ {b[n].of : n \in DOMAIN b} \cap Op = {} <=> NoIo(b)
  BY <1>1, <1>2, <1>3, SentIo
<1>5. {m.of : m \in Pending} = {Pend[n].of : n \in DOMAIN Pend}
  BY DEF Pending, Pend, ToSet
<1>6. ({io_req[n].op : n \in DOMAIN io_req} \cap Op = {}) <=> io_req = <<>>
  <2>1. \A n \in DOMAIN io_req : io_req[n].op \in Op
    <3>1. \A n \in DOMAIN io_req : io_req[n] \in IoRequests
      BY <1>1
    <3> QED BY <3>1 DEF IoRequests
  <2>2. io_req # <<>> => 1 \in DOMAIN io_req
    BY <1>1
  <2>3. io_req = <<>> => DOMAIN io_req = {}
    BY <1>1
  <2> QED BY <2>1, <2>2, <2>3
<1>7. Sent \cap Op = {} <=> (io_req = <<>> /\ NoIo(ar) /\ NoIo(Pend))
  BY <1>4, <1>5, <1>6 DEF Sent
<1>8. wr_ioop_response = None => (Returned \cap Op = {} <=> (NoIo(r) /\ NoIo(b)))
  BY <1>4, LineAssumption DEF Returned
<1>9. wr_ioop_response \in Op => Returned \cap Op # {}
  BY DEF Returned
<1>10. \A q : Only(q, o) => ~NoIo(q)
  BY DEF Only, NoIo
<1>11. /\ io_req = <<>> <=> place # "request"
       /\ NoIo(ar) <=> place # "read"
       /\ NoIo(Pend) <=> place # "write"
       /\ NoIo(r) <=> place # "data"
       /\ NoIo(b) <=> place # "response"
       /\ wr_ioop_response = IF place = "answer" THEN o ELSE None
  BY <1>1, <1>10 DEF IoAt, IoIn
<1>12. CASE place = "none"
  BY <1>7, <1>8, <1>11, <1>12 DEF HeadState, Stage
<1>13. CASE place \in {"request", "read", "write"}
  BY <1>7, <1>11, <1>13 DEF HeadState, Stage
<1>14. CASE place \in {"data", "response"}
  BY <1>7, <1>8, <1>11, <1>14 DEF HeadState, Stage
<1>15. CASE place = "answer"
  BY <1>7, <1>9, <1>11, <1>15 DEF HeadState, Stage
<1> QED BY <1>12, <1>13, <1>14, <1>15 DEF Places


(* The steps of the path as steps of the device.                           *)
DeviceStep == [Device!DeviceNext]_(Device!deviceVars)

LEMMA HeadPhase ==
  ASSUME PathShape, IoInv, HeadFact
  PROVE  /\ ~rg_ioop_init => HeadState = "waiting"
         /\ rg_ioop_init => /\ isb_s4s5 # <<>> /\ Head(isb_s4s5).op \in Op
                            /\ \E place \in Places : /\ IoAt(place, Head(isb_s4s5).op)
                                                     /\ HeadState = Stage(place)
<1>1. CASE ~rg_ioop_init
  <2>1. IoAt("none", None)
    BY <1>1 DEF IoInv
  <2> QED BY <1>1, <2>1 DEF HeadFact, Stage
<1>2. CASE rg_ioop_init
  <2>1. isb_s4s5 # <<>> /\ Head(isb_s4s5).kind \in Io
    BY <1>2 DEF IoInv
  <2>2. Head(isb_s4s5).op \in Op
    <3>1. Head(isb_s4s5) \in Flight
      BY <2>1, HeadTail DEF PathShape
    <3> QED BY <2>1, <3>1 DEF Flight, Ops, Io
  <2>3. PICK place \in Places : IoAt(place, Head(isb_s4s5).op)
    BY <1>2 DEF IoInv
  <2>4. HeadState = Stage(place)
    BY <2>2, <2>3 DEF HeadFact
  <2> QED BY <1>2, <2>1, <2>2, <2>3, <2>4
<1> QED BY <1>1, <1>2 DEF PathShape

PhaseFact == /\ ~rg_ioop_init => HeadState = "waiting"
             /\ rg_ioop_init => \E place \in Places : /\ IoAt(place, Head(isb_s4s5).op)
                                                      /\ HeadState = Stage(place)

LEMMA PhaseNow == LineShape /\ PathShape /\ IoInv => PhaseFact
BY HeadIs, HeadPhase DEF PhaseFact

LEMMA PhaseAfter == LineShape' /\ PathShape' /\ IoInv' => PhaseFact'
BY PhaseNow, PTL

LEMMA HeadStays ==
  ASSUME UNCHANGED <<lineVars, wr_ioop_response>>
  PROVE  HeadState' = HeadState
BY DEF HeadState, Sent, Returned, Pending, lineVars, requests, responses, fabricVars

(* A new operation is issued.                                              *)
LEMMA Issues ==
  ASSUME LineShape, PathShape, NEW kind \in Kinds, rl_exe_base_memory(kind)
  PROVE  DeviceStep
<1> DEFINE i == [op |-> Tag(kind), kind |-> kind, epoch |-> rg_epoch]
<1>1. InOrder' = Append(InOrder, i) /\ InOrder \in Seq(Flight)
  BY Enters, InOrderShape DEF rl_exe_base_memory
<1>2. i.kind = kind /\ i.op = Tag(kind) /\ rg_epoch \in {0, 1} /\ kind \in Kind
  BY PathAssumption DEF PathShape
<1>3. kind \in Released => Tag(kind) \in Free
  BY TagFree DEF rl_exe_base_memory, Tag
<1>4. i \in Flight
  <2>1. CASE kind \in Released
    BY <1>2, <1>3, <2>1 DEF Flight, Ops, Free
  <2>2. CASE kind \notin Released
    BY <1>2, <2>2 DEF Flight, Tag, Kind, Released, Io
  <2> QED BY <2>1, <2>2
<1>5. \A o \in Live : o \notin Free
  <2>1. ASSUME NEW o \in Live PROVE o \notin Free
    <3>1. PICK n \in DOMAIN InOrder : o = InOrder[n].op
      BY DEF Live, IoPlaces
    <3>2. \/ n \in DOMAIN isb_s4s5 /\ InOrder[n] = isb_s4s5[n]
          \/ /\ n - Len(isb_s4s5) \in DOMAIN isb_s3s4
             /\ InOrder[n] = isb_s3s4[n - Len(isb_s4s5)]
      BY DEF InOrder, PathShape
    <3>3. o \in Tagged(isb_s3s4) \cup Tagged(isb_s4s5)
      BY <3>1, <3>2 DEF Tagged
    <3> QED BY <3>3 DEF Free
  <2> QED BY <2>1
<1>6. HeadState' = HeadState
  BY HeadStays DEF rl_exe_base_memory
<1> HIDE DEF i
<1>7. CASE kind \notin Io
  <2>1. Live' = Live /\ Older' = Older
    BY <1>1, <1>2, <1>4, <1>7, DeviceNow, OpEnters
  <2> QED BY <1>6, <2>1 DEF DeviceStep, Device!deviceVars
<1>8. CASE kind \in Io
  <2>1. Live' = Live \cup {i.op} /\ Older' = Older \cup (Live \X {i.op})
    BY <1>1, <1>2, <1>4, <1>8, DeviceNow, OpEnters
  <2>2. i.op \in Free /\ i.op \in Op
    BY <1>2, <1>3, <1>8 DEF Released, Free
  <2>3. Device!Issue(i.op)
    BY <1>5, <1>6, <2>1, <2>2 DEF Device!Issue
  <2> QED BY <2>2, <2>3 DEF DeviceStep, Device!DeviceNext
<1> QED BY <1>7, <1>8

(* An operation that faulted or had its data loses its tag.                *)
LEMMA Cancels ==
  ASSUME LineShape, PathShape, IoInv, UniqueTags, NEW x \in Flight, isb_s3s4 # <<>>, Forward(x),
         x = Head(isb_s3s4) \/ (x.op = None /\ x.kind \in {"trap", "base"}),
         UNCHANGED <<lineVars, wr_ioop_response>>
  PROVE  DeviceStep
<1> DEFINE s == InOrder  t == InOrder'  k == Len(isb_s4s5) + 1
<1>1. /\ t = [s EXCEPT ![k] = x] /\ k \in DOMAIN s /\ s[k] = Head(isb_s3s4)
      /\ s \in Seq(Flight) /\ Len(isb_s4s5) \in Nat
  BY Forwards, InOrderShape DEF PathShape
<1>2. HeadState' = HeadState
  BY HeadStays
<1>3. /\ Live = LiveIn(s) /\ Older = OlderIn(s) /\ Live' = LiveIn(t) /\ Older' = OlderIn(t)
      /\ Distinct(s)
  BY DeviceNow
<1>4. \A j \in DOMAIN isb_s4s5 : j \in DOMAIN s /\ s[j] = isb_s4s5[j]
  BY InOrderShape
<1> HIDE DEF s, t
<1>5. /\ t \in Seq(Flight) /\ DOMAIN t = DOMAIN s
      /\ \A j \in DOMAIN s : t[j] = IF j = k THEN x ELSE s[j]
  BY <1>1
<1>6. CASE x = Head(isb_s3s4)
  <2>1. OpPlaces(t) = OpPlaces(s) /\ \A j \in OpPlaces(s) : t[j] = s[j]
    BY <1>1, <1>5, <1>6 DEF OpPlaces
  <2>2. LiveIn(t) = LiveIn(s)
    BY <2>1 DEF LiveIn
  <2>3. OlderIn(t) = OlderIn(s)
    BY <2>1, <2>2 DEF OlderIn
  <2> QED BY <1>2, <1>3, <2>2, <2>3 DEF DeviceStep, Device!deviceVars
<1>7. CASE x.op = None /\ x.kind \in {"trap", "base"}
  <2> HIDE DEF k
  <2>1. OpPlaces(t) = OpPlaces(s) \ {k} /\ \A j \in OpPlaces(t) : t[j] = s[j]
    BY <1>1, <1>5, <1>7 DEF OpPlaces, Io
  <2>2. /\ \A j \in Nat : j \in OpPlaces(t) <=> (j + 0 \in OpPlaces(s) /\ j + 0 # k)
        /\ \A j \in OpPlaces(t) : t[j].op = s[j + 0].op
    <3>1. OpPlaces(t) \subseteq Nat
      BY <1>5, OpTags
    <3> QED BY <2>1, <3>1
  <2>3. Drops(s, t, k)
    <3>1. s \in Seq(Flight) /\ t \in Seq(Flight) /\ Distinct(s) /\ k \in DOMAIN s
      BY <1>1, <1>3, <1>5
    <3>2. 0 \in {0, 1} /\ (0 = 1 => k = 1)
      OBVIOUS
    <3>3. MovesUp(s, t, k, 0)
      BY <2>2, <3>1, <3>2, Zenon DEF MovesUp
    <3> QED BY <3>3, OpLeaves
  <2>4. CASE s[k].kind \notin Io
    BY <1>2, <1>3, <2>3, <2>4 DEF DeviceStep, Device!deviceVars, Drops
  <2>5. CASE s[k].kind \in Io
    <3>1. Device!Oldest(s[k].op) => HeadState = "waiting"
      <4>1. CASE ~rg_ioop_init
        BY <4>1, HeadIs, HeadPhase
      <4>2. CASE rg_ioop_init
        <5>1. isb_s4s5 # <<>> /\ Head(isb_s4s5).kind \in Io
          BY <4>2 DEF IoInv
        <5>2. 1 \in DOMAIN isb_s4s5 /\ Head(isb_s4s5) = isb_s4s5[1] /\ 1 < k
          BY <5>1, HeadTail DEF PathShape, k
        <5>3. 1 \in OpPlaces(s) /\ k \in OpPlaces(s)
          BY <1>1, <1>4, <2>5, <5>1, <5>2 DEF OpPlaces
        <5>4. Before(s, s[1].op, s[k].op)
          BY <5>2, <5>3 DEF Before
        <5>5. s[1].op \in LiveIn(s) /\ <<s[1].op, s[k].op>> \in OlderIn(s)
          BY <5>4, OlderPairs
        <5> QED BY <1>3, <5>5 DEF Device!Oldest
      <4> QED BY <4>1, <4>2
    <3>2. Device!IsOver(s[k].op)
      BY <1>3, <2>3, <2>5 DEF Device!IsOver, Drops
    <3>3. Device!GiveUp(s[k].op)
      BY <1>2, <3>1, <3>2 DEF Device!GiveUp
    <3> QED BY <2>3, <2>5, <3>3 DEF DeviceStep, Device!DeviceNext, Drops
  <2> QED BY <2>4, <2>5
<1> QED BY <1>6, <1>7

LEMMA OpFirst ==
  ASSUME NEW s \in Seq(Flight), s # <<>>, Distinct(s)
  PROVE  Drops(s, Tail(s), 1)
<1> DEFINE t == Tail(s)
<1>1. /\ t \in Seq(Flight) /\ 1 \in DOMAIN s
      /\ \A j \in Nat : j \in DOMAIN t <=> (j + 1 \in DOMAIN s /\ j # 0)
      /\ \A j \in DOMAIN t : t[j] = s[j + 1]
  OBVIOUS
<1> HIDE DEF t
<1>2. \A n \in OpPlaces(t) : n \in Nat \ {0} /\ n \in DOMAIN t
  BY <1>1, OpTags
<1>3. \A j \in Nat : j \in OpPlaces(t) <=> (j + 1 \in OpPlaces(s) /\ j + 1 # 1)
  BY <1>1 DEF OpPlaces
<1>4. \A j \in OpPlaces(t) : t[j].op = s[j + 1].op
  BY <1>1, <1>2
<1>5. 1 \in {0, 1} /\ (1 = 1 => 1 = 1)
  OBVIOUS
<1>6. MovesUp(s, t, 1, 1)
  BY <1>1, <1>3, <1>4, <1>5, Zenon DEF MovesUp
<1> QED BY <1>6, OpLeaves DEF t

(* The oldest instruction leaves.                                          *)
LEMMA LeavesFirst ==
  ASSUME PathShape, UniqueTags, isb_s4s5 # <<>>, Leave
  PROVE  /\ Head(isb_s4s5).kind \notin Io => Live' = Live /\ Older' = Older
         /\ Head(isb_s4s5).kind \in Io =>
              /\ Head(isb_s4s5).op \in Op
              /\ Device!IsOver(Head(isb_s4s5).op) /\ Device!Oldest(Head(isb_s4s5).op)
<1> DEFINE s == InOrder  t == Tail(s)
<1>1. /\ s \in Seq(Flight) /\ s # <<>> /\ s[1] = Head(isb_s4s5) /\ InOrder' = t
  <2>1. s \in Seq(Flight) /\ s # <<>> /\ Head(s) = Head(isb_s4s5)
    BY InOrderShape
  <2>2. Head(s) = s[1]
    BY <2>1, HeadTail
  <2> QED BY <2>1, <2>2, Leaves
<1>2. /\ Live = LiveIn(s) /\ Older = OlderIn(s) /\ Live' = LiveIn(t) /\ Older' = OlderIn(t)
      /\ Distinct(s)
  <2>1. Live' = LiveIn(InOrder') /\ Older' = OlderIn(InOrder')
    BY DeviceNow
  <2> QED BY <1>1, <2>1, DeviceNow
<1> HIDE DEF s, t
<1>3. Drops(s, t, 1)
  BY <1>1, <1>2, OpFirst DEF t
<1>4. CASE s[1].kind \notin Io
  BY <1>1, <1>2, <1>3, <1>4 DEF Drops
<1>5. CASE s[1].kind \in Io
  <2>1. Device!IsOver(s[1].op) /\ s[1].op \in Op /\ s[1].op \in LiveIn(s)
    BY <1>2, <1>3, <1>5 DEF Drops, Device!IsOver
  <2>2. ASSUME NEW y, Before(s, y, s[1].op) PROVE FALSE
    <3>1. PICK m \in OpPlaces(s), n \in OpPlaces(s) : m < n /\ s[1].op = s[n].op
      BY <2>2 DEF Before
    <3>2. m \in Nat \ {0} /\ n \in DOMAIN s /\ 1 \in DOMAIN s
      BY <1>1, OpTags
    <3>3. n = 1
      BY <1>2, <2>1, <3>1, <3>2 DEF Distinct
    <3> QED BY <3>1, <3>2, <3>3
  <2>3. \A y \in LiveIn(s) : <<y, s[1].op>> \notin OlderIn(s)
    BY <2>1, <2>2, OldestFirst
  <2>4. Device!Oldest(s[1].op)
    BY <1>2, <2>1, <2>3 DEF Device!Oldest
  <2> QED BY <1>1, <1>5, <2>1, <2>4
<1> QED BY <1>1, <1>4, <1>5

LEMMA Commits ==
  ASSUME IInv, IInv',
         \/ rl_writeback_trap \/ rl_writeback_baseout \/ rl_writeback_memop_store
         \/ rl_writeback_memop_init \/ rl_writeback_memop_done \/ rl_writeback_memop_drop
  PROVE  DeviceStep
<1> DEFINE i == Head(isb_s4s5)
<1>1. LineShape /\ PathShape /\ IoInv /\ UniqueTags /\ BuffersInStep /\ PhaseFact
  BY PhaseNow DEF IInv
<1>2. LineShape' /\ PathShape' /\ IoInv' /\ PhaseFact'
  BY PhaseAfter DEF IInv
<1>3. isb_s4s5 # <<>>
  BY DEF rl_writeback_trap, rl_writeback_baseout, rl_writeback_memop_store,
         rl_writeback_memop_init, rl_writeback_memop_done, rl_writeback_memop_drop, AtWb
<1>4. i.kind \in Io => i.op \in Op
  <2>1. i \in Flight
    BY <1>1, <1>3, HeadTail DEF PathShape
  <2> QED BY <2>1 DEF Flight, Ops, Io
<1>5. Leave => /\ i.kind \notin Io => Live' = Live /\ Older' = Older
               /\ i.kind \in Io => /\ i.op \in Op /\ Device!IsOver(i.op) /\ Device!Oldest(i.op)
  BY <1>1, <1>3, LeavesFirst
<1> HIDE DEF i
<1>6. CASE rl_writeback_trap \/ rl_writeback_baseout \/ rl_writeback_memop_store
  <2>1. Leave /\ i.kind \notin Io /\ UNCHANGED <<lineVars, wr_ioop_response>>
    BY <1>6 DEF rl_writeback_trap, rl_writeback_baseout, rl_writeback_memop_store, AtWb, Io, i
  <2>2. UNCHANGED <<Live, Older, HeadState>>
    BY <1>5, <2>1, HeadStays
  <2> QED BY <2>2 DEF DeviceStep, Device!deviceVars
<1>7. CASE rl_writeback_memop_init
  <2>1. /\ ~rg_ioop_init /\ rg_ioop_init' = TRUE /\ i.kind \in Io /\ i.epoch = rg_epoch
        /\ UNCHANGED pipeVars /\ ma_commit_io /\ wr_ioop_response' = wr_ioop_response
    BY <1>7, Zenon DEF rl_writeback_memop_init, AtWb, epochs_match, i
  <2>2. HeadState = "waiting" /\ IoAt("none", None)
    BY <1>1, <2>1 DEF PhaseFact, IoInv
  <2>3. wr_ioop_response = None
    BY <2>2 DEF IoAt
  <2>4. io_buffer # <<>> /\ Head(io_buffer) = Head(isb_s4s5)
    BY <1>1, <1>3, <2>1, <2>3, OldestIo DEF i
  <2>5. io_req' = Append(io_req, IoRequest(Head(io_buffer)))
    BY <2>1, <2>4 DEF ma_commit_io, i
  <2>6. io_req' # <<>>
    <3>1. io_req = <<>>
      BY <2>2 DEF IoAt
    <3>2. \A x : Append(<<>>, x) = <<x>> /\ <<x>> # <<>>
      OBVIOUS
    <3> QED BY <2>5, <3>1, <3>2
  <2>7. PICK place \in Places : IoAt(place, Head(isb_s4s5).op)' /\ HeadState' = Stage(place)
    BY <1>2, <2>1 DEF PhaseFact
  <2>8. HeadState' = "asked"
    <3>1. place = "request"
      BY <2>6, <2>7 DEF IoAt
    <3> QED BY <2>7, <3>1 DEF Stage
  <2>9. Live # {} /\ UNCHANGED <<Live, Older>>
    <3>1. UNCHANGED InOrder
      BY <2>1 DEF pipeVars, InOrder
    <3>2. UNCHANGED <<Live, Older>>
      BY <3>1, DeviceNow
    <3>3. 1 \in DOMAIN InOrder /\ InOrder[1] = i
      <4>1. InOrder \in Seq(Flight) /\ InOrder # <<>> /\ Head(InOrder) = i
        BY <1>1, <1>3, InOrderShape DEF i
      <4> QED BY <4>1, HeadTail
    <3> QED BY <2>1, <3>2, <3>3 DEF Live, IoPlaces
  <2>10. Device!Ask
    BY <2>2, <2>8, <2>9 DEF Device!Ask
  <2> QED BY <2>10 DEF DeviceStep, Device!DeviceNext
<1>8. CASE rl_writeback_memop_done
  <2>1. /\ rg_ioop_init /\ rg_ioop_init' = FALSE /\ i.kind \in Io
        /\ wr_ioop_response # None /\ Leave
    BY <1>8, Zenon DEF rl_writeback_memop_done, AtWb, i
  <2>2. PICK place \in Places : IoAt(place, Head(isb_s4s5).op) /\ HeadState = Stage(place)
    BY <1>1, <2>1 DEF PhaseFact
  <2>3. HeadState = "performed"
    <3>1. place = "answer"
      BY <2>1, <2>2 DEF IoAt
    <3> QED BY <2>2, <3>1 DEF Stage
  <2>4. HeadState' = "waiting"
    BY <1>2, <2>1 DEF PhaseFact
  <2>5. i.op \in Live
    BY <1>5, <2>1 DEF Device!IsOver
  <2>6. Device!Finish
    BY <1>5, <2>1, <2>3, <2>4, <2>5 DEF Device!Finish
  <2> QED BY <2>6 DEF DeviceStep, Device!DeviceNext
<1>9. CASE rl_writeback_memop_drop
  <2>1. /\ i.kind \in Io /\ i.epoch # rg_epoch /\ Leave
        /\ UNCHANGED wbVars
    BY <1>9, Zenon DEF rl_writeback_memop_drop, AtWb, epochs_match, i
  <2>2. ~rg_ioop_init /\ ~rg_ioop_init'
    <3>1. ~rg_ioop_init
      BY <1>1, <2>1 DEF IoInv, i
    <3> QED BY <2>1, <3>1 DEF wbVars
  <2>3. HeadState = "waiting" /\ HeadState' = "waiting"
    BY <1>1, <1>2, <2>2 DEF PhaseFact
  <2>4. Device!GiveUp(i.op) /\ i.op \in Op
    BY <1>4, <1>5, <2>1, <2>3 DEF Device!GiveUp
  <2> QED BY <2>4 DEF DeviceStep, Device!DeviceNext
<1> QED BY <1>6, <1>7, <1>8, <1>9

(* The operation travels to the device and its answer back.                *)
LEMMA Travels ==
  ASSUME IInv, IInv', UNCHANGED pathVars,
         \/ UNCHANGED <<io_req, ar, accepted, aw, r, b>>
         \/ rl_handle_dmem_line_read_request \/ rl_handle_delayed_read
         \/ rl_handle_dmem_line_resp \/ rl_handle_dmem_write_request
         \/ rl_initiate_io \/ handle_dmem_line_write_resp
         \/ FabricWrite \/ (\E id \in {0, 1} : FabricRead(id))
  PROVE  DeviceStep
<1>1. LineShape /\ PathShape /\ IoInv /\ PhaseFact
  BY PhaseNow DEF IInv
<1>2. LineShape' /\ PathShape' /\ IoInv' /\ PhaseFact' /\ HeadFact'
  <2>1. LineShape' => HeadFact'
    BY HeadIs, PTL
  <2> QED BY <2>1, PhaseAfter DEF IInv
<1>3. UNCHANGED <<Live, Older, rg_ioop_init, isb_s4s5, wr_ioop_response>>
  <2>1. UNCHANGED <<InOrder, rg_ioop_init, isb_s4s5, wr_ioop_response>>
    BY DEF pathVars, pipeVars, wbVars, InOrder
  <2> QED BY <2>1, DeviceNow
<1>4. CASE ~rg_ioop_init
  <2>1. UNCHANGED HeadState
    BY <1>1, <1>2, <1>3, <1>4 DEF PhaseFact
  <2> QED BY <1>3, <2>1 DEF DeviceStep, Device!deviceVars
<1>5. CASE rg_ioop_init
  <2>1. PICK o \in Op : o = Head(isb_s4s5).op
    BY <1>1, <1>5, HeadIs, HeadPhase
  <2>2. PICK place \in Places : IoAt(place, o) /\ HeadState = Stage(place)
    BY <1>1, <1>5, <2>1 DEF PhaseFact
  <2>3. IoSteps(place, o)
    BY <1>1, <1>3, <2>2, LineIoSteps
  <2>4. ASSUME NEW next \in Places, IoAt(next, o)' PROVE HeadState' = Stage(next)
    BY <1>2, <2>1, <2>4 DEF HeadFact
  <2>5. \/ HeadState' = Stage(place)
        \/ place = "request" /\ HeadState' \in {Stage("read"), Stage("write")}
        \/ place = "read" /\ HeadState' = Stage("data")
        \/ place = "write" /\ HeadState' = Stage("response")
    BY <2>2, <2>3, <2>4 DEF IoSteps, Places
  <2>6. HeadState' = HeadState \/ (HeadState = "asked" /\ HeadState' = "performed")
    BY <2>2, <2>5 DEF Stage
  <2>7. CASE HeadState' = HeadState
    BY <1>3, <2>7 DEF DeviceStep, Device!deviceVars
  <2>8. CASE HeadState = "asked" /\ HeadState' = "performed"
    BY <1>3, <2>8 DEF DeviceStep, Device!DeviceNext, Device!Perform
  <2> QED BY <2>6, <2>7, <2>8
<1> QED BY <1>1, <1>4, <1>5 DEF PathShape

LEMMA Returns ==
  ASSUME IInv, IInv', IoRead \/ IoWritten
  PROVE  DeviceStep
<1>1. LineShape /\ PathShape /\ IoInv /\ BuffersInStep /\ HeadFact
  BY HeadIs DEF IInv
<1>2. PhaseFact'
  BY PhaseAfter DEF IInv
<1>3. \E ch \in {r, b} : \E a \in IoAnswer(ch) : wr_ioop_response' = a.of
  BY DEF IoRead, IoWritten, IoResponse
<1>4. UNCHANGED <<Live, Older, rg_ioop_init>>
  <2>1. UNCHANGED <<InOrder, rg_ioop_init>>
    BY DEF IoRead, IoWritten, IoResponse, pipeVars, wbVars, InOrder
  <2> QED BY <2>1, DeviceNow
<1>5. PICK ch \in {r, b} : \E a \in IoAnswer(ch) : wr_ioop_response' = a.of
  BY <1>3
<1>6. PICK a \in IoAnswer(ch) : wr_ioop_response' = a.of
  BY <1>5
<1>7. \E S : ch \in Seq(S)
  BY <1>1 DEF LineShape
<1>8. /\ rg_ioop_init /\ a.of \in Op /\ Head(isb_s4s5).op \in Op
      /\ IoAt(IF ch = r THEN "data" ELSE "response", Head(isb_s4s5).op)
  BY <1>1, <1>6, <1>7, AnswerComes
<1>9. HeadState = "performed"
  <2>1. CASE ch = r
    BY <1>1, <1>8, <2>1 DEF HeadFact, Places, Stage
  <2>2. CASE ch # r
    BY <1>1, <1>8, <2>2 DEF HeadFact, Places, Stage
  <2> QED BY <2>1, <2>2
<1>10. HeadState' = "performed"
  <2>1. PICK place \in Places : IoAt(place, Head(isb_s4s5).op)' /\ HeadState' = Stage(place)
    BY <1>2, <1>4, <1>8 DEF PhaseFact
  <2>2. wr_ioop_response' # None
    BY <1>6, <1>8, LineAssumption
  <2>3. place = "answer"
    BY <2>1, <2>2 DEF IoAt
  <2> QED BY <2>1, <2>3 DEF Stage
<1> QED BY <1>4, <1>9, <1>10 DEF DeviceStep, Device!deviceVars

LEMMA StepsRight ==
  ASSUME IInv, IInv', [Next]_vars
  PROVE  DeviceStep
<1>1. LineShape /\ PathShape /\ IoInv /\ UniqueTags
  BY DEF IInv
<1>2. CASE Stage3
  BY <1>1, <1>2, Issues DEF Stage3
<1>3. ASSUME UNCHANGED <<pipeVars, lineVars, wr_ioop_response>> PROVE DeviceStep
  <2>1. UNCHANGED InOrder
    BY <1>3 DEF pipeVars, InOrder
  <2>2. UNCHANGED <<Live, Older, HeadState>>
    BY <1>3, <2>1, DeviceNow, HeadStays
  <2> QED BY <2>2 DEF DeviceStep, Device!deviceVars
<1>4. CASE Stage4
  <2>1. CASE rl_handle_memory
    <3>1. UNCHANGED <<lineVars, wr_ioop_response>> /\ isb_s3s4 # <<>>
      BY <2>1 DEF rl_handle_memory
    <3>2. CASE UNCHANGED pipeVars
      BY <1>3, <3>1, <3>2
    <3>3. ASSUME NEW x \in Flight, Forward(x),
                 x = Head(isb_s3s4) \/ (x.op = None /\ x.kind \in {"trap", "base"})
          PROVE  DeviceStep
      BY <1>1, <3>1, <3>3, Cancels
    <3> QED BY <1>1, <2>1, <3>2, <3>3, Handles
  <2>2. CASE rl_fwd_trapout
    <3>1. /\ UNCHANGED <<lineVars, wr_ioop_response>> /\ isb_s3s4 # <<>>
          /\ Forward(Head(isb_s3s4))
      BY <2>2 DEF rl_fwd_trapout
    <3>2. Head(isb_s3s4) \in Flight
      BY <1>1, <3>1, HeadTail DEF PathShape
    <3> QED BY <1>1, <3>1, <3>2, Cancels
  <2> QED BY <1>4, <2>1, <2>2 DEF Stage4
<1>5. CASE Stage5
  BY <1>5, Commits DEF Stage5
<1>6. CASE UNCHANGED vars
  BY <1>3, <1>6 DEF vars, pathVars
<1>7. CASE CacheAnswers
  BY <1>3, <1>7 DEF CacheAnswers
<1>8. CASE IoRead \/ IoWritten
  BY <1>8, Returns
<1>9. CASE CacheEvicts \/ CacheMisses \/ (rl_dmem_burst_write_data /\ UNCHANGED pathVars)
  <2>1. UNCHANGED pathVars /\ UNCHANGED <<io_req, ar, accepted, aw, r, b>>
    BY <1>9 DEF CacheEvicts, CacheMisses, Evict, Miss, rl_dmem_burst_write_data,
                requests, responses, fabricVars
  <2> QED BY <2>1, Travels
<1>10. CASE \/ LineReads \/ DelayedReads \/ (rl_handle_dmem_write_request /\ UNCHANGED pathVars)
            \/ InitiateIo \/ LineFilled \/ LineWritten \/ FabricWrites
            \/ \E id \in {0, 1} : FabricReads(id)
  BY <1>10, Travels DEF LineReads, DelayedReads, InitiateIo, LineFilled, LineWritten,
                        FabricWrites, FabricReads
<1> QED BY <1>2, <1>4, <1>5, <1>6, <1>7, <1>8, <1>9, <1>10 DEF Next, LineWrites

(* Devices see the I/O operations of the program one at a time, in program *)
(* order and once, and only those that commit: the hand-shake of write-back *)
(* with the cache, the rules of ccore and the cancelling of operations     *)
(* behind a trap implement DeviceOnce.                                     *)
THEOREM Refinement == Spec => ImplementsDevice
<1>1. Init => Device!DeviceInit
  <2> SUFFICES ASSUME Init PROVE Device!DeviceInit
    OBVIOUS
  <2>1. IInv /\ PhaseFact
    BY Start, PhaseNow DEF IInv
  <2>2. HeadState = "waiting"
    BY <2>1 DEF PhaseFact, Init
  <2>3. InOrder = <<>>
    BY DEF Init, InOrder
  <2>4. IoPlaces = {}
    BY <2>3 DEF IoPlaces
  <2>5. Live = {} /\ Older = {}
    BY <2>4 DEF Live, Older
  <2> QED BY <2>2, <2>5 DEF Device!DeviceInit
<1>2. IInv /\ IInv' /\ [Next]_vars => [Device!DeviceNext]_(Device!deviceVars)
  BY StepsRight DEF DeviceStep
<1> QED
  BY Invariant, <1>1, <1>2, PTL DEF Spec, ImplementsDevice, Device!DeviceSpec
=============================================================================
