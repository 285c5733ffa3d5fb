-------------------------- MODULE Execution_proofs --------------------------
(***************************************************************************)
(* The execution of an instruction: its operands (OperandBypass) and, for  *)
(* a multiplication or a division, its result (Mbox), for every value of   *)
(* the constants of the two.                                               *)
(*                                                                         *)
(* OPERANDS.  The types, that ids do not repeat in flight, that locks have *)
(* an owner and, in the build without WAW stalls, that an available        *)
(* operand is the latest.  The two buffers are read as one queue, InOrder, *)
(* to which stage3 appends and from which stage5 takes; stage4 relabels    *)
(* one entry.  Ids count up along the queue (Numbered), so that they tell  *)
(* the entries apart.  The scoreboard has, for a locked register, the id   *)
(* of its last writer (LocksHaveWriter), and every writer's register is    *)
(* locked (WritersLock): what a matching id releases or offers is          *)
(* therefore the last writer, whose value is the latest (LatestResult),    *)
(* and a register without a lock has no writer in flight (Untouched).      *)
(*                                                                         *)
(* RESULTS.  The types, that every answer is the one the instruction set   *)
(* specifies, that no result meets a full queue and, with two registers in *)
(* the multiplier, that no trap is lost.  Numbers come first: the powers   *)
(* of two, that quotient and remainder are unique, and that each bit of    *)
(* the restoring division is the next digit of the quotient (Brought), the *)
(* signs and halves of a word.  Then the unit: the queue of ff_ordering    *)
(* agrees with what is under way (Counted), each product of the queue is   *)
(* in the register of its age and no register holds anything else          *)
(* (Pipeline), and the divider works for the one division of the queue, of *)
(* which n cycles have brought n * StepBits digits (DividerInv).           *)
(***************************************************************************)
EXTENDS OperandBypass, Mbox, FunctionTheorems, FiniteSetTheorems, SequenceTheorems,
        WellFoundedInduction, TLAPS

-----------------------------------------------------------------------------
(* Operands.                                                               *)

InOrder == pipe4 \o pipe3

LastWriter(q, k) == \A j \in 1..Len(q) : j > k => q[j].rd # q[k].rd

(* The ids count up to n along the queue, modulo RENAME_IDS.               *)
Numbered(q, n) ==
  \A k \in 1..Len(q) :
    LET d == Len(q) + 1 - k
    IN q[k].id = IF n >= d THEN n - d ELSE n - d + RENAME_IDS

WritersLock(q, b) == \A k \in 1..Len(q) : q[k].rd # 0 => b[q[k].rd].lock

LocksHaveWriter(q, b) ==
  \A r \in Reg : b[r].lock =>
    \E k \in 1..Len(q) : q[k].rd = r /\ q[k].id = b[r].id /\ LastWriter(q, k)

(* The entries of an old path come first.                                  *)
StaleFirst(q, w) ==
  \A i, j \in 1..Len(q) : i < j /\ q[i].ep = w => q[j].ep = w

Untouched(q, w, s, f) ==
  \A r \in Reg : (\A k \in 1..Len(q) : q[k].ep = w => q[k].rd # r) => s[r] = f[r]

HasResult(y, w) == y.ep = w /\ y.rd # 0 /\ y.op \notin {"TRAP", "XRET"}

LatestResult(q, w, s) ==
  \A k \in 1..Len(q) : HasResult(q[k], w) /\ LastWriter(q, k) => q[k].val = s[q[k].rd]

Owned(q, b) == WritersLock(q, b) /\ LocksHaveWriter(q, b)
Valued(q, w, s, f) == StaleFirst(q, w) /\ Untouched(q, w, s, f) /\ LatestResult(q, w, s)

(* x0 is never locked nor written, and a waiting operand follows rf.       *)
ZeroIsFree == ~rg_rf_board[0].lock /\ spec[0] = rf[0]
OperandsFollow == \A i \in {1, 2} : rg_op[i].data = rf[rg_op[i].addr]

IInv ==
  /\ TypeOK
  /\ Numbered(InOrder, rg_renameid)
  /\ Owned(InOrder, rg_rf_board)
  /\ Valued(InOrder, wEpoch, spec, rf)
  /\ ZeroIsFree
  /\ OperandsFollow

-----------------------------------------------------------------------------
(* Sequences and types.                                                    *)

LEMMA Constants ==
  /\ Reg \subseteq Nat /\ 0 \in Reg /\ 0 \in Val
  /\ DEPTH34 \in Nat \ {0} /\ DEPTH45 \in Nat \ {0}
  /\ RENAME_IDS \in Nat /\ RENAME_IDS >= DEPTH34 + DEPTH45
  /\ WAW_STALLS \in BOOLEAN
BY BypassAssumption

(* What Append, Tail and Head do to a buffer.                              *)
LEMMA Queue ==
  ASSUME NEW S, NEW q \in Seq(S), NEW y \in S
  PROVE  /\ Len(q) \in Nat
         /\ Append(q, y) \in Seq(S) /\ Len(Append(q, y)) = Len(q) + 1
         /\ q # <<>> => /\ Head(q) \in S /\ Head(q) = q[1]
                        /\ Tail(q) \in Seq(S) /\ Len(Tail(q)) = Len(q) - 1
OBVIOUS

LEMMA NextIdType ==
  ASSUME NEW n \in 0..RENAME_IDS - 1
  PROVE  (n + 1) % RENAME_IDS = IF n + 1 = RENAME_IDS THEN 0 ELSE n + 1
BY Constants

LEMMA HeadOfPipe2 ==
  ASSUME TypeOK, pipe2 # <<>>
  PROVE  /\ x2.kind \in Kinds /\ x2.rd \in Reg /\ x2.rs1 \in Reg /\ x2.rs2 \in Reg
         /\ x2.ep \in {0, 1}
<1>1. Head(pipe2) \in Decoded
  BY DEF TypeOK
<1> QED
  BY <1>1 DEF x2, Decoded

LEMMA ResultTypes == \A v \in Results : v \in Val
BY Constants DEF Results

LEMMA LockTypes ==
  ASSUME TypeOK, NEW r \in Reg, Lock(r)
  PROVE  /\ rg_rf_board' \in [Reg -> [lock : BOOLEAN, id : 0 .. RENAME_IDS - 1]]
         /\ rg_renameid' \in 0 .. RENAME_IDS - 1
<1>1. 0 \in 0 .. RENAME_IDS - 1
  BY Constants
<1>2. rg_renameid' \in 0 .. RENAME_IDS - 1
  BY NextIdType, Constants, <1>1 DEF Lock, NextId, TypeOK
<1> DEFINE e == [lock |-> TRUE, id |-> IF WAW_STALLS THEN 0 ELSE rg_renameid]
<1>3. e \in [lock : BOOLEAN, id : 0 .. RENAME_IDS - 1]
  BY <1>1 DEF TypeOK
<1>4. rg_rf_board' = IF r = 0 THEN rg_rf_board ELSE [rg_rf_board EXCEPT ![r] = e]
  BY DEF Lock
<1> HIDE DEF e
<1> QED
  BY <1>2, <1>3, <1>4 DEF TypeOK

LEMMA IssueTypes ==
  ASSUME TypeOK, pipe2 # <<>>, NEW v \in Val,
         NEW op \in {"BASE", "MEMORY", "MULDIV", "CSR", "XRET", "TRAP"}, Issue(op, v)
  PROVE  TypeOK'
<1> DEFINE y == [op |-> op, rd |-> x2.rd, ep |-> x2.ep, val |-> v,
                 id |-> IF WAW_STALLS THEN 0 ELSE rg_renameid]
<1>1. y \in Entry
  BY HeadOfPipe2, Constants DEF Entry, TypeOK
<1>2. pipe3' = Append(pipe3, y) /\ Len(pipe3) < DEPTH34
  BY DEF Issue
<1> HIDE DEF y
<1>3. pipe3' \in Seq(Entry) /\ Len(pipe3') <= DEPTH34
  BY <1>1, <1>2, Constants, Queue DEF TypeOK
<1>4. rg_rf_board' \in [Reg -> [lock : BOOLEAN, id : 0 .. RENAME_IDS - 1]]
      /\ rg_renameid' \in 0 .. RENAME_IDS - 1
  BY HeadOfPipe2, LockTypes DEF Issue
<1>5. spec' \in [Reg -> Val]
  BY HeadOfPipe2 DEF Issue, TypeOK
<1>6. pipe2' = <<>>
  BY DEF Issue
<1>7. UNCHANGED <<rf, rg_op, rg_stall, pipe4, wEpoch>>
  BY DEF Issue
<1> QED
  BY <1>3, <1>4, <1>5, <1>6, <1>7 DEF TypeOK

LEMMA DecodeTypes == TypeOK /\ Decode => TypeOK'
<1> SUFFICES ASSUME TypeOK, Decode PROVE TypeOK'
  OBVIOUS
<1>1. PICK x \in Instructions :
        /\ pipe2' = <<[kind |-> x.kind, rd |-> x.rd, rs1 |-> x.rs1, rs2 |-> x.rs2,
                       ep |-> wEpoch]>>
        /\ rg_op' = [i \in {1, 2} |->
             LET a == IF i = 1 THEN x.rs1 ELSE x.rs2 IN [addr |-> a, data |-> rf[a]]]
        /\ rg_stall' = (x.kind = "TRAP")
  BY DEF Decode
<1>2. x \in [kind : Kinds, rd : Reg, rs1 : Reg, rs2 : Reg]
  BY BypassAssumption
<1>3. pipe2' \in Seq(Decoded) /\ Len(pipe2') <= 1
  <2> DEFINE d == [kind |-> x.kind, rd |-> x.rd, rs1 |-> x.rs1, rs2 |-> x.rs2, ep |-> wEpoch]
  <2>1. d \in Decoded
    BY <1>2 DEF TypeOK, Decoded
  <2>2. pipe2' = <<d>>
    BY <1>1
  <2> HIDE DEF d
  <2> QED
    BY <2>1, <2>2
<1>4. rg_op' \in [{1, 2} -> [addr : Reg, data : Val]]
  BY <1>1, <1>2 DEF TypeOK
<1>5. UNCHANGED <<rf, rg_rf_board, rg_renameid, pipe3, pipe4, wEpoch, spec>>
  BY DEF Decode
<1> QED
  BY <1>1, <1>3, <1>4, <1>5 DEF TypeOK

LEMMA CollectTypes == TypeOK /\ Collect => TypeOK'
<1> SUFFICES ASSUME TypeOK, Collect PROVE TypeOK'
  OBVIOUS
<1>1. PICK op \in Collected(Head(pipe3).op) :
        pipe4' = Append(pipe4, [Head(pipe3) EXCEPT !.op = op])
  BY DEF Collect
<1>2. Head(pipe3) \in Entry
  BY Queue DEF Collect, TypeOK
<1>3. op \in {"BASE", "MEMORY", "MULDIV", "CSR", "XRET", "TRAP"}
  BY <1>2 DEF Collected, Entry
<1>4. [Head(pipe3) EXCEPT !.op = op] \in Entry
  BY <1>2, <1>3 DEF Entry
<1>5. pipe4' \in Seq(Entry) /\ Len(pipe4') <= DEPTH45
  BY SMTT(20), <1>1, <1>4, Queue, Constants DEF Collect, TypeOK
<1>6. pipe3' \in Seq(Entry) /\ Len(pipe3') <= DEPTH34
  BY <1>2, Queue, Constants DEF Collect, TypeOK
<1>7. UNCHANGED <<rf, rg_rf_board, rg_renameid, pipe2, rg_op, rg_stall, wEpoch, spec>>
  BY DEF Collect
<1> QED
  BY <1>5, <1>6, <1>7 DEF TypeOK

LEMMA ReleaseTypes ==
  ASSUME TypeOK, NEW y \in Entry, Release(y)
  PROVE  rg_rf_board' \in [Reg -> [lock : BOOLEAN, id : 0 .. RENAME_IDS - 1]]
<1>1. CASE UNCHANGED rg_rf_board
  BY <1>1 DEF TypeOK
<1>2. CASE rg_rf_board' = [rg_rf_board EXCEPT ![y.rd].lock = FALSE]
  <2>1. y.rd \in Reg
    BY DEF Entry
  <2> QED
    BY <1>2, <2>1 DEF TypeOK
<1> QED
  BY <1>1, <1>2 DEF Release

LEMMA WriteBackTypes == TypeOK /\ WriteBack => TypeOK'
<1> SUFFICES ASSUME TypeOK, WriteBack PROVE TypeOK'
  OBVIOUS
<1>1. pipe4 # <<>> /\ pipe4' = Tail(pipe4) /\ UNCHANGED <<rg_renameid, pipe2, pipe3>>
  BY DEF WriteBack, WriteBackDrop, Commit, Flush
<1>2. x4 \in Entry /\ pipe4' \in Seq(Entry) /\ Len(pipe4') <= DEPTH45
  <2>1. Head(pipe4) \in Entry /\ Tail(pipe4) \in Seq(Entry) /\ Len(Tail(pipe4)) = Len(pipe4) - 1
        /\ Len(pipe4) \in Nat
    BY <1>1 DEF TypeOK
  <2> QED
    BY <1>1, <2>1, Constants DEF x4, TypeOK
<1>3. rg_rf_board' \in [Reg -> [lock : BOOLEAN, id : 0 .. RENAME_IDS - 1]]
  BY <1>2, ReleaseTypes DEF WriteBack, WriteBackDrop, DropReleases, Commit, Flush
<1>4. rf' \in [Reg -> Val] /\ spec' \in [Reg -> Val]
  BY <1>2 DEF WriteBack, WriteBackDrop, Commit, Flush, Write, Entry, TypeOK
<1>5. rg_op' \in [{1, 2} -> [addr : Reg, data : Val]]
  <2>1. CASE UNCHANGED rg_op
    BY <2>1 DEF TypeOK
  <2>2. CASE rg_op' = OperandsAfter(x4.rd, x4.val)
    <3>1. x4.val \in Val
      BY <1>2 DEF Entry
    <3>2. \A i \in {1, 2} : rg_op[i] \in [addr : Reg, data : Val]
      BY DEF TypeOK
    <3>3. \A i \in {1, 2} : [rg_op[i] EXCEPT !.data = x4.val] \in [addr : Reg, data : Val]
      BY <3>1, <3>2
    <3> QED
      BY <2>2, <3>2, <3>3 DEF OperandsAfter
  <2> QED
    BY <2>1, <2>2 DEF WriteBack, WriteBackDrop, Commit, Flush, Write
<1>6. rg_stall' \in BOOLEAN /\ wEpoch' \in {0, 1}
  <2>1. (rg_stall' = rg_stall /\ wEpoch' = wEpoch) \/ (rg_stall' = FALSE /\ wEpoch' = 1 - wEpoch)
    BY Zenon DEF WriteBack, WriteBackDrop, Commit, Flush
  <2>2. rg_stall' \in BOOLEAN
    BY <2>1, Zenon DEF TypeOK
  <2>3. wEpoch' \in {0, 1}
    BY <2>1, SMT DEF TypeOK
  <2> QED
    BY <2>2, <2>3
<1>7. rg_renameid' \in 0 .. RENAME_IDS - 1 /\ pipe2' \in Seq(Decoded) /\ Len(pipe2') <= 1
      /\ pipe3' \in Seq(Entry) /\ Len(pipe3') <= DEPTH34
  BY <1>1 DEF TypeOK
<1> QED
  BY <1>2, <1>3, <1>4, <1>5, <1>6, <1>7 DEF TypeOK

(* What an execution issues.                                               *)
LEMMA Executions ==
  ASSUME TypeOK, Execute, ~ExeDrop
  PROVE  /\ pipe2 # <<>> /\ x2.ep = wEpoch
         /\ \E v \in Val, op \in {"BASE", "MEMORY", "MULDIV", "CSR", "XRET", "TRAP"} :
              Issue(op, v)
<1>1. CASE ExeSystem
  BY <1>1, ResultTypes DEF ExeSystem, Ready
<1>2. CASE ExeTrap
  BY <1>2, Constants DEF ExeTrap, Ready
<1>3. CASE ExeArith
  BY <1>3, ResultTypes DEF ExeArith, Ready
<1>4. CASE ExeMulDiv
  BY <1>4, ResultTypes DEF ExeMulDiv, Ready
<1>5. CASE ExeMemory
  BY <1>5, ResultTypes, Constants DEF ExeMemory, Ready
<1> QED
  BY <1>1, <1>2, <1>3, <1>4, <1>5 DEF Execute

LEMMA ExeDropTypes == TypeOK /\ ExeDrop => TypeOK'
BY DEF ExeDrop, TypeOK

LEMMA TypeStep == TypeOK /\ [Next]_vars => TypeOK'
<1> SUFFICES ASSUME TypeOK, [Next]_vars PROVE TypeOK'
  OBVIOUS
<1>1. CASE Decode
  BY <1>1, DecodeTypes
<1>2. CASE ExeDrop
  BY <1>2, ExeDropTypes
<1>3. CASE Execute /\ ~ExeDrop
  BY <1>3, Executions, IssueTypes
<1>4. CASE Collect
  BY <1>4, CollectTypes
<1>5. CASE WriteBack
  BY <1>5, WriteBackTypes
<1>6. CASE UNCHANGED vars
  BY <1>6 DEF vars, TypeOK
<1> QED
  BY <1>1, <1>2, <1>3, <1>4, <1>5, <1>6 DEF Next

LEMMA TypeInit == Init => TypeOK
<1> SUFFICES ASSUME Init PROVE TypeOK
  OBVIOUS
<1>1. 0 \in 0 .. RENAME_IDS - 1
  BY Constants
<1>2. rf \in [Reg -> Val] /\ spec \in [Reg -> Val]
      /\ rg_op \in [{1, 2} -> [addr : Reg, data : Val]]
  BY Constants DEF Init
<1>3. rg_rf_board \in [Reg -> [lock : BOOLEAN, id : 0 .. RENAME_IDS - 1]]
  BY <1>1 DEF Init
<1>4. Len(<<>>) = 0
  OBVIOUS
<1>5. <<>> \in Seq(Decoded) /\ <<>> \in Seq(Entry)
  OBVIOUS
<1>6. DEPTH34 >= 0 /\ DEPTH45 >= 0
  BY Constants
<1>7. rg_renameid \in 0 .. RENAME_IDS - 1 /\ rg_stall \in BOOLEAN /\ wEpoch \in {0, 1}
  BY <1>1 DEF Init
<1>8. pipe2 = <<>> /\ pipe3 = <<>> /\ pipe4 = <<>>
  BY DEF Init
<1> QED
  BY <1>2, <1>3, <1>4, <1>5, <1>6, <1>7, <1>8 DEF TypeOK

-----------------------------------------------------------------------------
(* What the three operations do to the queue.                              *)

Appended(q, p, y) ==
  /\ Len(p) = Len(q) + 1 /\ p[Len(q) + 1] = y
  /\ \A k \in 1..Len(q) : p[k] = q[k]

Relabelled(q, p) ==
  /\ Len(p) = Len(q)
  /\ \A k \in 1..Len(q) :
       /\ p[k].rd = q[k].rd /\ p[k].id = q[k].id /\ p[k].ep = q[k].ep /\ p[k].val = q[k].val
       /\ p[k].op \notin {"TRAP", "XRET"} => q[k].op \notin {"TRAP", "XRET"}

Taken(q, p) ==
  /\ Len(q) > 0 /\ Len(p) = Len(q) - 1
  /\ \A k \in 1..Len(p) : p[k] = q[k + 1]

LEMMA Concat ==
  ASSUME NEW S, NEW p \in Seq(S), NEW q \in Seq(S)
  PROVE  /\ p \o q \in Seq(S)
         /\ Len(p) \in Nat /\ Len(q) \in Nat /\ Len(p \o q) = Len(p) + Len(q)
         /\ \A k \in 1..Len(p) : (p \o q)[k] = p[k]
         /\ \A k \in Len(p) + 1 .. Len(p) + Len(q) : (p \o q)[k] = q[k - Len(p)]
OBVIOUS

LEMMA IssueAppends ==
  ASSUME NEW S, NEW a \in Seq(S), NEW b \in Seq(S), NEW y \in S
  PROVE  Appended(a \o b, a \o Append(b, y), y)
BY DEF Appended

LEMMA CommitTakes ==
  ASSUME NEW S, NEW a \in Seq(S), NEW b \in Seq(S), a # <<>>
  PROVE  Taken(a \o b, Tail(a) \o b) /\ (a \o b)[1] = Head(a)
BY DEF Taken

LEMMA CollectRelabels ==
  ASSUME NEW a \in Seq(Entry), NEW b \in Seq(Entry), b # <<>>,
         NEW op \in Collected(Head(b).op)
  PROVE  Relabelled(a \o b, Append(a, [Head(b) EXCEPT !.op = op]) \o Tail(b))
<1> DEFINE y == Head(b)
           z == [Head(b) EXCEPT !.op = op]
<1>1. y \in Entry
  OBVIOUS
<1>2. z.rd = y.rd /\ z.id = y.id /\ z.ep = y.ep /\ z.val = y.val /\ z.op = op
  BY <1>1 DEF Entry
<1>3. op \notin {"TRAP", "XRET"} => y.op \notin {"TRAP", "XRET"}
  BY DEF Collected
<1>4. z \in Entry
  <2>1. op \in {"BASE", "MEMORY", "MULDIV", "CSR", "XRET", "TRAP"}
    BY <1>1 DEF Collected, Entry
  <2> QED
    BY <1>1, <2>1 DEF Entry
<1>5. b[1] = y
  OBVIOUS
<1> HIDE DEF y, z
<1> DEFINE p == Append(a, z) \o Tail(b)
<1>6. /\ Len(a) \in Nat /\ Len(b) \in Nat /\ Len(b) > 0
      /\ Len(a \o b) = Len(a) + Len(b) /\ Len(p) = Len(a) + Len(b)
  BY <1>4
<1>7. ASSUME NEW k \in 1..Len(a) + Len(b)
      PROVE  IF k = Len(a) + 1 THEN p[k] = z /\ (a \o b)[k] = y ELSE p[k] = (a \o b)[k]
  BY <1>4, <1>5
<1> QED
  BY <1>2, <1>3, <1>6, <1>7 DEF Relabelled, z

(* The ids.                                                                *)
LEMMA NumberedUnique ==
  ASSUME NEW q \in Seq(Entry), NEW n \in 0..RENAME_IDS - 1, Numbered(q, n),
         Len(q) <= RENAME_IDS
  PROVE  \A i, j \in 1..Len(q) : q[i].id = q[j].id => i = j
BY SMTT(20), Constants DEF Numbered

LEMMA NumberedNext ==
  ASSUME NEW q \in Seq(Entry), NEW p \in Seq(Entry), NEW y,
         NEW n \in 0..RENAME_IDS - 1, Numbered(q, n),
         Len(q) < RENAME_IDS, Appended(q, p, y), y.id = n
  PROVE  Numbered(p, (n + 1) % RENAME_IDS)
<1> DEFINE m == (n + 1) % RENAME_IDS
<1>1. m = IF n + 1 = RENAME_IDS THEN 0 ELSE n + 1
  BY NextIdType
<1>2. RENAME_IDS \in Nat /\ Len(q) \in Nat /\ Len(p) = Len(q) + 1
  BY Constants DEF Appended
<1> HIDE DEF m
<1>3. ASSUME NEW k \in 1..Len(p)
      PROVE  LET d == Len(p) + 1 - k
             IN p[k].id = IF m >= d THEN m - d ELSE m - d + RENAME_IDS
  <2>1. CASE k = Len(p)
    <3>1. p[k].id = n
      BY <1>2, <2>1 DEF Appended
    <3>2. Len(p) + 1 - k = 1
      BY <1>2, <2>1
    <3> QED
      BY <1>1, <1>2, <3>1, <3>2
  <2>2. CASE k # Len(p)
    <3>1. k \in 1..Len(q) /\ p[k] = q[k]
      BY <1>2, <2>2 DEF Appended
    <3>2. q[k].id = IF n >= Len(q) + 1 - k THEN n - (Len(q) + 1 - k)
                    ELSE n - (Len(q) + 1 - k) + RENAME_IDS
      BY <3>1 DEF Numbered
    <3> QED
      BY <1>1, <1>2, <3>1, <3>2
  <2> QED
    BY <2>1, <2>2
<1> QED
  BY <1>3 DEF Numbered, m

LEMMA NumberedTaken ==
  ASSUME NEW q \in Seq(Entry), NEW p \in Seq(Entry), NEW n \in 0..RENAME_IDS - 1,
         Numbered(q, n), Taken(q, p)
  PROVE  Numbered(p, n)
<1>1. ASSUME NEW k \in 1..Len(p)
      PROVE  LET d == Len(p) + 1 - k
             IN p[k].id = IF n >= d THEN n - d ELSE n - d + RENAME_IDS
  <2>1. k + 1 \in 1..Len(q) /\ p[k] = q[k + 1] /\ Len(q) + 1 - (k + 1) = Len(p) + 1 - k
    BY SMTT(20) DEF Taken
  <2> QED
    BY <2>1 DEF Numbered
<1> QED
  BY <1>1 DEF Numbered

LEMMA NumberedRelabelled ==
  ASSUME NEW q \in Seq(Entry), NEW p \in Seq(Entry), NEW n, Numbered(q, n), Relabelled(q, p)
  PROVE  Numbered(p, n)
BY DEF Numbered, Relabelled

(* The locks.                                                              *)
Board == [Reg -> [lock : BOOLEAN, id : 0 .. RENAME_IDS - 1]]

LockedFor(b, y) ==
  IF y.rd = 0 THEN b ELSE [b EXCEPT ![y.rd] = [lock |-> TRUE, id |-> y.id]]

ReleasedBy(b, y) ==
  IF y.rd # 0 /\ y.id = b[y.rd].id THEN [b EXCEPT ![y.rd].lock = FALSE] ELSE b

LEMMA Fields ==
  ASSUME NEW q \in Seq(Entry)
  PROVE  \A k \in 1..Len(q) : /\ q[k].op \in {"BASE", "MEMORY", "MULDIV", "CSR", "XRET", "TRAP"}
                              /\ q[k].rd \in Reg /\ q[k].ep \in {0, 1} /\ q[k].val \in Val
<1>1. \A k \in 1..Len(q) : q[k] \in Entry
  OBVIOUS
<1> QED
  BY <1>1 DEF Entry

LEMMA OwnedAppended ==
  ASSUME NEW q \in Seq(Entry), NEW p \in Seq(Entry), NEW y \in Entry, NEW b \in Board,
         Owned(q, b), ~b[0].lock, Appended(q, p, y)
  PROVE  Owned(p, LockedFor(b, y)) /\ ~LockedFor(b, y)[0].lock
<1> DEFINE c == LockedFor(b, y)
<1>0. y.rd \in Reg /\ 0 \in Reg /\ \A k \in 1..Len(q) : q[k].rd \in Reg
  <2>1. y.rd \in Reg
    BY DEF Entry
  <2> QED
    BY <2>1, Constants, Fields
<1>1. \A r \in Reg : c[r] = IF r # 0 /\ r = y.rd THEN [lock |-> TRUE, id |-> y.id] ELSE b[r]
  BY <1>0 DEF LockedFor, Board
<1> HIDE DEF c
<1>2. ~c[0].lock
  BY <1>0, <1>1
<1>3. Len(q) \in Nat /\ Len(p) = Len(q) + 1 /\ p[Len(q) + 1] = y
      /\ \A k \in 1..Len(q) : p[k] = q[k]
  BY DEF Appended
<1>4. ASSUME NEW k \in 1..Len(p), p[k].rd # 0 PROVE c[p[k].rd].lock
  <2>1. CASE k = Len(q) + 1
    BY <1>0, <1>1, <1>3, <1>4, <2>1
  <2>2. CASE k # Len(q) + 1
    <3>1. k \in 1..Len(q) /\ p[k] = q[k]
      BY <1>3, <2>2
    <3>2. b[q[k].rd].lock
      BY <1>4, <3>1 DEF Owned, WritersLock
    <3> QED
      BY <1>0, <1>1, <3>1, <3>2
  <2> QED
    BY <2>1, <2>2
<1>5. ASSUME NEW r \in Reg, c[r].lock
      PROVE  \E k \in 1..Len(p) : p[k].rd = r /\ p[k].id = c[r].id /\ LastWriter(p, k)
  <2>1. CASE r # 0 /\ r = y.rd
    <3>1. p[Len(p)].rd = r /\ p[Len(p)].id = c[r].id /\ Len(p) \in 1..Len(p)
      BY <1>1, <1>3, <2>1
    <3>2. LastWriter(p, Len(p))
      BY <1>3 DEF LastWriter
    <3> QED
      BY <3>1, <3>2
  <2>2. CASE ~(r # 0 /\ r = y.rd)
    <3>1. b[r].lock /\ c[r] = b[r]
      BY <1>1, <1>5, <2>2
    <3>2. r # 0
      BY <3>1
    <3>3. PICK k \in 1..Len(q) : q[k].rd = r /\ q[k].id = b[r].id /\ LastWriter(q, k)
      BY <3>1 DEF Owned, LocksHaveWriter
    <3>4. k \in 1..Len(p) /\ p[k] = q[k]
      BY <1>3
    <3>5. LastWriter(p, k)
      BY SMTT(20), <1>3, <2>2, <3>2, <3>3, <3>4 DEF LastWriter
    <3> QED
      BY <3>1, <3>3, <3>4, <3>5
  <2> QED
    BY <2>1, <2>2
<1> QED
  BY <1>2, <1>4, <1>5 DEF Owned, WritersLock, LocksHaveWriter, c

(* A release by a matching id is that of the last writer, and so of the    *)
(* only one.                                                               *)
LEMMA OwnedTaken ==
  ASSUME NEW q \in Seq(Entry), NEW p \in Seq(Entry), NEW b \in Board,
         Owned(q, b), ~b[0].lock, Taken(q, p),
         \A i, j \in 1..Len(q) : q[i].id = q[j].id => i = j
  PROVE  Owned(p, ReleasedBy(b, q[1])) /\ ~ReleasedBy(b, q[1])[0].lock
<1> DEFINE c == ReleasedBy(b, q[1])
           mine == q[1].rd # 0 /\ q[1].id = b[q[1].rd].id
<1>0. 0 \in Reg /\ 1 \in 1..Len(q) /\ \A k \in 1..Len(q) : q[k].rd \in Reg
  BY Constants, Fields DEF Taken
<1>1. \A r \in Reg : /\ c[r].id = b[r].id
                     /\ c[r].lock <=> b[r].lock /\ ~(mine /\ r = q[1].rd)
  BY <1>0 DEF ReleasedBy, Board
<1>2. Len(q) \in Nat /\ Len(q) > 0 /\ Len(p) = Len(q) - 1
      /\ \A k \in 1..Len(p) : p[k] = q[k + 1]
  BY DEF Taken
<1>3. ASSUME NEW r \in Reg, b[r].lock, NEW k \in 1..Len(q),
             q[k].rd = r, q[k].id = b[r].id, LastWriter(q, k)
      PROVE  mine /\ r = q[1].rd => \A j \in 1..Len(q) : j # 1 => q[j].rd # r
  <2> SUFFICES ASSUME mine, r = q[1].rd PROVE \A j \in 1..Len(q) : j # 1 => q[j].rd # r
    OBVIOUS
  <2>1. k = 1
    BY <1>0, <1>3
  <2> QED
    BY <1>3, <2>1 DEF LastWriter
<1> HIDE DEF c
<1>4. ~c[0].lock
  BY <1>0, <1>1
<1>5. ASSUME NEW k \in 1..Len(p), p[k].rd # 0 PROVE c[p[k].rd].lock
  <2>1. k + 1 \in 1..Len(q) /\ p[k] = q[k + 1] /\ k + 1 # 1
    BY <1>2
  <2>2. b[q[k + 1].rd].lock /\ q[k + 1].rd \in Reg
    BY <1>0, <1>5, <2>1 DEF Owned, WritersLock
  <2>3. PICK m \in 1..Len(q) : q[m].rd = q[k + 1].rd /\ q[m].id = b[q[k + 1].rd].id
                               /\ LastWriter(q, m)
    BY <2>2 DEF Owned, LocksHaveWriter
  <2>4. ~(mine /\ q[k + 1].rd = q[1].rd)
    BY <1>3, <2>1, <2>2, <2>3
  <2> QED
    BY <1>1, <2>1, <2>2, <2>4
<1>6. ASSUME NEW r \in Reg, c[r].lock
      PROVE  \E k \in 1..Len(p) : p[k].rd = r /\ p[k].id = c[r].id /\ LastWriter(p, k)
  <2>1. b[r].lock /\ c[r].id = b[r].id /\ ~(mine /\ r = q[1].rd)
    BY <1>1, <1>6
  <2>2. PICK m \in 1..Len(q) : q[m].rd = r /\ q[m].id = b[r].id /\ LastWriter(q, m)
    BY <2>1 DEF Owned, LocksHaveWriter
  <2>3. m # 1
    <3> SUFFICES ASSUME m = 1 PROVE FALSE
      OBVIOUS
    <3>1. r # 0
      BY <2>1
    <3> QED
      BY <2>1, <2>2, <3>1
  <2>4. m - 1 \in 1..Len(p) /\ p[m - 1] = q[m]
    BY <1>2, <2>3
  <2>5. LastWriter(p, m - 1)
    <3>1. ASSUME NEW j \in 1..Len(p), j > m - 1 PROVE p[j].rd # p[m - 1].rd
      <4>1. j + 1 \in 1..Len(q) /\ j + 1 > m /\ p[j] = q[j + 1]
        BY <1>2, <3>1
      <4> QED
        BY <2>2, <2>4, <4>1 DEF LastWriter
    <3> QED
      BY <3>1 DEF LastWriter
  <2> QED
    BY <2>1, <2>2, <2>4, <2>5
<1> QED
  BY <1>4, <1>5, <1>6 DEF Owned, WritersLock, LocksHaveWriter, c

LEMMA OwnedRelabelled ==
  ASSUME NEW q \in Seq(Entry), NEW p \in Seq(Entry), NEW b, Owned(q, b), Relabelled(q, p)
  PROVE  Owned(p, b)
<1>1. \A k \in 1..Len(p) : k \in 1..Len(q) /\ p[k].rd = q[k].rd /\ p[k].id = q[k].id
  BY DEF Relabelled
<1>2. Len(p) = Len(q)
  BY DEF Relabelled
<1>3. \A k \in 1..Len(q) : LastWriter(q, k) => LastWriter(p, k)
  BY <1>1, <1>2 DEF LastWriter
<1> QED
  BY <1>1, <1>2, <1>3 DEF Owned, WritersLock, LocksHaveWriter

(* The values, after an issue and after a commit.                          *)
SpecAfter(s, y) ==
  IF y.rd = 0 \/ y.op \in {"TRAP", "XRET"} THEN s ELSE [s EXCEPT ![y.rd] = y.val]

CommitTo(f, y) == IF y.rd = 0 THEN f ELSE [f EXCEPT ![y.rd] = y.val]

LEMMA ValuedAppended ==
  ASSUME NEW q \in Seq(Entry), NEW p \in Seq(Entry), NEW y \in Entry,
         NEW s \in [Reg -> Val], NEW f \in [Reg -> Val],
         Appended(q, p, y), Valued(q, y.ep, s, f), s[0] = f[0]
  PROVE  Valued(p, y.ep, SpecAfter(s, y), f) /\ SpecAfter(s, y)[0] = f[0]
<1> DEFINE t == SpecAfter(s, y)
<1>0. y.rd \in Reg /\ 0 \in Reg
  BY Constants DEF Entry
<1>1. Len(q) \in Nat /\ Len(p) = Len(q) + 1 /\ p[Len(q) + 1] = y
      /\ \A k \in 1..Len(q) : p[k] = q[k]
  BY DEF Appended
<1>2. /\ \A r \in Reg : r # y.rd \/ r = 0 => t[r] = s[r]
      /\ y.rd # 0 /\ y.op \notin {"TRAP", "XRET"} => t[y.rd] = y.val
  BY <1>0 DEF SpecAfter
<1> HIDE DEF t
<1>3. StaleFirst(p, y.ep)
  <2>1. ASSUME NEW i \in 1..Len(p), NEW j \in 1..Len(p), i < j, p[i].ep = y.ep
        PROVE  p[j].ep = y.ep
    <3>1. CASE j = Len(q) + 1
      BY <1>1, <3>1
    <3>2. CASE j # Len(q) + 1
      <4>1. i \in 1..Len(q) /\ j \in 1..Len(q)
        BY SMTT(20), <1>1, <2>1, <3>2
      <4> QED
        BY <1>1, <2>1, <4>1 DEF Valued, StaleFirst
    <3> QED
      BY <3>1, <3>2
  <2> QED
    BY <2>1 DEF StaleFirst
<1>4. Untouched(p, y.ep, t, f)
  <2> SUFFICES ASSUME NEW r \in Reg, \A k \in 1..Len(p) : p[k].ep = y.ep => p[k].rd # r
               PROVE  t[r] = f[r]
    BY DEF Untouched
  <2>1. Len(p) \in 1..Len(p) /\ p[Len(p)] = y
    BY <1>1
  <2>2. r # y.rd
    BY <2>1
  <2>3. \A k \in 1..Len(q) : q[k].ep = y.ep => q[k].rd # r
    BY <1>1
  <2>4. s[r] = f[r]
    BY <2>3 DEF Valued, Untouched
  <2> QED
    BY <1>2, <2>2, <2>4
<1>5. LatestResult(p, y.ep, t)
  <2> SUFFICES ASSUME NEW k \in 1..Len(p), HasResult(p[k], y.ep), LastWriter(p, k)
               PROVE  p[k].val = t[p[k].rd]
    BY DEF LatestResult
  <2>1. CASE k = Len(q) + 1
    BY <1>1, <1>2, <2>1 DEF HasResult
  <2>2. CASE k # Len(q) + 1
    <3>1. k \in 1..Len(q) /\ p[k] = q[k]
      BY <1>1, <2>2
    <3>2. LastWriter(q, k)
      BY <1>1, <3>1 DEF LastWriter
    <3>3. q[k].rd # y.rd
      <4>1. Len(p) \in 1..Len(p) /\ Len(p) > k /\ p[Len(p)] = y
        BY <1>1, <3>1
      <4> QED
        BY <3>1, <4>1 DEF LastWriter
    <3>4. q[k].val = s[q[k].rd]
      BY <3>1, <3>2 DEF Valued, LatestResult
    <3>5. q[k].rd \in Reg
      BY <3>1, Fields
    <3> QED
      BY <1>2, <3>1, <3>3, <3>4, <3>5
  <2> QED
    BY <2>1, <2>2
<1> QED
  BY <1>0, <1>2, <1>3, <1>4, <1>5 DEF Valued, t

(* What is left in the queue when its head goes.                           *)
LEMMA StaleTaken ==
  ASSUME NEW q \in Seq(Entry), NEW p \in Seq(Entry), NEW w, StaleFirst(q, w), Taken(q, p)
  PROVE  /\ StaleFirst(p, w)
         /\ q[1].ep = w => \A k \in 1..Len(p) : p[k].ep = w
<1>1. Len(q) \in Nat /\ Len(q) > 0 /\ Len(p) = Len(q) - 1
      /\ \A k \in 1..Len(p) : p[k] = q[k + 1] /\ k + 1 \in 1..Len(q)
  BY DEF Taken
<1>2. ASSUME NEW i \in 1..Len(p), NEW j \in 1..Len(p), i < j, p[i].ep = w
      PROVE  p[j].ep = w
  <2>1. i + 1 < j + 1
    BY <1>2
  <2> QED
    BY <1>1, <1>2, <2>1 DEF StaleFirst
<1>3. ASSUME q[1].ep = w, NEW k \in 1..Len(p) PROVE p[k].ep = w
  <2>1. 1 < k + 1 /\ 1 \in 1..Len(q)
    BY <1>1
  <2> QED
    BY <1>1, <1>3, <2>1 DEF StaleFirst
<1> QED
  BY <1>2, <1>3 DEF StaleFirst

LEMMA LatestTaken ==
  ASSUME NEW q \in Seq(Entry), NEW p \in Seq(Entry), NEW w, NEW s,
         LatestResult(q, w, s), Taken(q, p)
  PROVE  LatestResult(p, w, s)
<1>1. Len(q) \in Nat /\ Len(p) = Len(q) - 1
      /\ \A k \in 1..Len(p) : p[k] = q[k + 1] /\ k + 1 \in 1..Len(q)
  BY DEF Taken
<1> SUFFICES ASSUME NEW k \in 1..Len(p), HasResult(p[k], w), LastWriter(p, k)
             PROVE  p[k].val = s[p[k].rd]
  BY DEF LatestResult
<1>2. LastWriter(q, k + 1)
  <2>1. ASSUME NEW j \in 1..Len(q), j > k + 1 PROVE q[j].rd # q[k + 1].rd
    <3>1. j - 1 \in 1..Len(p) /\ j - 1 > k /\ (j - 1) + 1 = j
      BY <1>1, <2>1
    <3>2. p[j - 1] = q[j]
      BY <1>1, <3>1
    <3> QED
      BY <1>1, <3>1, <3>2 DEF LastWriter
  <2> QED
    BY <2>1 DEF LastWriter
<1> QED
  BY <1>1, <1>2 DEF LatestResult

LEMMA ValuedDropped ==
  ASSUME NEW q \in Seq(Entry), NEW p \in Seq(Entry), NEW w, NEW s, NEW f,
         Valued(q, w, s, f), Taken(q, p), q[1].ep # w
  PROVE  Valued(p, w, s, f)
<1>1. Untouched(p, w, s, f)
  <2> SUFFICES ASSUME NEW r \in Reg, \A k \in 1..Len(p) : p[k].ep = w => p[k].rd # r
               PROVE  s[r] = f[r]
    BY DEF Untouched
  <2>1. ASSUME NEW k \in 1..Len(q), q[k].ep = w PROVE q[k].rd # r
    <3>1. k # 1
      BY <2>1
    <3>2. k - 1 \in 1..Len(p) /\ p[k - 1] = q[k]
      BY <3>1 DEF Taken
    <3> QED
      BY <2>1, <3>2
  <2> QED
    BY <2>1 DEF Valued, Untouched
<1> QED
  BY <1>1, StaleTaken, LatestTaken DEF Valued

LEMMA ValuedCommitted ==
  ASSUME NEW q \in Seq(Entry), NEW p \in Seq(Entry), NEW w,
         NEW s \in [Reg -> Val], NEW f \in [Reg -> Val],
         Valued(q, w, s, f), s[0] = f[0], Taken(q, p),
         q[1].ep = w, q[1].op \notin {"TRAP", "XRET"}
  PROVE  Valued(p, w, s, CommitTo(f, q[1])) /\ s[0] = CommitTo(f, q[1])[0]
<1> DEFINE g == CommitTo(f, q[1])
<1>0. 0 \in Reg /\ 1 \in 1..Len(q) /\ q[1].rd \in Reg /\ Len(q) \in Nat
  BY Constants, Fields DEF Taken
<1>3. \A r \in Reg : g[r] = IF r # 0 /\ r = q[1].rd THEN q[1].val ELSE f[r]
  BY <1>0 DEF CommitTo
<1> HIDE DEF g
<1>1. s[0] = g[0]
  BY <1>0, <1>3
<1>2. Untouched(p, w, s, g)
  <2> SUFFICES ASSUME NEW r \in Reg, \A k \in 1..Len(p) : p[k].ep = w => p[k].rd # r, r # 0
               PROVE  s[r] = g[r]
    BY <1>1 DEF Untouched
  <2>1. ASSUME NEW k \in 1..Len(q), k # 1 PROVE q[k].rd # r
    <3>1. k - 1 \in 1..Len(p) /\ p[k - 1] = q[k]
      BY <2>1 DEF Taken
    <3>2. p[k - 1].ep = w
      BY <3>1, StaleTaken DEF Valued
    <3> QED
      BY <3>1, <3>2
  <2>2. CASE r = q[1].rd
    <3>1. LastWriter(q, 1)
      BY <2>1, <2>2 DEF LastWriter
    <3>2. q[1].val = s[q[1].rd]
      BY <1>0, <2>2, <3>1 DEF Valued, LatestResult, HasResult
    <3> QED
      BY <1>3, <2>2, <3>2
  <2>3. CASE r # q[1].rd
    <3>1. \A k \in 1..Len(q) : q[k].ep = w => q[k].rd # r
      BY <2>1, <2>3
    <3>2. s[r] = f[r]
      BY <3>1 DEF Valued, Untouched
    <3> QED
      BY <1>3, <2>3, <3>2
  <2> QED
    BY <2>2, <2>3
<1> QED
  BY <1>1, <1>2, StaleTaken, LatestTaken DEF Valued, g

LEMMA ValuedFlushed ==
  ASSUME NEW q \in Seq(Entry), NEW p \in Seq(Entry), NEW w \in {0, 1}, NEW s, NEW f,
         Valued(q, w, s, f), Taken(q, p), q[1].ep = w
  PROVE  Valued(p, 1 - w, f, f)
<1>1. \A k \in 1..Len(p) : p[k].ep # 1 - w
  <2>1. \A k \in 1..Len(p) : p[k].ep = w
    BY StaleTaken DEF Valued
  <2> QED
    BY <2>1
<1> QED
  BY <1>1 DEF Valued, StaleFirst, Untouched, LatestResult, HasResult

LEMMA ValuedRelabelled ==
  ASSUME NEW q \in Seq(Entry), NEW p \in Seq(Entry), NEW w, NEW s, NEW f,
         Valued(q, w, s, f), Relabelled(q, p)
  PROVE  Valued(p, w, s, f)
<1>1. \A k \in 1..Len(p) : /\ k \in 1..Len(q)
                           /\ p[k].rd = q[k].rd /\ p[k].ep = q[k].ep /\ p[k].val = q[k].val
                           /\ HasResult(p[k], w) => HasResult(q[k], w)
  BY DEF Relabelled, HasResult
<1>2. Len(p) = Len(q)
  BY DEF Relabelled
<1>3. \A k \in 1..Len(q) : LastWriter(p, k) => LastWriter(q, k)
  BY <1>1, <1>2 DEF LastWriter
<1>4. StaleFirst(p, w) /\ Untouched(p, w, s, f)
  BY <1>1, <1>2 DEF Valued, StaleFirst, Untouched
<1>5. LatestResult(p, w, s)
  BY <1>1, <1>2, <1>3 DEF Valued, LatestResult
<1> QED
  BY <1>4, <1>5 DEF Valued

-----------------------------------------------------------------------------
(* The steps.                                                              *)

LEMMA OperandsFollowStep ==
  ASSUME TypeOK, OperandsFollow, [Next]_vars
  PROVE  OperandsFollow'
<1>1. CASE UNCHANGED <<rf, rg_op>>
  BY <1>1 DEF OperandsFollow
<1>2. CASE Decode
  <2>1. PICK x \in Instructions : rg_op' = [i \in {1, 2} |->
          LET a == IF i = 1 THEN x.rs1 ELSE x.rs2 IN [addr |-> a, data |-> rf[a]]]
    BY <1>2 DEF Decode
  <2>2. rf' = rf
    BY <1>2 DEF Decode
  <2> QED
    BY <2>1, <2>2 DEF OperandsFollow
<1>3. CASE Commit
  <2>1. x4 \in Entry
    BY <1>3 DEF Commit, x4, TypeOK
  <2>2. x4.rd \in Reg /\ x4.val \in Val
    BY <2>1 DEF Entry
  <2>3. \A i \in {1, 2} : rg_op[i] \in [addr : Reg, data : Val] /\ rg_op[i].data = rf[rg_op[i].addr]
    BY DEF TypeOK, OperandsFollow
  <2>4. /\ rf' = IF x4.rd = 0 THEN rf ELSE [rf EXCEPT ![x4.rd] = x4.val]
        /\ rg_op' = OperandsAfter(x4.rd, x4.val)
    BY <1>3 DEF Commit, Write
  <2>5. ASSUME NEW i \in {1, 2} PROVE rg_op'[i].data = rf'[rg_op'[i].addr]
    <3>1. rg_op'[i] = IF rg_op[i].addr = x4.rd /\ x4.rd # 0
                      THEN [rg_op[i] EXCEPT !.data = x4.val] ELSE rg_op[i]
      BY <2>4 DEF OperandsAfter
    <3>2. rf \in [Reg -> Val]
      BY DEF TypeOK
    <3> QED
      BY <2>2, <2>3, <2>4, <3>1, <3>2
  <2> QED
    BY <2>5 DEF OperandsFollow
<1>4. CASE Execute \/ Collect \/ WriteBackDrop \/ Flush
  <2>1. UNCHANGED <<rf, rg_op>>
    BY <1>4 DEF Execute, ExeDrop, ExeSystem, ExeTrap, ExeArith, ExeMulDiv, ExeMemory, Issue,
                Collect, WriteBackDrop, Flush
  <2> QED
    BY <1>1, <2>1
<1> QED
  BY <1>1, <1>2, <1>3, <1>4 DEF Next, WriteBack, vars

LEMMA InOrderTypes ==
  ASSUME TypeOK
  PROVE  /\ InOrder \in Seq(Entry) /\ Len(InOrder) \in Nat /\ Len(InOrder) <= RENAME_IDS
         /\ Len(pipe3) < DEPTH34 => Len(InOrder) < RENAME_IDS
BY Concat, Constants DEF TypeOK, InOrder

(* A step that leaves the queue alone leaves the argument alone.           *)
LEMMA IdleStep ==
  ASSUME IInv, UNCHANGED <<rf, rg_rf_board, rg_renameid, pipe3, pipe4, wEpoch, spec>>,
         OperandsFollow', TypeOK'
  PROVE  IInv'
<1>1. InOrder' = InOrder
  BY DEF InOrder
<1> QED
  BY <1>1 DEF IInv, ZeroIsFree

LEMMA IssueStep ==
  ASSUME ~WAW_STALLS, IInv, pipe2 # <<>>, x2.ep = wEpoch, NEW v \in Val,
         NEW op \in {"BASE", "MEMORY", "MULDIV", "CSR", "XRET", "TRAP"}, Issue(op, v),
         OperandsFollow', TypeOK'
  PROVE  IInv'
<1> DEFINE y == [op |-> op, rd |-> x2.rd, ep |-> x2.ep, val |-> v,
                 id |-> IF WAW_STALLS THEN 0 ELSE rg_renameid]
<1>1. TypeOK
  BY DEF IInv
<1>2. y \in Entry
  BY <1>1, HeadOfPipe2, Constants DEF Entry, TypeOK
<1>3. y.op = op /\ y.rd = x2.rd /\ y.ep = wEpoch /\ y.val = v /\ y.id = rg_renameid
  OBVIOUS
<1>4. pipe3' = Append(pipe3, y) /\ pipe4' = pipe4 /\ rf' = rf /\ wEpoch' = wEpoch
      /\ Len(pipe3) < DEPTH34
  BY DEF Issue
<1>5. rg_rf_board' = LockedFor(rg_rf_board, y) /\ rg_renameid' = (rg_renameid + 1) % RENAME_IDS
  BY <1>3 DEF Issue, Lock, NextId, LockedFor
<1>6. spec' = SpecAfter(spec, y)
  BY <1>3 DEF Issue, SpecAfter
<1> HIDE DEF y
<1>7. Appended(InOrder, InOrder', y)
  BY <1>1, <1>2, <1>4, IssueAppends DEF InOrder, TypeOK
<1>8. InOrder \in Seq(Entry) /\ Len(InOrder) < RENAME_IDS
  BY <1>1, <1>4, InOrderTypes
<1>9. InOrder' \in Seq(Entry)
  BY <1>2, <1>4, <1>1, Concat, Queue DEF InOrder, TypeOK
<1>10. Numbered(InOrder', rg_renameid')
  BY <1>1, <1>3, <1>5, <1>7, <1>8, <1>9, NumberedNext DEF IInv, TypeOK
<1>11. Owned(InOrder', rg_rf_board') /\ ~rg_rf_board'[0].lock
  <2>1. rg_rf_board \in Board
    BY <1>1 DEF TypeOK, Board
  <2>2. Owned(InOrder, rg_rf_board) /\ ~rg_rf_board[0].lock
    BY DEF IInv, ZeroIsFree
  <2> QED
    BY <1>2, <1>5, <1>7, <1>8, <1>9, <2>1, <2>2, OwnedAppended
<1>12. Valued(InOrder', wEpoch', spec', rf') /\ spec'[0] = rf'[0]
  <2>1. spec \in [Reg -> Val] /\ rf \in [Reg -> Val]
    BY <1>1 DEF TypeOK
  <2>3. Valued(InOrder, y.ep, spec, rf) /\ spec[0] = rf[0]
    BY <1>3 DEF IInv, ZeroIsFree
  <2>4. Valued(InOrder', y.ep, spec', rf) /\ spec'[0] = rf[0]
    BY <1>2, <1>6, <1>7, <1>8, <1>9, <2>1, <2>3, ValuedAppended
  <2> QED
    BY <1>3, <1>4, <2>4
<1> QED
  BY <1>10, <1>11, <1>12 DEF IInv, ZeroIsFree

LEMMA CollectStep ==
  ASSUME IInv, Collect, OperandsFollow', TypeOK'
  PROVE  IInv'
<1>1. TypeOK
  BY DEF IInv
<1>2. PICK op \in Collected(Head(pipe3).op) :
        pipe4' = Append(pipe4, [Head(pipe3) EXCEPT !.op = op])
  BY DEF Collect
<1>3. Relabelled(InOrder, InOrder')
  BY <1>1, <1>2, CollectRelabels DEF Collect, InOrder, TypeOK
<1>4. InOrder \in Seq(Entry) /\ InOrder' \in Seq(Entry)
  BY <1>1, Concat DEF InOrder, TypeOK
<1>5. UNCHANGED <<rf, rg_rf_board, rg_renameid, wEpoch, spec>>
  BY DEF Collect
<1>6. Numbered(InOrder', rg_renameid)
  BY <1>3, <1>4, NumberedRelabelled DEF IInv
<1>7. Owned(InOrder', rg_rf_board)
  BY <1>3, <1>4, OwnedRelabelled DEF IInv
<1>8. Valued(InOrder', wEpoch, spec, rf)
  BY <1>3, <1>4, ValuedRelabelled DEF IInv
<1> QED
  BY <1>5, <1>6, <1>7, <1>8 DEF IInv, ZeroIsFree

LEMMA WriteBackStep ==
  ASSUME ~WAW_STALLS, IInv, WriteBack, OperandsFollow', TypeOK'
  PROVE  IInv'
<1>1. TypeOK
  BY DEF IInv
<1>2. pipe4 # <<>> /\ pipe4' = Tail(pipe4) /\ UNCHANGED <<rg_renameid, pipe3>>
  BY DEF WriteBack, WriteBackDrop, Commit, Flush
<1>3. Taken(InOrder, InOrder') /\ InOrder[1] = x4
  BY <1>1, <1>2, CommitTakes DEF InOrder, TypeOK, x4
<1>4. InOrder \in Seq(Entry) /\ InOrder' \in Seq(Entry) /\ Len(InOrder) <= RENAME_IDS
  BY <1>1, <1>2, Concat, InOrderTypes DEF InOrder, TypeOK
<1>5. Numbered(InOrder', rg_renameid)
  BY <1>1, <1>3, <1>4, NumberedTaken DEF IInv, TypeOK
<1>6. rg_rf_board' = ReleasedBy(rg_rf_board, InOrder[1])
  BY <1>3 DEF WriteBack, WriteBackDrop, DropReleases, Commit, Flush, Release, ReleasedBy
<1>7. \A i, j \in 1..Len(InOrder) : InOrder[i].id = InOrder[j].id => i = j
  BY <1>1, <1>4, NumberedUnique DEF IInv, TypeOK
<1>8. Owned(InOrder', rg_rf_board') /\ ~rg_rf_board'[0].lock
  <2>1. rg_rf_board \in Board
    BY <1>1 DEF TypeOK, Board
  <2>2. Owned(InOrder, rg_rf_board) /\ ~rg_rf_board[0].lock
    BY DEF IInv, ZeroIsFree
  <2> QED
    BY <1>3, <1>4, <1>6, <1>7, <2>1, <2>2, OwnedTaken
<1>9. Valued(InOrder, wEpoch, spec, rf) /\ spec[0] = rf[0]
  BY DEF IInv, ZeroIsFree
<1>10. Valued(InOrder', wEpoch', spec', rf') /\ spec'[0] = rf'[0]
  <2>1. CASE WriteBackDrop
    <3>1. InOrder[1].ep # wEpoch /\ UNCHANGED <<rf, wEpoch, spec>>
      BY <1>3, <2>1 DEF WriteBackDrop
    <3> QED
      BY <1>3, <1>4, <1>9, <3>1, ValuedDropped
  <2>2. CASE Commit
    <3>1. /\ InOrder[1].ep = wEpoch /\ InOrder[1].op \notin {"TRAP", "XRET"}
          /\ rf' = CommitTo(rf, InOrder[1])
          /\ UNCHANGED <<wEpoch, spec>>
      BY <1>3, <2>2 DEF Commit, Write, CommitTo
    <3>2. rf \in [Reg -> Val] /\ spec \in [Reg -> Val]
      BY <1>1 DEF TypeOK
    <3>3. Valued(InOrder', wEpoch, spec, rf') /\ spec[0] = rf'[0]
      BY <1>3, <1>4, <1>9, <3>1, <3>2, ValuedCommitted
    <3> QED
      BY <3>1, <3>3
  <2>3. CASE Flush
    <3>1. InOrder[1].ep = wEpoch /\ rf' = rf /\ wEpoch' = 1 - wEpoch /\ spec' = rf
      BY <1>3, <2>3 DEF Flush
    <3>2. wEpoch \in {0, 1}
      BY <1>1 DEF TypeOK
    <3>3. Valued(InOrder', 1 - wEpoch, rf, rf)
      BY <1>3, <1>4, <1>9, <3>1, <3>2, ValuedFlushed
    <3> QED
      BY <3>1, <3>3
  <2> QED
    BY <2>1, <2>2, <2>3 DEF WriteBack
<1> QED
  BY <1>2, <1>5, <1>8, <1>10 DEF IInv, ZeroIsFree

LEMMA InvStep == ~WAW_STALLS /\ IInv /\ [Next]_vars => IInv'
<1> SUFFICES ASSUME ~WAW_STALLS, IInv, [Next]_vars PROVE IInv'
  OBVIOUS
<1>1. TypeOK /\ TypeOK' /\ OperandsFollow'
  BY TypeStep, OperandsFollowStep DEF IInv
<1>2. CASE Decode
  BY <1>1, <1>2, IdleStep DEF Decode
<1>3. CASE ExeDrop
  BY <1>1, <1>3, IdleStep DEF ExeDrop
<1>4. CASE Execute /\ ~ExeDrop
  BY <1>1, <1>4, Executions, IssueStep
<1>5. CASE Collect
  BY <1>1, <1>5, CollectStep
<1>6. CASE WriteBack
  BY <1>1, <1>6, WriteBackStep
<1>7. CASE UNCHANGED vars
  BY <1>1, <1>7, IdleStep DEF vars
<1> QED
  BY <1>2, <1>3, <1>4, <1>5, <1>6, <1>7 DEF Next

LEMMA InvInit == Init => IInv
<1> SUFFICES ASSUME Init PROVE IInv
  OBVIOUS
<1>1. TypeOK
  BY TypeInit
<1>2. InOrder = <<>> /\ 1..Len(InOrder) = {}
  BY DEF Init, InOrder
<1>3. \A r \in Reg : ~rg_rf_board[r].lock /\ spec[r] = rf[r] /\ rf[r] = 0
  BY DEF Init
<1>4. OperandsFollow
  BY <1>3, Constants DEF Init, OperandsFollow
<1>5. Numbered(InOrder, rg_renameid)
  BY <1>2 DEF Numbered
<1>6. Owned(InOrder, rg_rf_board)
  BY <1>2, <1>3 DEF Owned, WritersLock, LocksHaveWriter
<1>7. Valued(InOrder, wEpoch, spec, rf)
  BY <1>2, <1>3 DEF Valued, StaleFirst, Untouched, LatestResult
<1> QED
  BY <1>1, <1>3, <1>4, <1>5, <1>6, <1>7, Constants DEF IInv, ZeroIsFree

-----------------------------------------------------------------------------
(* Every variable of OperandBypass keeps its type: no write, release or id *)
(* falls outside the registers or the ids that exist, no buffer overflows. *)
THEOREM TypeCorrect == Spec => []TypeOK
<1>1. Init => TypeOK
  BY TypeInit
<1>2. TypeOK /\ [Next]_vars => TypeOK'
  BY TypeStep
<1> QED
  BY <1>1, <1>2, PTL DEF Spec

LEMMA Inductive == ASSUME ~WAW_STALLS PROVE Spec => []IInv
<1>1. Init => IInv
  BY InvInit
<1>2. IInv /\ [Next]_vars => IInv'
  BY InvStep
<1> QED
  BY <1>1, <1>2, PTL DEF Spec

(* However often the ids wrap, no two instructions in flight share one.    *)
THEOREM UniqueIds == Spec => []IdsAreUnique
<1>1. CASE WAW_STALLS
  <2>1. IdsAreUnique
    BY <1>1 DEF IdsAreUnique
  <2> QED
    BY <2>1, PTL
<1>2. CASE ~WAW_STALLS
  <2>1. IInv => IdsAreUnique
    <3> SUFFICES ASSUME IInv PROVE IdsAreUnique
      OBVIOUS
    <3>1. InOrder \in Seq(Entry) /\ Len(InOrder) <= RENAME_IDS
      BY InOrderTypes DEF IInv
    <3>2. \A i, j \in 1..Len(InOrder) : InOrder[i].id = InOrder[j].id => i = j
      BY <3>1, NumberedUnique DEF IInv, TypeOK
    <3>3. DOMAIN InOrder = 1..Len(InOrder)
      BY <3>1
    <3> QED
      BY <3>2, <3>3 DEF IdsAreUnique, InOrder
  <2> QED
    BY <1>2, <2>1, Inductive, PTL
<1> QED
  BY <1>1, <1>2, Constants

-----------------------------------------------------------------------------
(* In the build that stalls, ids are not kept; locks have an owner still,  *)
(* although no longer one of their own.                                    *)
Held(q, b) == \A r \in Reg : b[r].lock => r # 0 /\ \E k \in 1..Len(q) : q[k].rd = r

LEMMA HeldIsLocksAreHeld ==
  ASSUME TypeOK, WAW_STALLS, Held(InOrder, rg_rf_board)
  PROVE  LocksAreHeld
<1> SUFFICES ASSUME NEW r \in Reg, rg_rf_board[r].lock
             PROVE  \E y \in InFlight : y.rd = r
  BY DEF LocksAreHeld
<1>1. PICK k \in 1..Len(InOrder) : InOrder[k].rd = r
  BY DEF Held
<1>2. InOrder[k] \in InFlight
  <2>1. \/ k \in DOMAIN pipe4 /\ InOrder[k] = pipe4[k]
        \/ k - Len(pipe4) \in DOMAIN pipe3 /\ InOrder[k] = pipe3[k - Len(pipe4)]
    BY Concat DEF InOrder, TypeOK
  <2> QED
    BY <2>1 DEF InFlight
<1> QED
  BY <1>1, <1>2

LEMMA HeldStep ==
  ASSUME WAW_STALLS, TypeOK, Held(InOrder, rg_rf_board), [Next]_vars
  PROVE  Held(InOrder', rg_rf_board')
<1>1. CASE UNCHANGED <<rg_rf_board, pipe3, pipe4>>
  BY <1>1 DEF InOrder
<1>2. CASE Execute /\ ~ExeDrop
  <2>1. PICK v \in Val, op \in {"BASE", "MEMORY", "MULDIV", "CSR", "XRET", "TRAP"} : Issue(op, v)
    BY <1>2, Executions
  <2>2. pipe2 # <<>>
    BY <1>2, Executions
  <2> DEFINE y == [op |-> op, rd |-> x2.rd, ep |-> x2.ep, val |-> v,
                   id |-> IF WAW_STALLS THEN 0 ELSE rg_renameid]
  <2>3. y \in Entry /\ y.rd = x2.rd
    BY <2>2, HeadOfPipe2, Constants DEF Entry, TypeOK
  <2>4. pipe3' = Append(pipe3, y) /\ pipe4' = pipe4
    BY <2>1 DEF Issue
  <2> HIDE DEF y
  <2>5. Appended(InOrder, InOrder', y)
    BY <2>3, <2>4, IssueAppends DEF InOrder, TypeOK
  <2>6. \A r \in Reg : rg_rf_board'[r].lock => rg_rf_board[r].lock \/ (r # 0 /\ r = y.rd)
    BY <2>1, <2>3 DEF Issue, Lock, TypeOK
  <2>7. Len(InOrder) \in Nat
    BY InOrderTypes
  <2>8. Len(InOrder') = Len(InOrder) + 1 /\ InOrder'[Len(InOrder) + 1] = y
        /\ \A k \in 1..Len(InOrder) : k \in 1..Len(InOrder') /\ InOrder'[k] = InOrder[k]
    BY <2>5, <2>7 DEF Appended
  <2>9. Len(InOrder) + 1 \in 1..Len(InOrder')
    BY <2>7, <2>8
  <2> QED
    BY <2>6, <2>8, <2>9 DEF Held
<1>3. CASE Collect
  <2>1. PICK op \in Collected(Head(pipe3).op) :
          pipe4' = Append(pipe4, [Head(pipe3) EXCEPT !.op = op])
    BY <1>3 DEF Collect
  <2>2. Relabelled(InOrder, InOrder')
    BY <1>3, <2>1, CollectRelabels DEF Collect, InOrder, TypeOK
  <2>3. rg_rf_board' = rg_rf_board
    BY <1>3 DEF Collect
  <2> QED
    BY <2>2, <2>3 DEF Held, Relabelled
<1>4. CASE WriteBack
  <2>1. pipe4 # <<>> /\ pipe4' = Tail(pipe4) /\ pipe3' = pipe3
    BY <1>4 DEF WriteBack, WriteBackDrop, Commit, Flush
  <2>2. Taken(InOrder, InOrder') /\ InOrder[1] = x4
    BY <2>1, CommitTakes DEF InOrder, TypeOK, x4
  <2>3. x4 \in Entry /\ x4.rd \in Reg
    <3>1. x4 \in Entry
      BY <2>1 DEF TypeOK, x4
    <3> QED
      BY <3>1 DEF Entry
  <2>4. rg_rf_board' = IF x4.rd # 0 THEN [rg_rf_board EXCEPT ![x4.rd].lock = FALSE]
                       ELSE rg_rf_board
    BY <1>4 DEF WriteBack, WriteBackDrop, DropReleases, Commit, Flush, Release
  <2>5. \A r \in Reg : rg_rf_board'[r].lock => rg_rf_board[r].lock /\ (x4.rd = 0 \/ r # x4.rd)
    BY <2>3, <2>4 DEF TypeOK
  <2>6. ASSUME NEW r \in Reg, rg_rf_board'[r].lock
        PROVE  r # 0 /\ \E k \in 1..Len(InOrder') : InOrder'[k].rd = r
    <3>1. rg_rf_board[r].lock /\ (x4.rd = 0 \/ r # x4.rd)
      BY <2>5, <2>6
    <3>2. r # 0
      BY <3>1 DEF Held
    <3>3. PICK k \in 1..Len(InOrder) : InOrder[k].rd = r
      BY <3>1 DEF Held
    <3>4. k # 1
      BY <2>2, <3>1, <3>2, <3>3
    <3>5. k - 1 \in 1..Len(InOrder') /\ InOrder'[k - 1] = InOrder[k]
      BY <2>2, <3>4, InOrderTypes DEF Taken
    <3> QED
      BY <3>2, <3>3, <3>5
  <2> QED
    BY <2>6 DEF Held
<1>5. CASE Decode \/ ExeDrop
  BY <1>1, <1>5 DEF Decode, ExeDrop
<1> QED
  BY <1>1, <1>2, <1>3, <1>4, <1>5 DEF Next, vars

(* No lock outlives the instructions that may give it back, through drops  *)
(* and flushes and in either build: a register is never locked for ever.   *)
THEOREM NoLostLock == Spec => []LocksAreHeld
<1>1. CASE WAW_STALLS
  <2> DEFINE I == TypeOK /\ Held(InOrder, rg_rf_board)
  <2>1. Init => I
    <3> SUFFICES ASSUME Init PROVE I
      OBVIOUS
    <3>1. \A r \in Reg : ~rg_rf_board[r].lock
      BY DEF Init
    <3> QED
      BY <3>1, TypeInit DEF Held
  <2>2. I /\ [Next]_vars => I'
    BY <1>1, TypeStep, HeldStep
  <2>3. I => LocksAreHeld
    BY <1>1, HeldIsLocksAreHeld
  <2> QED
    BY <2>1, <2>2, <2>3, PTL DEF Spec
<1>2. CASE ~WAW_STALLS
  <2>1. IInv => LocksAreHeld
    <3> SUFFICES ASSUME IInv, NEW r \in Reg, rg_rf_board[r].lock
                 PROVE  \E y \in InFlight : y.rd = r /\ y.id = rg_rf_board[r].id
      BY DEF LocksAreHeld
    <3>1. PICK k \in 1..Len(InOrder) : InOrder[k].rd = r /\ InOrder[k].id = rg_rf_board[r].id
      BY DEF IInv, Owned, LocksHaveWriter
    <3>2. InOrder[k] \in InFlight
      <4>1. \/ k \in DOMAIN pipe4 /\ InOrder[k] = pipe4[k]
            \/ k - Len(pipe4) \in DOMAIN pipe3 /\ InOrder[k] = pipe3[k - Len(pipe4)]
        BY Concat DEF InOrder, TypeOK, IInv
      <4> QED
        BY <4>1 DEF InFlight
    <3> QED
      BY <3>1, <3>2
  <2> QED
    BY <1>2, <2>1, Inductive, PTL
<1> QED
  BY <1>1, <1>2, Constants

-----------------------------------------------------------------------------
(* What the bypass gives.                                                  *)

LEMMA OfferedIsLatest ==
  ASSUME IInv, NEW r \in Reg, NEW k \in 1..Len(InOrder),
         InOrder[k].op = "BASE", InOrder[k].rd # 0, InOrder[k].rd = r,
         InOrder[k].ep = wEpoch, InOrder[k].id = rg_rf_board[r].id
  PROVE  InOrder[k].val = spec[r]
<1>1. InOrder \in Seq(Entry) /\ Len(InOrder) <= RENAME_IDS
  BY InOrderTypes DEF IInv
<1>2. \A i, j \in 1..Len(InOrder) : InOrder[i].id = InOrder[j].id => i = j
  BY <1>1, NumberedUnique DEF IInv, TypeOK
<1>3. rg_rf_board[r].lock
  BY DEF IInv, Owned, WritersLock
<1>4. PICK m \in 1..Len(InOrder) : InOrder[m].id = rg_rf_board[r].id /\ LastWriter(InOrder, m)
  BY <1>3 DEF IInv, Owned, LocksHaveWriter
<1>5. k = m
  BY <1>2, <1>4
<1> QED
  BY <1>4, <1>5 DEF IInv, Valued, LatestResult, HasResult

LEMMA BypassIsLatest ==
  ASSUME ~WAW_STALLS, IInv, NEW r \in Reg
  PROVE  /\ \A k \in Offered(pipe3, r) : pipe3[k].val = spec[r]
         /\ \A k \in Offered(pipe4, r) : pipe4[k].val = spec[r]
<1>1. pipe3 \in Seq(Entry) /\ pipe4 \in Seq(Entry)
  BY DEF IInv, TypeOK
<1>2. ASSUME NEW k \in Offered(pipe3, r) PROVE pipe3[k].val = spec[r]
  <2>1. /\ k \in 1..Len(pipe3) /\ pipe3[k].op = "BASE" /\ pipe3[k].rd # 0 /\ pipe3[k].rd = r
        /\ pipe3[k].ep = wEpoch /\ pipe3[k].id = rg_rf_board[r].id
    BY <1>1 DEF Offered, OldestBase
  <2>2. Len(pipe4) + k \in 1..Len(InOrder) /\ InOrder[Len(pipe4) + k] = pipe3[k]
    BY <1>1, <2>1 DEF InOrder
  <2> QED
    BY <2>1, <2>2, OfferedIsLatest
<1>3. ASSUME NEW k \in Offered(pipe4, r) PROVE pipe4[k].val = spec[r]
  <2>1. /\ k \in 1..Len(pipe4) /\ pipe4[k].op = "BASE" /\ pipe4[k].rd # 0 /\ pipe4[k].rd = r
        /\ pipe4[k].ep = wEpoch /\ pipe4[k].id = rg_rf_board[r].id
    BY <1>1 DEF Offered, OldestBase
  <2>2. k \in 1..Len(InOrder) /\ InOrder[k] = pipe4[k]
    BY <1>1, <2>1 DEF InOrder
  <2> QED
    BY <2>1, <2>2, OfferedIsLatest
<1> QED
  BY <1>2, <1>3

(* A register without a lock has no writer in flight, so that the register *)
(* file is up to date.                                                     *)
LEMMA UnlockedIsLatest ==
  ASSUME IInv, NEW r \in Reg, ~rg_rf_board[r].lock
  PROVE  rf[r] = spec[r]
<1>1. CASE r = 0
  BY <1>1 DEF IInv, ZeroIsFree
<1>2. CASE r # 0
  <2>1. \A k \in 1..Len(InOrder) : InOrder[k].rd # r
    BY <1>2 DEF IInv, Owned, WritersLock
  <2> QED
    BY <2>1 DEF IInv, Valued, Untouched
<1> QED
  BY <1>1, <1>2

(* In the build without WAW stalls an operand that stage3 takes is the     *)
(* result of the last instruction before it that writes the register: the  *)
(* bypass of fn_bypass, which sees only the oldest result of each buffer   *)
(* and tells it from older writers by its id alone, never gives a value    *)
(* that a later instruction in flight replaces.                            *)
THEOREM LatestOperands == ASSUME ~WAW_STALLS PROVE Spec => []OperandsAreLatest
<1>1. ASSUME IInv PROVE OperandsAreLatest
  <2> SUFFICES ASSUME NEW i \in {1, 2}, Available(rg_op[i].addr)
               PROVE  Operand(i) = spec[rg_op[i].addr]
    BY DEF OperandsAreLatest
  <2> DEFINE r == rg_op[i].addr
  <2>1. r \in Reg /\ rg_op[i].data = rf[r]
    <3>1. rg_op[i] \in [addr : Reg, data : Val]
      BY <1>1 DEF IInv, TypeOK
    <3> QED
      BY <1>1, <3>1 DEF IInv, OperandsFollow
  <2>2. CASE Offered(pipe3, r) # {}
    <3>1. (CHOOSE k \in Offered(pipe3, r) : TRUE) \in Offered(pipe3, r)
      BY <2>2
    <3> QED
      BY <1>1, <2>1, <2>2, <3>1, BypassIsLatest DEF Operand
  <2>3. CASE Offered(pipe3, r) = {} /\ Offered(pipe4, r) # {}
    <3>1. (CHOOSE k \in Offered(pipe4, r) : TRUE) \in Offered(pipe4, r)
      BY <2>3
    <3> QED
      BY <1>1, <2>1, <2>3, <3>1, BypassIsLatest DEF Operand
  <2>4. CASE Offered(pipe3, r) = {} /\ Offered(pipe4, r) = {}
    <3>1. ~rg_rf_board[r].lock
      BY <2>4 DEF Available
    <3> QED
      BY <1>1, <2>1, <2>4, <3>1, UnlockedIsLatest DEF Operand
  <2> QED
    BY <2>2, <2>3, <2>4
<1> QED
  BY <1>1, Inductive, PTL

-----------------------------------------------------------------------------
(* Numbers, their quotients and the powers of two.                         *)

(* Induction over the naturals, from their being well founded.             *)
LEMMA Least ==
  ASSUME NEW T \in SUBSET Nat, T # {}
  PROVE  \E x \in T : \A y \in T : x <= y
<1> DEFINE R == {ss \in Nat \X Nat : ss[1] < ss[2]}
<1>1. IsWellFoundedOn(R, Nat)
  BY NatLessThanWellFounded DEF OpToRel
<1> HIDE DEF R
<1>2. PICK x \in T : \A y \in T : ~ (<<y, x>> \in R)
  BY <1>1, WFMin
<1>3. ASSUME NEW y \in T PROVE x <= y
  <2>1. ~(<<y, x>> \in R) /\ <<y, x>> \in Nat \X Nat
    BY <1>2
  <2>2. ~(y < x)
    <3> SUFFICES ASSUME y < x PROVE FALSE
      OBVIOUS
    <3>1. <<y, x>>[1] < <<y, x>>[2]
      OBVIOUS
    <3> QED
      BY <2>1, <3>1, Zenon DEF R
  <2> QED
    BY <2>2
<1> QED
  BY <1>3

LEMMA NoSmallestMissing ==
  ASSUME NEW T, 0 \in T, \A n \in Nat : n \in T => n + 1 \in T
  PROVE  Nat \subseteq T
<1> SUFFICES ASSUME Nat \ T # {} PROVE FALSE
  OBVIOUS
<1>1. PICK x \in Nat \ T : \A y \in Nat \ T : x <= y
  BY Least
<1>2. x # 0 /\ x - 1 \in Nat
  OBVIOUS
<1> QED
  BY <1>1, <1>2

(* 2 ^ n is the number of sets of n things: a power by counting.           *)
LEMMA Subsets ==
  ASSUME NEW n \in Nat
  PROVE  /\ IsFiniteSet(SUBSET (1..n)) /\ Cardinality(SUBSET (1..n)) = 2 ^ n
         /\ 2 ^ n \in Nat \ {0}
<1>1. IsFiniteSet(1..n) /\ Cardinality(1..n) = n
  BY FS_Interval
<1>2. IsFiniteSet(SUBSET (1..n)) /\ Cardinality(SUBSET (1..n)) = 2 ^ n
  BY <1>1, FS_SUBSET
<1>3. Cardinality(SUBSET (1..n)) \in Nat /\ Cardinality(SUBSET (1..n)) # 0
  BY <1>2, FS_CardinalityType, FS_EmptySet
<1> QED
  BY <1>2, <1>3

LEMMA OneIsAPower == 2 ^ 0 = 1
<1>1. SUBSET (1..0) = {{}}
  OBVIOUS
<1>2. Cardinality({{}}) = 1
  BY FS_Singleton
<1> QED
  BY <1>1, <1>2, Subsets

LEMMA Doubling ==
  ASSUME NEW n \in Nat
  PROVE  2 ^ (n + 1) = 2 * 2 ^ n
<1> DEFINE A == SUBSET (1..n)
           f == [X \in A |-> X \cup {n + 1}]
           B == {X \cup {n + 1} : X \in A}
<1>1. IsFiniteSet(A) /\ Cardinality(A) = 2 ^ n /\ 2 ^ n \in Nat
  BY Subsets
<1>2. f \in Bijection(A, B)
  <2>1. f \in [A -> B]
    OBVIOUS
  <2>2. ASSUME NEW X \in A, NEW Y \in A, f[X] = f[Y] PROVE X = Y
    <3>1. n + 1 \notin X /\ n + 1 \notin Y
      OBVIOUS
    <3> QED
      BY <2>2, <3>1
  <2>3. \A y \in B : \E x \in A : f[x] = y
    OBVIOUS
  <2> HIDE DEF f, A, B
  <2> QED
    BY <2>1, <2>2, <2>3 DEF Bijection, Injection, IsInjective, Surjection
<1>3. IsFiniteSet(B) /\ Cardinality(B) = 2 ^ n
  <2> HIDE DEF f, A, B
  <2>1. ExistsBijection(A, B)
    BY <1>2 DEF ExistsBijection
  <2> QED
    BY <1>1, <2>1, FS_Bijection
<1>4. A \cup B = SUBSET (1..n + 1)
  <2>1. ASSUME NEW X \in A PROVE X \in SUBSET (1..n + 1) /\ X \cup {n + 1} \in SUBSET (1..n + 1)
    OBVIOUS
  <2>2. ASSUME NEW Z \in SUBSET (1..n + 1), n + 1 \notin Z PROVE Z \in A
    BY <2>2
  <2>3. ASSUME NEW Z \in SUBSET (1..n + 1), n + 1 \in Z PROVE Z \in B
    <3>1. Z \ {n + 1} \in A /\ Z = (Z \ {n + 1}) \cup {n + 1}
      BY <2>3
    <3> QED
      BY <3>1
  <2> HIDE DEF A
  <2> QED
    BY <2>1, <2>2, <2>3
<1>5. A \cap B = {}
  OBVIOUS
<1> HIDE DEF A, B
<1>6. Cardinality(A \cup B) = 2 ^ n + 2 ^ n
  <2>1. Cardinality(A \cup B) = Cardinality(A) + Cardinality(B) - Cardinality(A \cap B)
    BY <1>1, <1>3, FS_Union
  <2>2. Cardinality(A \cap B) = 0
    BY <1>5, FS_EmptySet
  <2>3. PICK k \in Nat : 2 ^ n = k /\ Cardinality(A) = k /\ Cardinality(B) = k
    BY <1>1, <1>3, Subsets
  <2>4. Cardinality(A \cup B) = k + k
    BY <2>1, <2>2, <2>3
  <2> QED
    BY <2>3, <2>4
<1>7. Cardinality(A \cup B) = 2 ^ (n + 1)
  <2>1. n + 1 \in Nat
    OBVIOUS
  <2>2. Cardinality(SUBSET (1..n + 1)) = 2 ^ (n + 1)
    BY <2>1, Subsets, Zenon
  <2> QED
    BY <1>4, <2>2, Zenon
<1> QED
  BY <1>1, <1>6, <1>7

LEMMA PowerOfSum ==
  ASSUME NEW a \in Nat, NEW b \in Nat
  PROVE  2 ^ (a + b) = 2 ^ a * 2 ^ b
<1> DEFINE T == {n \in Nat : 2 ^ (a + n) = 2 ^ a * 2 ^ n}
<1>1. 0 \in T
  <2>1. a + 0 = a
    OBVIOUS
  <2>2. 2 ^ a \in Nat
    BY Subsets
  <2> QED
    BY <2>1, <2>2, OneIsAPower
<1>2. ASSUME NEW n \in Nat, n \in T PROVE n + 1 \in T
  <2>0. a + n \in Nat
    OBVIOUS
  <2>1. 2 ^ (a + n) \in Nat /\ 2 ^ a \in Nat /\ 2 ^ n \in Nat
    BY <2>0, Subsets
  <2>2. 2 ^ (n + 1) = 2 * 2 ^ n /\ 2 ^ ((a + n) + 1) = 2 * 2 ^ (a + n)
    BY <2>0, Doubling
  <2>3. a + (n + 1) = (a + n) + 1
    OBVIOUS
  <2>4. 2 ^ (a + n) = 2 ^ a * 2 ^ n
    BY <1>2
  <2>5. ASSUME NEW x \in Nat, NEW y \in Nat PROVE 2 * (x * y) = x * (2 * y)
    OBVIOUS
  <2>6. 2 ^ (a + (n + 1)) = 2 ^ a * 2 ^ (n + 1)
    BY <2>1, <2>2, <2>3, <2>4, <2>5
  <2> QED
    BY <2>6
<1>3. Nat \subseteq T
  <2> HIDE DEF T
  <2> QED
    BY <1>1, <1>2, NoSmallestMissing
<1> QED
  BY <1>3

LEMMA PowerGrows ==
  ASSUME NEW n \in Nat
  PROVE  n < 2 ^ n
<1> DEFINE T == {m \in Nat : m < 2 ^ m}
<1>1. 0 \in T
  BY OneIsAPower
<1>2. ASSUME NEW m \in Nat, m \in T PROVE m + 1 \in T
  <2>1. 2 ^ m \in Nat /\ 2 ^ (m + 1) = 2 * 2 ^ m /\ m < 2 ^ m
    BY <1>2, Subsets, Doubling
  <2>2. m + 1 < 2 ^ (m + 1)
    BY <2>1
  <2> QED
    BY <2>2
<1>3. Nat \subseteq T
  <2> HIDE DEF T
  <2> QED
    BY <1>1, <1>2, NoSmallestMissing
<1> QED
  BY <1>3

(* Quotient and remainder, and that they are the only ones.                *)
LEMMA Multiple ==
  ASSUME NEW m \in Nat \ {0}, NEW k \in Int
  PROVE  /\ k >= 1 => k * m >= m
         /\ k <= -1 => k * m <= -m
<1>1. ASSUME NEW j \in Nat PROVE j * m \in Nat
  OBVIOUS
<1>2. CASE k >= 1
  <2>1. k - 1 \in Nat /\ (k - 1) * m \in Nat /\ k * m = (k - 1) * m + m
    BY <1>1, <1>2
  <2> QED
    BY <2>1, <1>2
<1>3. CASE k <= -1
  <2>1. (-1) - k \in Nat /\ ((-1) - k) * m \in Nat
    BY <1>1, <1>3
  <2>2. k * m = -(((-1) - k) * m) - m
    BY <1>3
  <2> QED
    BY <2>1, <2>2, <1>3
<1> QED
  BY <1>2, <1>3

LEMMA Divides ==
  ASSUME NEW x \in Int, NEW m \in Nat \ {0}
  PROVE  /\ x \div m \in Int /\ x % m \in 0 .. m - 1
         /\ x = (x \div m) * m + (x % m)
         /\ x \in Nat => x \div m \in Nat
OBVIOUS

LEMMA DividesNat ==
  ASSUME NEW x \in Nat, NEW m \in Nat \ {0}
  PROVE  /\ x \div m \in Nat /\ x % m \in 0 .. m - 1
         /\ x = (x \div m) * m + (x % m)
OBVIOUS

LEMMA DividesOnce ==
  ASSUME NEW x \in Int, NEW m \in Nat \ {0}, NEW q \in Int, NEW r \in 0 .. m - 1,
         x = q * m + r
  PROVE  x \div m = q /\ x % m = r
<1> DEFINE p == x \div m
           s == x % m
           k == p - q
<1>1. p \in Int /\ s \in 0 .. m - 1 /\ x = p * m + s
  BY Divides
<1> HIDE DEF p, s
<1>2. k \in Int /\ k * m = r - s
  BY <1>1
<1>3. k = 0
  <2>1. k * m < m /\ k * m > -m
    BY <1>1, <1>2
  <2> HIDE DEF k
  <2>2. ~(k >= 1) /\ ~(k <= -1)
    BY <1>2, <2>1, Multiple
  <2> QED
    BY <1>2, <2>2
<1>4. p = q
  BY <1>1, <1>3
<1>5. s = r
  BY <1>1, <1>4
<1> QED
  BY <1>4, <1>5 DEF p, s

-----------------------------------------------------------------------------
(* Words.                                                                  *)

LEMMA Widths ==
  /\ XLEN \in Nat /\ XLEN - 1 \in Nat /\ XLEN + 1 \in Nat
  /\ 2^(XLEN - 1) \in Nat \ {0} /\ 2^XLEN \in Nat \ {0} /\ 2^(XLEN + 1) \in Nat \ {0}
  /\ 2^XLEN = 2 * 2^(XLEN - 1) /\ 2^(XLEN + 1) = 2 * 2^XLEN
<1>1. XLEN \in Nat /\ XLEN - 1 \in Nat /\ XLEN + 1 \in Nat /\ (XLEN - 1) + 1 = XLEN
  BY WidthAssumption
<1>2. 2^(XLEN - 1) \in Nat \ {0} /\ 2^XLEN \in Nat \ {0} /\ 2^(XLEN + 1) \in Nat \ {0}
  BY <1>1, Subsets
<1>3. 2^((XLEN - 1) + 1) = 2 * 2^(XLEN - 1) /\ 2^(XLEN + 1) = 2 * 2^XLEN
  BY <1>1, Doubling
<1> QED
  BY <1>1, <1>2, <1>3

LEMMA LowIs ==
  ASSUME NEW x \in Int, NEW w \in Nat, NEW q \in Int, NEW r \in 0 .. 2^w - 1, x = q * 2^w + r
  PROVE  Low(x, w) = r /\ x \div 2^w = q
<1>1. 2^w \in Nat \ {0}
  BY Subsets
<1> QED
  BY <1>1, DividesOnce DEF Low

LEMMA LowOf ==
  ASSUME NEW x \in Int, NEW w \in Nat
  PROVE  /\ Low(x, w) \in 0 .. 2^w - 1 /\ x \div 2^w \in Int
         /\ x = (x \div 2^w) * 2^w + Low(x, w)
         /\ x \in 0 .. 2^w - 1 => Low(x, w) = x
<1>1. 2^w \in Nat \ {0}
  BY Subsets
<1>2. /\ Low(x, w) \in 0 .. 2^w - 1 /\ x \div 2^w \in Int
      /\ x = (x \div 2^w) * 2^w + Low(x, w)
  BY <1>1, Divides DEF Low
<1>3. ASSUME x \in 0 .. 2^w - 1 PROVE Low(x, w) = x
  <2>1. x = 0 * 2^w + x
    BY <1>1
  <2> QED
    BY <1>3, <2>1, LowIs
<1> QED
  BY <1>2, <1>3

LEMMA MsbOf ==
  ASSUME NEW x \in Word
  PROVE  /\ x \in Nat /\ Msb(x) \in {0, 1}
         /\ Msb(x) = 1 <=> x >= 2^(XLEN - 1)
         /\ Msb(x) * 2^(XLEN - 1) <= x /\ x < (Msb(x) + 1) * 2^(XLEN - 1)
<1> DEFINE h == 2^(XLEN - 1)
<1>1. h \in Nat \ {0} /\ x \in Nat /\ x < 2 * h
  BY Widths DEF Word
<1> HIDE DEF h
<1>2. CASE x >= h
  <2>1. x = 1 * h + (x - h) /\ x - h \in 0 .. h - 1
    BY <1>1, <1>2
  <2>2. x \div h = 1
    BY <1>1, <2>1, DividesOnce
  <2>3. Msb(x) = 1
    BY <2>2 DEF Msb, h
  <2>4. Msb(x) * h <= x /\ x < (Msb(x) + 1) * h
    BY <1>1, <1>2, <2>3
  <2> QED
    BY <1>1, <1>2, <2>3, <2>4 DEF h
<1>3. CASE x < h
  <2>1. x = 0 * h + x /\ x \in 0 .. h - 1
    BY <1>1, <1>3
  <2>2. x \div h = 0
    BY <1>1, <2>1, DividesOnce
  <2>3. Msb(x) = 0
    BY <2>2 DEF Msb, h
  <2>4. Msb(x) * h <= x /\ x < (Msb(x) + 1) * h
    BY <1>1, <1>3, <2>3
  <2> QED
    BY <1>1, <1>3, <2>3, <2>4 DEF h
<1> QED
  BY <1>1, <1>2, <1>3

LEMMA NegateOf ==
  ASSUME NEW x \in Word
  PROVE  Negate(x) = (IF x = 0 THEN 0 ELSE 2^XLEN - x) /\ Negate(x) \in Word
<1> DEFINE m == 2^XLEN
<1>1. m \in Nat \ {0} /\ x \in 0 .. m - 1 /\ XLEN \in Nat
  BY Widths DEF Word
<1>2. CASE x = 0
  <2>1. -x = 0 * m + 0 /\ 0 \in 0 .. m - 1
    BY <1>1, <1>2
  <2> HIDE DEF m
  <2>2. Negate(x) = 0
    BY <1>1, <2>1, LowIs DEF m, Negate
  <2>3. 0 \in Word
    BY <1>2
  <2> QED
    BY <1>2, <2>2, <2>3, Zenon
<1>3. CASE x # 0
  <2> HIDE DEF m
  <2>1. PICK y \in Int, q \in Int, u \in 0 .. m - 1 : y = -x /\ y = q * m + u /\ u = m - x
    <3>1. -x = (-1) * m + (m - x) /\ m - x \in 0 .. m - 1 /\ -x \in Int /\ -1 \in Int
      BY <1>1, <1>3
    <3> QED
      BY <3>1, Zenon
  <2>2. Low(y, XLEN) = u
    <3>1. u \in 0 .. 2^XLEN - 1 /\ y = q * 2^XLEN + u
      BY <2>1, Zenon DEF m
    <3> QED
      BY <1>1, <3>1, LowIs
  <2>3. m - x \in Word
    <3>1. Word = 0 .. m - 1
      BY DEF m, Word
    <3> QED
      BY <2>1, <3>1, Zenon
  <2>4. Negate(x) = m - x
    BY <2>1, <2>2 DEF Negate
  <2> QED
    BY <1>3, <2>3, <2>4, Zenon DEF m
<1> QED
  BY <1>2, <1>3

(* A word shifted left by one.                                              *)
LEMMA Shifted ==
  ASSUME NEW x \in Word
  PROVE  /\ Low(2 * x, XLEN) = 2 * x - Msb(x) * 2^XLEN
         /\ Low(2 * x, XLEN) \in Word /\ Low(2 * x, XLEN) + 1 \in Word
<1> DEFINE b == Msb(x)
           m == 2^XLEN
           h == 2^(XLEN - 1)
<1>1. h \in Nat \ {0} /\ m = 2 * h /\ XLEN \in Nat /\ x \in Nat
  BY Widths DEF Word
<1>2. b \in {0, 1} /\ b * h <= x /\ x < (b + 1) * h
  BY MsbOf
<1> HIDE DEF b, m, h
<1>3. 2 * x - b * m \in 0 .. m - 2
  BY <1>1, <1>2
<1>4. /\ 2 * x = b * m + (2 * x - b * m) /\ 2 * x \in Int /\ b \in Int
      /\ 2 * x - b * m \in 0 .. m - 1
  BY <1>1, <1>2, <1>3
<1>5. Low(2 * x, XLEN) = 2 * x - b * m
  BY <1>1, <1>4, LowIs, Zenon DEF m
<1>6. \A y \in 0 .. m - 2 : y \in 0 .. m - 1 /\ y + 1 \in 0 .. m - 1
  BY <1>1
<1> QED
  BY <1>3, <1>5, <1>6 DEF b, m, Word

-----------------------------------------------------------------------------
(* One bit of the quotient.                                                *)

LEMMA OneBitValue ==
  ASSUME NEW p, p.rem \in Nat, p.quo \in Word, NEW d \in Word, d # 0,
         2 * p.rem + Msb(p.quo) < 2^XLEN
  PROVE  LET b == Msb(p.quo)
             r == 2 * p.rem + b
             o == OneBit(p, d)
         IN  /\ o.quo = 2 * p.quo - b * 2^XLEN + (IF r >= d THEN 1 ELSE 0)
             /\ r < d => o.rem = r
             /\ r >= d => /\ Low(o.rem, XLEN) = r - d
                          /\ d <= 2^(XLEN - 1) => o.rem = r - d
<1> DEFINE b == Msb(p.quo)
           r == 2 * p.rem + b
           m == 2^XLEN
           h == 2^(XLEN - 1)
           rem == Low(2 * p.rem + Msb(p.quo), XLEN + 1)
           quo == Low(2 * p.quo, XLEN)
           neg == Negate(d)
           s == rem + neg + Msb(neg) * m
<1>1. /\ h \in Nat \ {0} /\ m = 2 * h /\ 2^(XLEN + 1) = 2 * m
      /\ XLEN \in Nat /\ XLEN + 1 \in Nat
      /\ d \in 1 .. m - 1 /\ p.quo \in 0 .. m - 1 /\ p.rem \in Nat
  BY Widths DEF Word
<1>2. b \in {0, 1} /\ b * h <= p.quo /\ p.quo < (b + 1) * h
  BY MsbOf
<1>3. r \in Nat /\ r < m
  BY <1>1, <1>2
<1>4. rem = r
  <2>1. r \in Int /\ r \in 0 .. 2^(XLEN + 1) - 1
    BY <1>1, <1>3
  <2> QED
    BY <1>1, <2>1, LowOf
<1>5. Low(rem, XLEN) = r
  BY <1>1, <1>3, <1>4, LowOf
<1>6. quo = 2 * p.quo - b * m
  BY Shifted
<1>7. neg = m - d /\ neg \in Word
  BY NegateOf
<1>8. Msb(neg) = (IF d <= h THEN 1 ELSE 0)
  <2>1. Msb(neg) \in {0, 1} /\ (Msb(neg) = 1 <=> neg >= h)
    BY <1>7, MsbOf
  <2> HIDE DEF neg, m, h
  <2> QED
    BY <1>1, <1>7, <2>1
<1>9. OneBit(p, d) = IF r >= d THEN [rem |-> Low(s, XLEN + 1), quo |-> quo + 1]
                               ELSE [rem |-> rem, quo |-> quo]
  <2>1. OneBit(p, d) = IF Low(rem, XLEN) >= d THEN [rem |-> Low(s, XLEN + 1), quo |-> quo + 1]
                                              ELSE [rem |-> rem, quo |-> quo]
    BY DEF OneBit
  <2> HIDE DEF s, quo, rem, r
  <2> QED
    BY <1>5, <2>1
<1>10. ASSUME r >= d
       PROVE  /\ Low(Low(s, XLEN + 1), XLEN) = r - d
              /\ d <= h => Low(s, XLEN + 1) = r - d
  <2>1. r - d \in 0 .. m - 1 /\ r - d \in 0 .. 2 * m - 1 /\ m + (r - d) \in 0 .. 2 * m - 1
    BY <1>1, <1>3, <1>10
  <2>2. CASE d <= h
    <3>1. s = 2 * m + (r - d)
      BY <1>1, <1>3, <1>4, <1>7, <1>8, <2>2
    <3> HIDE DEF s, r, m, h
    <3>2. /\ s = 1 * 2^(XLEN + 1) + (r - d) /\ s \in Int /\ 1 \in Int
          /\ r - d \in 0 .. 2^(XLEN + 1) - 1
      BY <1>1, <1>3, <2>1, <3>1
    <3>3. Low(s, XLEN + 1) = r - d
      BY <1>1, <3>2, LowIs, Zenon
    <3>4. Low(r - d, XLEN) = r - d
      BY <1>1, <2>1, LowOf DEF m
    <3> QED
      BY <3>3, <3>4
  <2>3. CASE d > h
    <3>1. s = m + (r - d)
      BY <1>1, <1>3, <1>4, <1>7, <1>8, <2>3
    <3> HIDE DEF s, r, m, h
    <3>2. s \in Int /\ s \in 0 .. 2^(XLEN + 1) - 1
      BY <1>1, <1>3, <2>1, <3>1
    <3>3. Low(s, XLEN + 1) = s
      BY <1>1, <3>2, LowOf
    <3>4. Low(s, XLEN) = r - d
      <4>1. s = 1 * m + (r - d) /\ 1 \in Int
        BY <1>1, <1>3, <3>1
      <4> QED
        BY <1>1, <2>1, <3>2, <4>1, LowIs, Zenon DEF m
    <3> QED
      BY <1>1, <2>3, <3>3, <3>4
  <2> QED
    BY <1>1, <2>2, <2>3
<1> HIDE DEF s, quo, rem, r, b, m, h
<1>11. CASE r >= d
  <2>1. OneBit(p, d) = [rem |-> Low(s, XLEN + 1), quo |-> quo + 1]
    BY <1>9, <1>11
  <2> QED
    BY <1>1, <1>2, <1>3, <1>6, <1>10, <1>11, <2>1 DEF r, b, m, h
<1>12. CASE r < d
  <2>1. OneBit(p, d) = [rem |-> rem, quo |-> quo]
    BY <1>1, <1>3, <1>9, <1>12
  <2> QED
    BY <1>1, <1>2, <1>3, <1>4, <1>6, <1>12, <2>1 DEF r, b, m, h
<1> QED
  BY <1>1, <1>3, <1>11, <1>12

Partials == [rem : 0 .. 2^(XLEN + 1) - 1, quo : Word]

LEMMA OneBitTypes ==
  ASSUME NEW p \in Partials, NEW d \in Word
  PROVE  OneBit(p, d) \in Partials
<1> DEFINE r == 2 * p.rem + Msb(p.quo)
           rem == Low(r, XLEN + 1)
           quo == Low(2 * p.quo, XLEN)
           neg == Negate(d)
           s == rem + neg + Msb(neg) * 2^XLEN
<1>1. p.rem \in Nat /\ p.quo \in Word
  BY Widths DEF Partials
<1>2. \A y \in Int : Low(y, XLEN + 1) \in 0 .. 2^(XLEN + 1) - 1
  BY LowOf, Widths
<1>3. r \in Int
  <2>1. Msb(p.quo) \in {0, 1}
    BY <1>1, MsbOf
  <2> QED
    BY <1>1, <2>1
<1>4. rem \in 0 .. 2^(XLEN + 1) - 1
  BY <1>2, <1>3
<1>5. s \in Int
  <2>1. neg \in Word /\ Msb(neg) \in {0, 1}
    BY NegateOf, MsbOf
  <2>2. rem \in Int /\ neg \in Int /\ 2^XLEN \in Int
    BY <1>4, <2>1, Widths DEF Word
  <2> HIDE DEF rem, neg
  <2> QED
    BY <2>1, <2>2
<1>6. Low(s, XLEN + 1) \in 0 .. 2^(XLEN + 1) - 1
  BY <1>2, <1>5
<1>7. quo \in Word /\ quo + 1 \in Word
  BY <1>1, Shifted
<1>8. \/ OneBit(p, d) = [rem |-> Low(s, XLEN + 1), quo |-> quo + 1]
      \/ OneBit(p, d) = [rem |-> rem, quo |-> quo]
  BY DEF OneBit
<1> HIDE DEF s, quo, rem
<1> QED
  BY <1>4, <1>6, <1>7, <1>8 DEF Partials

(* What k bits of the quotient of n by d leave: the high bits of n divided, *)
(* the low bits still to come.  In the last of them a divisor of more than  *)
(* half a word may set the bit of the remainder above the word.             *)
Brought(p, n, d, k) ==
  LET t == n \div 2^(XLEN - k)
  IN  /\ p.quo = (n % 2^(XLEN - k)) * 2^k + (t \div d)
      /\ Low(p.rem, XLEN) = t % d
      /\ k < XLEN => p.rem = t % d

LEMMA NextDigit ==
  ASSUME NEW n \in Nat, NEW a \in Nat \ {0}
  PROVE  \E b \in {0, 1} : /\ n \div a = 2 * (n \div (2 * a)) + b
                           /\ n % (2 * a) = b * a + (n % a)
<1> DEFINE t == n \div a
           l == n % a
           c == t \div 2
           b == t % 2
<1>1. t \in Nat /\ l \in 0 .. a - 1 /\ n = t * a + l
  BY DividesNat, Zenon
<1>2. c \in Nat /\ b \in {0, 1} /\ t = 2 * c + b
  BY <1>1
<1> HIDE DEF t, l, c, b
<1>3. b * a + l \in 0 .. (2 * a) - 1 /\ 2 * a \in Nat \ {0}
  BY <1>1, <1>2
<1>4. n = c * (2 * a) + (b * a + l)
  <2>1. t * a = c * (2 * a) + b * a
    BY <1>1, <1>2
  <2> QED
    BY <1>1, <1>2, <1>3, <2>1
<1>5. n \div (2 * a) = c /\ n % (2 * a) = b * a + l
  <2>1. n \in Int /\ c \in Int
    BY <1>2
  <2> QED
    BY <1>3, <1>4, <2>1, DividesOnce, Zenon
<1> QED
  BY <1>2, <1>5 DEF t, l

(* The next digit of the quotient of t by d, u being the remainder so far.  *)
Digit(t, d, s, u) ==
  /\ u >= d => s \div d = 2 * (t \div d) + 1 /\ s % d = u - d
  /\ u < d => s \div d = 2 * (t \div d) /\ s % d = u
  /\ u <= s

LEMMA NextQuotient ==
  ASSUME NEW t \in Nat, NEW d \in Nat \ {0}, NEW b \in {0, 1}, NEW s \in Nat, NEW u \in Nat
  PROVE  s = 2 * t + b /\ u = 2 * (t % d) + b => Digit(t, d, s, u)
<1> SUFFICES ASSUME s = 2 * t + b, u = 2 * (t % d) + b
             PROVE  /\ u >= d => s \div d = 2 * (t \div d) + 1 /\ s % d = u - d
                    /\ u < d => s \div d = 2 * (t \div d) /\ s % d = u
                    /\ u <= s
  BY Zenon DEF Digit
<1> DEFINE q == t \div d
           r == t % d
<1>1. q \in Nat /\ r \in 0 .. d - 1 /\ t = q * d + r
  BY DividesNat, Zenon
<1>0. u = 2 * r + b
  OBVIOUS
<1> HIDE DEF q, r
<1>2. q * d \in Nat
  BY <1>1
<1>3. CASE u >= d
  <2>1. /\ s = (2 * q + 1) * d + (u - d) /\ u - d \in 0 .. d - 1
        /\ 2 * q + 1 \in Int /\ s \in Int
    BY <1>0, <1>1, <1>3
  <2>2. s \div d = 2 * q + 1 /\ s % d = u - d
    BY <2>1, DividesOnce, Zenon
  <2> QED
    BY <1>0, <1>1, <1>2, <1>3, <2>2 DEF q, r
<1>4. CASE u < d
  <2>1. /\ s = (2 * q) * d + u /\ u \in 0 .. d - 1
        /\ 2 * q \in Int /\ s \in Int
    BY <1>0, <1>1, <1>4
  <2>2. s \div d = 2 * q /\ s % d = u
    BY <2>1, DividesOnce
  <2> QED
    BY <1>0, <1>1, <1>2, <1>4, <2>2 DEF q, r
<1> QED
  BY <1>0, <1>1, <1>3, <1>4

LEMMA QuotientBound ==
  ASSUME NEW n \in Nat, NEW a \in Nat \ {0}, NEW c \in Nat, n < a * c
  PROVE  n \div a < c
<1> DEFINE t == n \div a
<1>0. t \in Nat /\ n % a \in 0 .. a - 1 /\ n = t * a + (n % a)
  BY DividesNat, Zenon
<1> HIDE DEF t
<1>1. t \in Nat /\ n % a \in Nat /\ n = t * a + (n % a)
  BY <1>0
<1>2. ASSUME t >= c PROVE FALSE
  <2>1. t - c \in Nat /\ (t - c) * a \in Nat
    BY <1>1, <1>2
  <2>2. t * a = a * c + (t - c) * a
    BY <1>1
  <2> QED
    BY <1>1, <2>1, <2>2
<1> QED
  BY <1>1, <1>2 DEF t

LEMMA QuotientSmaller ==
  ASSUME NEW t \in Nat, NEW d \in Nat \ {0}
  PROVE  t \div d <= t /\ t \div d \in Nat
<1>1. PICK q, r : q = t \div d /\ r = t % d
  OBVIOUS
<1>2. q \in Nat /\ r \in 0 .. d - 1 /\ t = q * d + r
  BY <1>1, DividesNat
<1>3. d - 1 \in Nat /\ q * (d - 1) \in Nat /\ q * d = q * (d - 1) + q
  BY <1>2
<1> QED
  BY <1>1, <1>2, <1>3

LEMMA PackedBelow ==
  ASSUME NEW a \in Nat, NEW c \in Nat, NEW x \in 0 .. a - 1, NEW y \in 0 .. c - 1
  PROVE  x * c + y \in Nat /\ x * c + y < a * c
<1>1. (a - 1) - x \in Nat /\ ((a - 1) - x) * c \in Nat /\ x * c \in Nat
  OBVIOUS
<1>2. a * c = ((a - 1) - x) * c + x * c + c
  OBVIOUS
<1> QED
  BY <1>1, <1>2

LEMMA BroughtStep ==
  ASSUME NEW n \in Word, NEW d \in Word, d # 0, NEW k \in 0 .. XLEN - 1,
         NEW p \in Partials, Brought(p, n, d, k)
  PROVE  Brought(OneBit(p, d), n, d, k + 1)
<1> DEFINE a == 2^(XLEN - (k + 1))
           c == 2^k
           h == 2^(XLEN - 1)
           m == 2^XLEN
           t == n \div (2 * a)
           l == n % (2 * a)
           t1 == n \div a
           l1 == n % a
           q == t \div d
           u == 2 * (t % d)
           o == OneBit(p, d)
<1>1. /\ a \in Nat \ {0} /\ c \in Nat \ {0} /\ h \in Nat \ {0} /\ m = 2 * h
      /\ 2^(XLEN - k) = 2 * a /\ 2^(k + 1) = 2 * c /\ h = a * c
      /\ k + 1 < XLEN => a >= 2
  <2>1. /\ XLEN \in Nat /\ k \in Nat /\ XLEN - (k + 1) \in Nat
        /\ XLEN - k = (XLEN - (k + 1)) + 1 /\ XLEN - 1 = (XLEN - (k + 1)) + k
    BY Widths
  <2>2. a \in Nat \ {0} /\ c \in Nat \ {0} /\ h \in Nat \ {0} /\ m = 2 * h
    BY <2>1, Subsets, Widths
  <2>3. 2^((XLEN - (k + 1)) + 1) = 2 * a /\ 2^(k + 1) = 2 * c
    BY <2>1, Doubling
  <2>4. 2^((XLEN - (k + 1)) + k) = a * c
    BY <2>1, PowerOfSum
  <2>5. ASSUME k + 1 < XLEN PROVE a >= 2
    <3>1. XLEN - (k + 2) \in Nat /\ XLEN - (k + 1) = (XLEN - (k + 2)) + 1
      BY <2>1, <2>5
    <3>2. 2^((XLEN - (k + 2)) + 1) = 2 * 2^(XLEN - (k + 2)) /\ 2^(XLEN - (k + 2)) \in Nat \ {0}
      BY <3>1, Doubling, Subsets
    <3>3. a = 2^((XLEN - (k + 2)) + 1)
      BY <3>1
    <3> HIDE DEF a
    <3> QED
      BY <3>2, <3>3
  <2> HIDE DEF m
  <2> QED
    BY <2>1, <2>2, <2>3, <2>4, <2>5
<1>2. n \in Nat /\ n < m /\ d \in Nat \ {0} /\ p.quo \in Word /\ p.rem \in Nat
  BY Widths DEF Word, Partials
<1>3. p.quo = l * c + q /\ p.rem = t % d
  <2>1. k < XLEN
    BY Widths
  <2> QED
    BY <1>1, <2>1 DEF Brought
<1> HIDE DEF a, c, h, m
<1>4. PICK b \in {0, 1} : t1 = 2 * t + b /\ l = b * a + l1
  BY <1>1, <1>2, NextDigit
<1>5. t \in Nat /\ l1 \in 0 .. a - 1 /\ t1 \in Nat /\ q \in Nat /\ q <= t /\ t % d \in 0 .. d - 1
  <2>1. 2 * a \in Nat \ {0}
    BY <1>1
  <2>2. t \in Nat /\ t1 \in Nat /\ l1 \in 0 .. a - 1
    BY <1>1, <1>2, <2>1, DividesNat, Zenon
  <2> HIDE DEF t
  <2> QED
    BY <1>2, <2>2, DividesNat, QuotientSmaller, Zenon
<1>6. t1 < 2 * c /\ t < c
  <2>1. n < a * (2 * c) /\ 2 * c \in Nat
    BY <1>1, <1>2
  <2>2. t1 < 2 * c
    BY <1>1, <1>2, <2>1, QuotientBound
  <2> HIDE DEF t, t1
  <2> QED
    BY <1>1, <1>4, <1>5, <2>2
<1> HIDE DEF l, t1, l1, q, t
<1> DEFINE w == l1 * c + q
<1>7. p.quo = b * h + w /\ w \in Nat /\ w < h
  <2>1. q \in 0 .. c - 1 /\ c \in Nat /\ a \in Nat
    BY <1>1, <1>5, <1>6
  <2>2. w \in Nat /\ w < a * c
    BY <1>5, <2>1, PackedBelow
  <2>3. l * c = b * (a * c) + l1 * c
    BY <1>1, <1>4, <1>5
  <2> HIDE DEF w
  <2> QED
    BY <1>1, <1>3, <1>4, <1>5, <2>2, <2>3 DEF w
<1>8. Msb(p.quo) = b
  <2>1. p.quo \in Int /\ w \in 0 .. h - 1 /\ b \in Int
    BY <1>1, <1>4, <1>7, <1>2 DEF Word
  <2> HIDE DEF w
  <2>2. p.quo \div h = b
    BY <1>1, <1>7, <2>1, DividesOnce, Zenon
  <2> QED
    BY <2>2 DEF Msb, h
<1> DEFINE v == 2 * p.rem + b
           e == IF v >= d THEN 1 ELSE 0
<1>9. /\ t1 \div d = 2 * q + e /\ t1 % d = IF v >= d THEN v - d ELSE v
      /\ v <= t1 /\ v \in Nat
  <2>1. v = 2 * (t % d) + b /\ v \in Nat
    BY <1>2, <1>3
  <2> HIDE DEF v
  <2>2. Digit(t, d, t1, v)
    BY <1>2, <1>4, <1>5, <2>1, NextQuotient
  <2>3. /\ v >= d => t1 \div d = 2 * q + 1 /\ t1 % d = v - d
        /\ v < d => t1 \div d = 2 * q /\ t1 % d = v
        /\ v <= t1
    BY <2>2, Zenon DEF Digit, q
  <2> QED
    BY <1>2, <1>5, <2>1, <2>3
<1>10. v < m /\ (k + 1 < XLEN => v < h)
  <2>1. c <= h /\ (k + 1 < XLEN => 2 * c <= h)
    <3>1. ASSUME NEW x \in Nat \ {0}, NEW y \in Nat, x * y = h
          PROVE  y <= h /\ (x >= 2 => 2 * y <= h)
      <4>1. (x - 1) \in Nat /\ (x - 1) * y \in Nat /\ h = (x - 1) * y + y
        BY <3>1
      <4>2. CASE x >= 2
        <5>1. (x - 2) \in Nat /\ (x - 2) * y \in Nat /\ h = (x - 2) * y + 2 * y
          BY <3>1, <4>2
        <5> QED
          BY <4>1, <5>1
      <4> QED
        BY <3>1, <4>1, <4>2
    <3> QED
      BY <1>1, <3>1
  <2> HIDE DEF v
  <2> QED
    BY <1>1, <1>5, <1>6, <1>9, <2>1
<1>11. /\ o.quo = 2 * p.quo - b * m + e
       /\ v < d => o.rem = v
       /\ v >= d => Low(o.rem, XLEN) = v - d /\ (d <= h => o.rem = v - d)
  BY <1>2, <1>8, <1>10, OneBitValue DEF m, h
<1>12. o.quo = l1 * (2 * c) + (t1 \div d)
  <2>1. l1 * (2 * c) = 2 * (l1 * c)
    BY <1>1, <1>5
  <2>2. l1 * c \in Nat /\ e \in {0, 1} /\ b * m = 2 * (b * h)
    BY <1>1, <1>4, <1>5
  <2> HIDE DEF e
  <2> QED
    BY <1>1, <1>2, <1>4, <1>5, <1>7, <1>9, <1>11, <2>1, <2>2
<1>13. Low(o.rem, XLEN) = t1 % d
  <2>1. CASE v < d
    <3>1. o.rem = v /\ v \in 0 .. m - 1 /\ v \in Int /\ XLEN \in Nat
      BY <1>1, <1>9, <1>10, <1>11, <2>1, Widths
    <3>2. Low(v, XLEN) = v
      BY <3>1, LowOf DEF m
    <3>3. t1 % d = v
      BY <1>2, <1>9, <2>1
    <3> QED
      BY <3>1, <3>2, <3>3
  <2>2. CASE v >= d
    BY <1>9, <1>11, <2>2
  <2> QED
    BY <1>2, <1>9, <2>1, <2>2
<1>14. k + 1 < XLEN => o.rem = t1 % d
  <2> HIDE DEF v
  <2>1. CASE v < d
    BY <1>2, <1>9, <1>11, <2>1
  <2>2. CASE v >= d
    BY <1>1, <1>2, <1>9, <1>10, <1>11, <2>2
  <2> QED
    BY <1>2, <1>9, <2>1, <2>2
<1> QED
  BY <1>1, <1>12, <1>13, <1>14 DEF Brought, t1, l1, a

(* A clock cycle brings StepBits bits.                                     *)
IsBits(f, N, p, d) == f = [i \in 0 .. N |-> IF i = 0 THEN p ELSE OneBit(f[i - 1], d)]

LEMMA BitsExist ==
  ASSUME NEW p, NEW d, NEW N \in Nat
  PROVE  \E f : IsBits(f, N, p, d)
<1> DEFINE T == {m \in Nat : \E f : IsBits(f, m, p, d)}
<1>1. 0 \in T
  <2>1. IsBits([i \in 0 .. 0 |-> p], 0, p, d)
    BY DEF IsBits
  <2> QED
    BY <2>1
<1>2. ASSUME NEW m \in Nat, m \in T PROVE m + 1 \in T
  <2>1. PICK f : IsBits(f, m, p, d)
    BY <1>2
  <2> DEFINE g == [i \in 0 .. m + 1 |-> IF i <= m THEN f[i] ELSE OneBit(f[m], d)]
  <2>2. ASSUME NEW i \in 0 .. m + 1
        PROVE  g[i] = IF i = 0 THEN p ELSE OneBit(g[i - 1], d)
    <3>1. CASE i = 0
      BY <2>1, <3>1 DEF IsBits
    <3>2. CASE i # 0 /\ i <= m
      <4>1. i \in 0 .. m /\ i - 1 \in 0 .. m + 1 /\ i - 1 <= m
        BY <3>2
      <4>2. f[i] = OneBit(f[i - 1], d)
        BY <2>1, <3>2, <4>1 DEF IsBits
      <4> QED
        BY <3>2, <4>1, <4>2
    <3>3. CASE i = m + 1
      BY <3>3
    <3> QED
      BY <3>1, <3>2, <3>3
  <2>3. IsBits(g, m + 1, p, d)
    <3> HIDE DEF g
    <3>1. g = [i \in 0 .. m + 1 |-> g[i]]
      BY DEF g
    <3> QED
      BY <2>2, <3>1 DEF IsBits
  <2> QED
    BY <2>3
<1>3. Nat \subseteq T
  <2> HIDE DEF T
  <2> QED
    BY <1>1, <1>2, NoSmallestMissing
<1> QED
  BY <1>3

LEMMA SteppedBits ==
  /\ StepBits \in Nat \ {0} /\ StepBits * DIVSTAGES = XLEN
  /\ DIVSTAGES \in Nat /\ DIVSTAGES >= 2 /\ DIVSTAGES % 2 = 0
<1>1. PICK k \in 1 .. XLEN : DIVSTAGES = 2^k
  BY WidthAssumption
<1>2. k - 1 \in Nat /\ k = (k - 1) + 1
  BY <1>1, Widths
<1>3. 2^((k - 1) + 1) = 2 * 2^(k - 1) /\ 2^(k - 1) \in Nat \ {0}
  BY <1>2, Doubling, Subsets
<1>4. PICK h \in Nat \ {0} : DIVSTAGES = 2 * h
  BY <1>1, <1>2, <1>3
<1>5. /\ DIVSTAGES \in Nat \ {0} /\ XLEN \in Nat \ {0}
      /\ XLEN % DIVSTAGES = 0
  BY <1>4, WidthAssumption
<1>6. XLEN = StepBits * DIVSTAGES + (XLEN % DIVSTAGES) /\ StepBits \in Nat
  BY <1>5, DividesNat DEF StepBits
<1> QED
  BY <1>4, <1>5, <1>6

LEMMA SingleStep ==
  ASSUME NEW p, NEW d
  PROVE  \E f : IsBits(f, StepBits, p, d) /\ fn_single_div(p, d) = f[StepBits]
<1> DEFINE bits == CHOOSE f : f = [i \in 0 .. StepBits |-> IF i = 0 THEN p ELSE OneBit(f[i - 1], d)]
<1>1. \E f : f = [i \in 0 .. StepBits |-> IF i = 0 THEN p ELSE OneBit(f[i - 1], d)]
  <2>1. \E f : IsBits(f, StepBits, p, d)
    BY BitsExist, SteppedBits
  <2> QED
    BY <2>1 DEF IsBits
<1>2. bits = [i \in 0 .. StepBits |-> IF i = 0 THEN p ELSE OneBit(bits[i - 1], d)]
  BY <1>1
<1>3. fn_single_div(p, d) = bits[StepBits]
  BY DEF fn_single_div
<1> HIDE DEF bits
<1> QED
  BY <1>2, <1>3 DEF IsBits

LEMMA StepTypes ==
  ASSUME NEW p \in Partials, NEW d \in Word
  PROVE  fn_single_div(p, d) \in Partials
<1>1. PICK f : IsBits(f, StepBits, p, d) /\ fn_single_div(p, d) = f[StepBits]
  BY SingleStep
<1> DEFINE T == {m \in Nat : m <= StepBits => f[m] \in Partials}
<1>2. 0 \in T
  BY <1>1, SteppedBits DEF IsBits
<1>3. ASSUME NEW m \in Nat, m \in T PROVE m + 1 \in T
  <2> SUFFICES ASSUME m + 1 <= StepBits PROVE f[m + 1] \in Partials
    OBVIOUS
  <2>1. f[m] \in Partials
    BY <1>3, SteppedBits
  <2>2. m + 1 \in 0 .. StepBits /\ m + 1 # 0 /\ (m + 1) - 1 = m
    BY SteppedBits
  <2>3. f[m + 1] = OneBit(f[m], d)
    BY <1>1, <2>2 DEF IsBits
  <2> QED
    BY <2>1, <2>3, OneBitTypes
<1>4. Nat \subseteq T
  <2> HIDE DEF T
  <2> QED
    BY <1>2, <1>3, NoSmallestMissing
<1> QED
  BY <1>1, <1>4, SteppedBits

LEMMA StepBrings ==
  ASSUME NEW n \in Word, NEW d \in Word, d # 0, NEW k \in Nat, k + StepBits <= XLEN,
         NEW p \in Partials, Brought(p, n, d, k)
  PROVE  Brought(fn_single_div(p, d), n, d, k + StepBits)
<1>1. PICK f : IsBits(f, StepBits, p, d) /\ fn_single_div(p, d) = f[StepBits]
  BY SingleStep
<1> DEFINE T == {m \in Nat : m <= StepBits => f[m] \in Partials /\ Brought(f[m], n, d, k + m)}
<1>2. 0 \in T
  <2>1. f[0] = p /\ k + 0 = k
    BY <1>1, SteppedBits DEF IsBits
  <2> QED
    BY <2>1
<1>3. ASSUME NEW m \in Nat, m \in T PROVE m + 1 \in T
  <2> SUFFICES ASSUME m + 1 <= StepBits
               PROVE  f[m + 1] \in Partials /\ Brought(f[m + 1], n, d, k + (m + 1))
    OBVIOUS
  <2>1. f[m] \in Partials /\ Brought(f[m], n, d, k + m)
    BY <1>3, SteppedBits
  <2>2. m + 1 \in 0 .. StepBits /\ m + 1 # 0 /\ (m + 1) - 1 = m
    BY SteppedBits
  <2>3. f[m + 1] = OneBit(f[m], d)
    BY <1>1, <2>2 DEF IsBits
  <2>4. k + m \in 0 .. XLEN - 1 /\ k + (m + 1) = (k + m) + 1
    BY SteppedBits, Widths
  <2> QED
    BY <2>1, <2>3, <2>4, OneBitTypes, BroughtStep
<1>4. Nat \subseteq T
  <2> HIDE DEF T
  <2> QED
    BY <1>2, <1>3, NoSmallestMissing
<1> QED
  BY <1>1, <1>4, SteppedBits

LEMMA BroughtFirst ==
  ASSUME NEW n \in Word, NEW d \in Word, d # 0
  PROVE  Brought([rem |-> 0, quo |-> n], n, d, 0)
<1>1. /\ 2^XLEN \in Nat \ {0} /\ n \in 0 .. 2^XLEN - 1 /\ d \in Nat \ {0}
      /\ XLEN \in Nat /\ XLEN - 0 = XLEN
  BY Widths DEF Word
<1>2. n \div 2^XLEN = 0 /\ n % 2^XLEN = n
  <2>1. n = 0 * 2^XLEN + n /\ n \in Int /\ 0 \in Int
    BY <1>1
  <2> QED
    BY <1>1, <2>1, DividesOnce
<1>3. 0 \div d = 0 /\ 0 % d = 0
  <2>1. 0 = 0 * d + 0 /\ 0 \in 0 .. d - 1 /\ 0 \in Int
    BY <1>1
  <2> QED
    BY <1>1, <2>1, DividesOnce
<1>4. Low(0, XLEN) = 0
  BY <1>1, LowOf
<1>5. n = n * 2^0 + 0
  BY <1>1, OneIsAPower
<1> QED
  BY <1>1, <1>2, <1>3, <1>4, <1>5 DEF Brought

LEMMA BroughtLast ==
  ASSUME NEW p, NEW n \in Word, NEW d \in Word, d # 0, Brought(p, n, d, XLEN)
  PROVE  p.quo = n \div d /\ Low(p.rem, XLEN) = n % d
<1>1. /\ 2^XLEN \in Nat \ {0} /\ n \in Nat /\ d \in Nat \ {0} /\ XLEN - XLEN = 0
  BY Widths DEF Word
<1>2. n \div 1 = n /\ n % 1 = 0 /\ n \div d \in Nat
  <2>1. n \div 1 = n /\ n % 1 = 0
    BY <1>1
  <2>2. n \div d \in Nat
    BY <1>1, DividesNat, Zenon
  <2> QED
    BY <2>1, <2>2
<1>3. /\ p.quo = 0 * 2^XLEN + (n \div d)
      /\ Low(p.rem, XLEN) = n % d
  BY <1>1, <1>2, OneIsAPower DEF Brought
<1> QED
  BY <1>1, <1>2, <1>3

-----------------------------------------------------------------------------
(* Signs, and words of half the width.                                     *)

LEMMA WidthOf ==
  ASSUME NEW half \in BOOLEAN
  PROVE  /\ Width(half) \in Nat \ {0} /\ Width(half) - 1 \in Nat
         /\ 2^Width(half) \in Nat \ {0} /\ 2^(Width(half) - 1) \in Nat \ {0}
         /\ 2^Width(half) = 2 * 2^(Width(half) - 1)
         /\ \E g \in Nat \ {0} : 2^XLEN = g * 2^Width(half)
         /\ 2^Width(half) <= 2^XLEN
<1> DEFINE w == Width(half)
<1>1. XLEN \div 2 \in Nat \ {0} /\ XLEN = (XLEN \div 2) + (XLEN \div 2)
  BY WidthAssumption
<1>2. w \in Nat \ {0} /\ XLEN - w \in Nat /\ XLEN = (XLEN - w) + w
  BY <1>1, Widths DEF Width
<1> HIDE DEF w
<1>3. w - 1 \in Nat /\ w = (w - 1) + 1
  BY <1>2
<1>4. 2^w \in Nat \ {0} /\ 2^(w - 1) \in Nat \ {0} /\ 2^(XLEN - w) \in Nat \ {0}
  BY <1>2, <1>3, Subsets
<1>5. 2^((w - 1) + 1) = 2 * 2^(w - 1)
  BY <1>3, Doubling
<1>6. 2^((XLEN - w) + w) = 2^(XLEN - w) * 2^w
  BY <1>2, PowerOfSum
<1>7. PICK g \in Nat \ {0} : 2^XLEN = g * 2^w
  BY <1>2, <1>4, <1>6
<1>8. 2^w <= 2^XLEN
  <2>1. g >= 1 => g * 2^w >= 2^w
    BY <1>4, <1>7, Multiple
  <2> QED
    BY <1>7, <2>1
<1> QED
  BY <1>2, <1>3, <1>4, <1>5, <1>7, <1>8 DEF w

LEMMA SameLow ==
  ASSUME NEW w \in Nat, NEW x \in Int, NEW y \in Int, NEW j \in Int
  PROVE  x = y + j * 2^w => Low(x, w) = Low(y, w)
<1>1. /\ Low(y, w) \in 0 .. 2^w - 1 /\ y \div 2^w \in Int
      /\ y = (y \div 2^w) * 2^w + Low(y, w) /\ 2^w \in Nat \ {0}
  BY LowOf, Subsets
<1>2. PICK q \in Int, l \in 0 .. 2^w - 1 : y = q * 2^w + l /\ l = Low(y, w)
  BY <1>1
<1>3. q + j \in Int /\ l \in 0 .. 2^w - 1
  BY <1>2
<1>4. x = y + j * 2^w => x = (q + j) * 2^w + l
  <2>1. \A m \in Nat : (q + j) * m = q * m + j * m
    BY <1>2
  <2>2. PICK m \in Nat : m = 2^w
    BY <1>1
  <2>3. (q + j) * m = q * m + j * m /\ q * m \in Int /\ j * m \in Int
    BY <1>2, <2>1, <2>2
  <2>4. y = q * m + l
    BY <1>2, <2>2
  <2>5. PICK a \in Int, b \in Int : a = q * m /\ b = j * m
    BY <2>3
  <2>6. (q + j) * m = a + b /\ y = a + l
    BY <2>3, <2>4, <2>5
  <2>7. x = y + b => x = (a + b) + l
    BY <1>2, <2>5, <2>6
  <2>8. x = y + j * m => x = (q + j) * m + l
    BY <2>5, <2>6, <2>7
  <2> QED
    BY <2>2, <2>8
<1>5. x = (q + j) * 2^w + l => Low(x, w) = l
  BY <1>3, LowIs, Zenon
<1> QED
  BY <1>2, <1>4, <1>5

LEMMA SignedOf ==
  ASSUME NEW w \in Nat \ {0}, NEW x \in Int
  PROVE  /\ Signed(x, w) \in Int
         /\ -2^(w - 1) <= Signed(x, w) /\ Signed(x, w) < 2^(w - 1)
         /\ \E j \in Int : x = Signed(x, w) + j * 2^w
         /\ Signed(x, w) = 0 <=> Low(x, w) = 0
<1>1. w - 1 \in Nat /\ w = (w - 1) + 1
  OBVIOUS
<1>2. 2^(w - 1) \in Nat \ {0} /\ 2^((w - 1) + 1) = 2 * 2^(w - 1)
  BY <1>1, Subsets, Doubling
<1>3. PICK h \in Nat \ {0} : h = 2^(w - 1) /\ 2^w = 2 * h
  BY <1>1, <1>2
<1>4. PICK q \in Int, l \in 0 .. (2 * h) - 1 : x = q * (2 * h) + l /\ l = Low(x, w)
  <2>1. /\ Low(x, w) \in 0 .. 2^w - 1 /\ x \div 2^w \in Int
        /\ x = (x \div 2^w) * 2^w + Low(x, w)
    BY LowOf
  <2> QED
    BY <1>3, <2>1
<1>5. Signed(x, w) = IF l >= h THEN l - 2 * h ELSE l
  BY <1>3, <1>4 DEF Signed
<1>6. x = (l - 2 * h) + (q + 1) * (2 * h) /\ x = l + q * (2 * h) /\ q + 1 \in Int
  BY <1>3, <1>4
<1>7. Signed(x, w) \in -h .. h - 1
  BY <1>4, <1>5
<1>8. \E j \in Int : x = Signed(x, w) + j * (2 * h)
  <2>1. CASE l >= h
    BY <1>4, <1>5, <1>6, <2>1
  <2>2. CASE l < h
    <3>1. Signed(x, w) = l
      BY <1>4, <1>5, <2>2
    <3> QED
      BY <1>4, <1>6, <3>1
  <2> QED
    BY <1>4, <2>1, <2>2
<1>9. Signed(x, w) = 0 <=> l = 0
  BY <1>4, <1>5
<1>10. Signed(x, w) \in Int /\ -h <= Signed(x, w) /\ Signed(x, w) < h
  BY <1>3, <1>7
<1>11. \E j \in Int : x = Signed(x, w) + j * 2^w
  BY <1>3, <1>8
<1>12. Signed(x, w) = 0 <=> Low(x, w) = 0
  BY <1>4, <1>9
<1> QED
  BY <1>3, <1>10, <1>11, <1>12

LEMMA SignExtendOf ==
  ASSUME NEW half \in BOOLEAN, NEW x \in Int
  PROVE  LET w == Width(half)
         IN  /\ SignExtend(x, w) = (IF Signed(x, w) < 0 THEN Signed(x, w) + 2^XLEN ELSE Signed(x, w))
             /\ SignExtend(x, w) \in Word
             /\ -2^(XLEN - 1) <= Signed(x, w) /\ Signed(x, w) < 2^(XLEN - 1)
<1> DEFINE w == Width(half)
<1>1. PICK h \in Nat \ {0}, m \in Nat \ {0} :
        /\ h = 2^(w - 1) /\ 2^w = 2 * h /\ m = 2^XLEN /\ 2 * h <= m
        /\ m = 2 * 2^(XLEN - 1) /\ 2^(XLEN - 1) \in Nat
  BY WidthOf, Widths
<1>2. w \in Nat \ {0}
  BY WidthOf
<1> HIDE DEF w
<1>3. PICK l \in Nat : l = Low(x, w) /\ l < 2 * h
  <2>1. Low(x, w) \in 0 .. 2^w - 1
    BY <1>2, LowOf
  <2> QED
    BY <1>1, <2>1
<1>4. /\ SignExtend(x, w) = IF l >= h THEN (l + m) - 2 * h ELSE l
      /\ Signed(x, w) = IF l >= h THEN l - 2 * h ELSE l
  BY <1>1, <1>3 DEF SignExtend, Signed
<1>5. /\ SignExtend(x, w) = (IF Signed(x, w) < 0 THEN Signed(x, w) + m ELSE Signed(x, w))
      /\ SignExtend(x, w) \in 0 .. m - 1
      /\ -h <= Signed(x, w) /\ Signed(x, w) < h
  BY <1>1, <1>3, <1>4
<1>6. Signed(x, w) \in Int
  BY <1>1, <1>3, <1>4
<1>7. -2^(XLEN - 1) <= Signed(x, w) /\ Signed(x, w) < 2^(XLEN - 1)
  BY <1>1, <1>5, <1>6
<1> QED
  BY <1>1, <1>5, <1>7 DEF w, Word

LEMMA SameSignExtend ==
  ASSUME NEW w, NEW x, NEW y
  PROVE  Low(x, w) = Low(y, w) => SignExtend(x, w) = SignExtend(y, w)
BY DEF SignExtend

LEMMA FullWord ==
  ASSUME NEW x \in Word
  PROVE  x \in Int /\ Low(x, XLEN) = x /\ SignExtend(x, XLEN) = x
<1>1. XLEN \in Nat /\ 2^XLEN \in Nat \ {0} /\ x \in Nat /\ x \in 0 .. 2^XLEN - 1
  BY Widths DEF Word
<1>2. Low(x, XLEN) = x
  BY <1>1, LowOf
<1> QED
  BY <1>1, <1>2 DEF SignExtend

(* The bits above a half word are decided by those below.                   *)
LEMMA WordResultOf ==
  ASSUME NEW half \in BOOLEAN, NEW x \in Word, NEW y \in Int
  PROVE  /\ WordResult(x, half) = SignExtend(x, Width(half))
         /\ WordResult(x, half) \in Word
         /\ Low(x, Width(half)) = Low(y, Width(half)) =>
              WordResult(x, half) = SignExtend(y, Width(half))
<1>1. WordResult(x, half) = SignExtend(x, Width(half))
  BY FullWord DEF WordResult, Width
<1>2. SignExtend(x, Width(half)) \in Word
  BY FullWord, SignExtendOf
<1> QED
  BY <1>1, <1>2, SameSignExtend

LEMMA SignedDivision ==
  ASSUME NEW half \in BOOLEAN, NEW x \in Word
  PROVE  LET e == WordResult(x, half)
             s == Signed(x, Width(half))
         IN  /\ s \in Int /\ e \in Word
             /\ Msb(e) = (IF s < 0 THEN 1 ELSE 0)
             /\ (IF Msb(e) = 1 THEN Negate(e) ELSE e) = Abs(s)
             /\ Abs(s) \in Word /\ Abs(s) <= 2^(XLEN - 1)
<1> DEFINE e == WordResult(x, half)
           s == Signed(x, Width(half))
<1>1. x \in Int /\ Width(half) \in Nat \ {0}
  BY FullWord, WidthOf
<1>2. PICK m \in Nat, h \in Nat \ {0} : m = 2^XLEN /\ h = 2^(XLEN - 1) /\ m = 2 * h
  BY Widths
<1>3. /\ e \in Word /\ e = (IF s < 0 THEN s + m ELSE s)
      /\ -h <= s /\ s < h /\ s \in Int
  BY <1>1, <1>2, WordResultOf, SignExtendOf, SignedOf
<1> HIDE DEF e, s
<1>4. e \in 0 .. m - 1 /\ Word = 0 .. m - 1
  BY <1>2, <1>3 DEF Word
<1>5. Msb(e) \in {0, 1} /\ (Msb(e) = 1 <=> e >= h)
  BY <1>2, <1>3, MsbOf
<1>6. Msb(e) = (IF s < 0 THEN 1 ELSE 0)
  BY <1>2, <1>3, <1>5
<1>7. Negate(e) = IF e = 0 THEN 0 ELSE m - e
  BY <1>2, <1>3, NegateOf
<1>8. (IF Msb(e) = 1 THEN Negate(e) ELSE e) = Abs(s)
  BY <1>2, <1>3, <1>6, <1>7 DEF Abs
<1>9. Abs(s) \in Word /\ Abs(s) <= h
  BY <1>2, <1>3, <1>4 DEF Abs
<1> QED
  BY <1>2, <1>3, <1>6, <1>8, <1>9 DEF e, s

LEMMA LowWord ==
  ASSUME NEW half \in BOOLEAN, NEW x \in Word
  PROVE  /\ Low(x, Width(half)) \in Word
         /\ Low(Low(x, Width(half)), Width(half)) = Low(x, Width(half))
         /\ half => Width(half) = XLEN \div 2
         /\ ~half => Low(x, Width(half)) = x
<1> DEFINE w == Width(half)
<1>1. w \in Nat /\ 2^w \in Nat /\ 2^XLEN \in Nat /\ 2^w <= 2^XLEN
  BY WidthOf, Widths
<1>2. half => w = XLEN \div 2
  BY DEF Width
<1>3. ~half => Low(x, w) = x
  BY FullWord DEF Width
<1>4. x \in Int
  BY FullWord
<1> HIDE DEF w
<1>5. Low(x, w) \in 0 .. 2^w - 1
  BY <1>1, <1>4, LowOf
<1>6. Low(x, w) \in Word /\ Low(x, w) \in Int
  BY <1>1, <1>5 DEF Word
<1>7. Low(Low(x, w), w) = Low(x, w)
  BY <1>1, <1>5, <1>6, LowOf
<1> QED
  BY <1>2, <1>3, <1>6, <1>7 DEF w

LEMMA MagnitudeOf ==
  ASSUME NEW r \in Request, NEW x \in Word
  PROVE  LET l == Low(x, Width(r.half))
             s == Signed(x, Width(r.half))
         IN  /\ Magnitude(r, x) \in Word
             /\ r.op \in {"DIV", "REM"} =>
                  /\ Magnitude(r, x) = Abs(s) /\ s \in Int /\ Abs(s) <= 2^(XLEN - 1)
                  /\ Msb(Extended(r, x)) = (IF s < 0 THEN 1 ELSE 0)
             /\ r.op \notin {"DIV", "REM"} => Magnitude(r, x) = l
             /\ Magnitude(r, x) = 0 <=> l = 0
<1> DEFINE w == Width(r.half)
           l == Low(x, w)
           s == Signed(x, w)
<1>1. r.half \in BOOLEAN /\ x \in Int
  BY FullWord DEF Request
<1>2. CASE r.op \in {"DIV", "REM"}
  <2>1. Extended(r, x) = WordResult(x, r.half)
    BY <1>2 DEF Extended, WordResult
  <2>2. Magnitude(r, x) = IF Msb(WordResult(x, r.half)) = 1 THEN Negate(WordResult(x, r.half))
                                                             ELSE WordResult(x, r.half)
    BY <1>2, <2>1 DEF Magnitude
  <2>3. /\ Magnitude(r, x) = Abs(s) /\ s \in Int /\ Abs(s) \in Word /\ Abs(s) <= 2^(XLEN - 1)
        /\ Msb(Extended(r, x)) = (IF s < 0 THEN 1 ELSE 0)
    BY <1>1, <2>1, <2>2, SignedDivision
  <2>4. w \in Nat \ {0}
    BY <1>1, WidthOf
  <2> HIDE DEF w
  <2>5. s = 0 <=> l = 0
    BY <1>1, <2>4, SignedOf
  <2> HIDE DEF s, l
  <2>6. Abs(s) = 0 <=> s = 0
    BY <2>3 DEF Abs
  <2> QED
    BY <1>2, <2>3, <2>5, <2>6 DEF s, l, w
<1>3. CASE r.op \notin {"DIV", "REM"}
  <2>1. Magnitude(r, x) = l
    BY <1>1, <1>3, LowWord DEF Magnitude, Extended
  <2>2. l \in Word
    BY <1>1, LowWord
  <2> QED
    BY <1>3, <2>1, <2>2
<1> QED
  BY <1>2, <1>3

(* A quotient is rounded towards zero, and a remainder has the sign of the   *)
(* dividend.                                                                 *)
LEMMA TruncatedOf ==
  ASSUME NEW a \in Int, NEW b \in Int
  PROVE  b # 0 =>
         LET q == Abs(a) \div Abs(b)
             t == Abs(a) % Abs(b)
         IN  /\ q \in Nat /\ t \in Nat /\ t < Abs(b)
             /\ Divided(a, b) = (IF (a < 0) = (b < 0) THEN q ELSE -q)
             /\ Left(a, b) = (IF a < 0 THEN -t ELSE t)
<1> HAVE b # 0
<1> DEFINE q == Abs(a) \div Abs(b)
           t == Abs(a) % Abs(b)
<1>1. /\ Abs(a) \in Nat /\ Abs(b) \in Nat \ {0}
      /\ Abs(a) = IF a < 0 THEN -a ELSE a
      /\ Abs(b) = IF b < 0 THEN -b ELSE b
  BY DEF Abs
<1>2. /\ q \in Nat /\ t \in 0 .. Abs(b) - 1
      /\ Abs(a) = q * Abs(b) + t
  BY <1>1, DividesNat, Zenon
<1>3. Truncated(a, b) = IF (a < 0) = (b < 0) THEN q ELSE -q
  BY DEF Truncated
<1> HIDE DEF q, t
<1>4. CASE b > 0
  <2>1. b * q = q * Abs(b) /\ b * (-q) = -(q * Abs(b)) /\ q * Abs(b) \in Int
    BY <1>1, <1>2, <1>4
  <2>2. Left(a, b) = IF a < 0 THEN -t ELSE t
    BY <1>1, <1>2, <1>3, <1>4, <2>1 DEF Left
  <2> QED
    BY <1>1, <1>2, <1>3, <2>2 DEF Divided, q, t
<1>5. CASE b < 0
  <2>1. b * q = -(q * Abs(b)) /\ b * (-q) = q * Abs(b) /\ q * Abs(b) \in Int
    BY <1>1, <1>2, <1>5
  <2>2. Left(a, b) = IF a < 0 THEN -t ELSE t
    BY <1>1, <1>2, <1>3, <1>5, <2>1 DEF Left
  <2> QED
    BY <1>1, <1>2, <1>3, <2>2 DEF Divided, q, t
<1> QED
  BY <1>4, <1>5

LEMMA UnsignedOf ==
  ASSUME NEW a \in Nat, NEW b \in Nat
  PROVE  b # 0 => Divided(a, b) = a \div b /\ Left(a, b) = a % b
<1> HAVE b # 0
<1> DEFINE q == a \div b
           t == a % b
<1>1. Abs(a) = a /\ Abs(b) = b /\ b \in Nat \ {0} /\ ~(a < 0) /\ ~(b < 0)
  BY DEF Abs
<1>2. q \in Nat /\ t \in 0 .. b - 1 /\ a = q * b + t
  BY <1>1, DividesNat, Zenon
<1>3. Truncated(a, b) = q
  BY <1>1 DEF Truncated
<1> HIDE DEF q, t
<1>4. b * q = q * b /\ q * b \in Int
  BY <1>2
<1>5. Divided(a, b) = q /\ Left(a, b) = t
  BY <1>1, <1>2, <1>3, <1>4 DEF Divided, Left
<1> QED
  BY <1>5 DEF q, t

LEMMA NegateLow ==
  ASSUME NEW half \in BOOLEAN, NEW x \in Word
  PROVE  Negate(x) \in Word /\ Low(Negate(x), Width(half)) = Low(-x, Width(half))
<1>1. Width(half) \in Nat /\ x \in Int /\ Negate(x) \in Word /\ Negate(x) \in Int
  BY WidthOf, NegateOf, FullWord
<1>2. PICK g \in Nat : 2^XLEN = g * 2^Width(half)
  BY WidthOf
<1>3. PICK j \in Int : Negate(x) = -x + j * 2^Width(half)
  <2>1. 2^Width(half) \in Nat
    BY WidthOf
  <2>2. CASE x = 0
    <3>1. Negate(x) = -x + 0 * 2^Width(half)
      BY <2>1, <2>2, NegateOf
    <3> QED
      BY <3>1
  <2>3. CASE x # 0
    <3>1. Negate(x) = -x + g * 2^Width(half)
      BY <1>1, <1>2, <2>1, <2>3, NegateOf
    <3> QED
      BY <3>1
  <2> QED
    BY <2>2, <2>3
<1>4. -x \in Int
  BY <1>1
<1> QED
  BY <1>1, <1>3, <1>4, SameLow

LEMMA LowSigned ==
  ASSUME NEW w \in Nat \ {0}, NEW x \in Int
  PROVE  Signed(x, w) \in Int /\ Low(Signed(x, w), w) = Low(x, w)
<1>1. Signed(x, w) \in Int /\ w \in Nat
  BY SignedOf
<1>2. PICK j \in Int : x = Signed(x, w) + j * 2^w
  BY SignedOf
<1> QED
  BY <1>1, <1>2, SameLow

LEMMA SpecifiedAs ==
  ASSUME NEW r \in Request
  PROVE  LET w == Width(r.half)
             s1 == Signed(r.in1, w)  u1 == Low(r.in1, w)
             s2 == Signed(r.in2, w)  u2 == Low(r.in2, w)
         IN  /\ r.op = "DIV"    => Specified(r) = SignExtend(Divided(s1, s2), w)
             /\ r.op = "DIVU"   => Specified(r) = SignExtend(Divided(u1, u2), w)
             /\ r.op = "REM"    => Specified(r) = SignExtend(Left(s1, s2), w)
             /\ r.op = "REMU"   => Specified(r) = SignExtend(Left(u1, u2), w)
             /\ r.op = "MUL"    => Specified(r) = SignExtend(s1 * s2, w)
             /\ r.op = "MULH"   => Specified(r) = SignExtend((s1 * s2) \div 2^w, w)
             /\ r.op = "MULHSU" => Specified(r) = SignExtend((s1 * u2) \div 2^w, w)
             /\ r.op = "MULHU"  => Specified(r) = SignExtend((u1 * u2) \div 2^w, w)
<1> USE DEF Specified
<1>1. CASE r.op = "DIV"
  BY <1>1
<1>2. CASE r.op = "DIVU"
  BY <1>2
<1>3. CASE r.op = "REM"
  BY <1>3
<1>4. CASE r.op = "REMU"
  BY <1>4
<1>5. CASE r.op = "MUL"
  BY <1>5
<1>6. CASE r.op = "MULH"
  BY <1>6
<1>7. CASE r.op = "MULHSU"
  BY <1>7
<1>8. CASE r.op = "MULHU"
  BY <1>8
<1>9. r.op \in {"DIV", "DIVU", "REM", "REMU", "MUL", "MULH", "MULHSU", "MULHU"}
  BY DEF Request, DivOps, MulOps
<1> QED
  BY <1>1, <1>2, <1>3, <1>4, <1>5, <1>6, <1>7, <1>8, <1>9

(* With the quotient and the remainder of the magnitudes, the divider        *)
(* answers what the instruction set specifies.                               *)
LEMMA QuotientSpecified ==
  ASSUME NEW r \in Request, r.op \in DivOps, NEW p \in Partials,
         fn_fix_inputs(r).op2 # 0,
         p.quo = fn_fix_inputs(r).op1 \div fn_fix_inputs(r).op2,
         Low(p.rem, XLEN) = fn_fix_inputs(r).op1 % fn_fix_inputs(r).op2
  PROVE  Quotient(r, p) = Specified(r)
<1> DEFINE w == Width(r.half)
           s1 == Signed(r.in1, w)
           s2 == Signed(r.in2, w)
           u1 == Low(r.in1, w)
           u2 == Low(r.in2, w)
           raw == IF r.op \in {"REM", "REMU"} THEN Low(p.rem, XLEN) ELSE p.quo
<1>1. /\ r.half \in BOOLEAN /\ r.in1 \in Word /\ r.in2 \in Word
      /\ r.op \in {"DIV", "DIVU", "REM", "REMU"}
  BY DEF Request, DivOps
<1>2. raw \in Word
  <2>1. p.quo \in Word /\ p.rem \in Int /\ XLEN \in Nat
    BY Widths DEF Partials
  <2>2. Low(p.rem, XLEN) \in Word
    BY <2>1, LowOf DEF Word
  <2> QED
    BY <2>1, <2>2
<1>3. /\ fn_fix_inputs(r).op1 = Magnitude(r, r.in1)
      /\ fn_fix_inputs(r).op2 = Magnitude(r, r.in2)
      /\ fn_fix_inputs(r).complement = Complement(r)
      /\ fn_fix_inputs(r).sign = Msb(Extended(r, r.in1))
  BY DEF fn_fix_inputs
<1>4. Quotient(r, p) = WordResult(IF Complements(r, raw) THEN Negate(raw) ELSE raw, r.half)
  BY DEF Quotient
<1>5. raw \in Int
  BY <1>2, FullWord
<1> HIDE DEF raw
<1>6. ASSUME NEW exact \in Int, exact = (IF Complements(r, raw) THEN -raw ELSE raw)
      PROVE  Quotient(r, p) = SignExtend(exact, w)
  <2>1. CASE Complements(r, raw)
    <3>1. Negate(raw) \in Word /\ Low(Negate(raw), w) = Low(exact, w)
      BY <1>1, <1>2, <1>6, <2>1, NegateLow
    <3> QED
      BY <1>1, <1>4, <1>6, <2>1, <3>1, WordResultOf
  <2>2. CASE ~Complements(r, raw)
    BY <1>1, <1>2, <1>4, <1>6, <2>2, WordResultOf
  <2> QED
    BY <2>1, <2>2
<1>7. CASE r.op \in {"DIV", "REM"}
  <2>1. /\ s1 \in Int /\ s2 \in Int
        /\ fn_fix_inputs(r).op1 = Abs(s1) /\ fn_fix_inputs(r).op2 = Abs(s2)
        /\ Abs(s2) <= 2^(XLEN - 1)
        /\ Msb(Extended(r, r.in1)) = (IF s1 < 0 THEN 1 ELSE 0)
        /\ Msb(Extended(r, r.in2)) = (IF s2 < 0 THEN 1 ELSE 0)
    BY <1>1, <1>3, <1>7, MagnitudeOf
  <2> HIDE DEF s1, s2
  <2>2. s2 # 0
    BY <2>1 DEF Abs
  <2> DEFINE q == Abs(s1) \div Abs(s2)
             t == Abs(s1) % Abs(s2)
  <2>3. /\ q \in Nat /\ t \in Nat /\ t < Abs(s2)
        /\ Divided(s1, s2) = (IF (s1 < 0) = (s2 < 0) THEN q ELSE -q)
        /\ Left(s1, s2) = (IF s1 < 0 THEN -t ELSE t)
    BY <2>1, <2>2, TruncatedOf
  <2>4. p.quo = q /\ Low(p.rem, XLEN) = t
    BY <2>1
  <2> HIDE DEF q, t
  <2>5. CASE r.op = "DIV"
    <3>1. raw = q
      BY <2>4, <2>5 DEF raw
    <3>2. Complements(r, raw) <=> ((s1 < 0) # (s2 < 0))
      BY <1>3, <2>1, <2>5 DEF Complements, Complement
    <3>3. Divided(s1, s2) \in Int
          /\ Divided(s1, s2) = (IF Complements(r, raw) THEN -raw ELSE raw)
      BY <2>3, <3>1, <3>2
    <3>4. Quotient(r, p) = SignExtend(Divided(s1, s2), w)
      BY <1>6, <3>3
    <3> QED
      BY <2>5, <3>4, SpecifiedAs DEF s1, s2
  <2>6. CASE r.op = "REM"
    <3>1. raw = t
      BY <2>4, <2>6 DEF raw
    <3>2. Msb(raw) = 0
      <4>1. raw < 2^(XLEN - 1) /\ 2^(XLEN - 1) \in Nat /\ Abs(s2) \in Int
        BY <2>1, <2>3, <3>1, Widths DEF Abs
      <4> QED
        BY <1>2, <1>5, <4>1, MsbOf
    <3>3. Complements(r, raw) <=> s1 < 0
      BY <1>3, <2>1, <2>6, <3>2 DEF Complements, Complement
    <3>4. Left(s1, s2) \in Int
          /\ Left(s1, s2) = (IF Complements(r, raw) THEN -raw ELSE raw)
      BY <2>3, <3>1, <3>3
    <3>5. Quotient(r, p) = SignExtend(Left(s1, s2), w)
      BY <1>6, <3>4
    <3> QED
      BY <2>6, <3>5, SpecifiedAs DEF s1, s2
  <2> QED
    BY <1>7, <2>5, <2>6
<1>8. CASE r.op \in {"DIVU", "REMU"}
  <2>1. fn_fix_inputs(r).op1 = u1 /\ fn_fix_inputs(r).op2 = u2
    BY <1>1, <1>3, <1>8, MagnitudeOf
  <2>2. u1 \in Nat /\ u2 \in Nat
    <3>1. u1 \in Word /\ u2 \in Word
      BY <1>1, LowWord
    <3> QED
      BY <3>1, Widths DEF Word
  <2> HIDE DEF u1, u2
  <2>3. ~Complements(r, raw)
    BY <1>3, <1>8 DEF Complements, Complement
  <2>4. u2 # 0
    BY <2>1
  <2>5. Divided(u1, u2) = u1 \div u2 /\ Left(u1, u2) = u1 % u2
    BY <2>2, <2>4, UnsignedOf, Zenon
  <2>6. CASE r.op = "DIVU"
    <3>1. raw = Divided(u1, u2)
      BY <2>1, <2>5, <2>6 DEF raw
    <3>2. Quotient(r, p) = SignExtend(raw, w)
      BY <1>5, <1>6, <2>3
    <3> QED
      BY <2>6, <3>1, <3>2, SpecifiedAs DEF u1, u2
  <2>7. CASE r.op = "REMU"
    <3>1. raw = Left(u1, u2)
      BY <2>1, <2>5, <2>7 DEF raw
    <3>2. Quotient(r, p) = SignExtend(raw, w)
      BY <1>5, <1>6, <2>3
    <3> QED
      BY <2>7, <3>1, <3>2, SpecifiedAs DEF u1, u2
  <2> QED
    BY <1>8, <2>6, <2>7
<1> QED
  BY <1>1, <1>7, <1>8

LEMMA ByZeroSpecified ==
  ASSUME NEW r \in Request, r.op \in DivOps, fn_fix_inputs(r).op2 = 0
  PROVE  ByZero(r) = Specified(r)
<1> DEFINE w == Width(r.half)
           s1 == Signed(r.in1, w)
           s2 == Signed(r.in2, w)
           u1 == Low(r.in1, w)
           u2 == Low(r.in2, w)
<1>1. /\ r.half \in BOOLEAN /\ r.in1 \in Word /\ r.in2 \in Word
      /\ r.op \in {"DIV", "DIVU", "REM", "REMU"} /\ r.in1 \in Int /\ r.in2 \in Int
  BY FullWord DEF Request, DivOps
<1>2. w \in Nat \ {0}
  BY <1>1, WidthOf
<1>3. u2 = 0
  BY <1>1, MagnitudeOf DEF fn_fix_inputs
<1>4. s2 = 0
  <2> HIDE DEF w
  <2> QED
    BY <1>1, <1>2, <1>3, SignedOf
<1>5. CASE r.op \in {"REM", "REMU"}
  <2>1. ByZero(r) = WordResult(r.in1, r.half)
    BY <1>5 DEF ByZero
  <2>2. s1 \in Int /\ Low(s1, w) = Low(r.in1, w)
    <3> HIDE DEF w
    <3> QED
      BY <1>1, <1>2, LowSigned
  <2>3. Low(u1, w) = Low(r.in1, w)
    BY <1>1, LowWord
  <2>4. Left(s1, s2) = s1 /\ Left(u1, u2) = u1
    BY <1>3, <1>4 DEF Left
  <2>5. WordResult(r.in1, r.half) = SignExtend(r.in1, w)
    BY <1>1, WordResultOf
  <2>6. SignExtend(s1, w) = SignExtend(r.in1, w) /\ SignExtend(u1, w) = SignExtend(r.in1, w)
    BY <2>2, <2>3, SameSignExtend
  <2> QED
    BY <1>5, <2>1, <2>4, <2>5, <2>6, SpecifiedAs
<1>6. CASE r.op \in {"DIV", "DIVU"}
  <2>1. ByZero(r) = WordResult(2^XLEN - 1, r.half)
    BY <1>6 DEF ByZero
  <2>2. 2^XLEN - 1 \in Word /\ 2^XLEN - 1 \in Int /\ -1 \in Int
    BY Widths DEF Word
  <2>3. Low(2^XLEN - 1, w) = Low(-1, w)
    <3>1. PICK g \in Nat : 2^XLEN = g * 2^w
      BY <1>1, WidthOf
    <3>2. 2^w \in Nat
      BY <1>1, WidthOf
    <3>3. 2^XLEN - 1 = -1 + g * 2^w /\ w \in Nat /\ g \in Int
      BY <1>2, <3>1, <3>2
    <3> QED
      BY <2>2, <3>3, SameLow
  <2>4. ByZero(r) = SignExtend(-1, w)
    BY <1>1, <2>1, <2>2, <2>3, WordResultOf
  <2>5. Divided(s1, s2) = -1 /\ Divided(u1, u2) = -1
    BY <1>3, <1>4 DEF Divided
  <2> QED
    BY <1>6, <2>4, <2>5, SpecifiedAs
<1> QED
  BY <1>1, <1>5, <1>6

LEMMA SameProduct ==
  ASSUME NEW w \in Nat, NEW x \in Int, NEW y \in Int
  PROVE  Low(Low(x, w) * Low(y, w), w) = Low(x * y, w)
<1>1. PICK m \in Nat, q \in Int, k \in Int, a \in Int, b \in Int :
        /\ m = 2^w /\ a = Low(x, w) /\ b = Low(y, w)
        /\ x = q * m + a /\ y = k * m + b
  <2>1. 2^w \in Nat
    BY Subsets
  <2>2. /\ Low(x, w) \in 0 .. 2^w - 1 /\ x \div 2^w \in Int
        /\ x = (x \div 2^w) * 2^w + Low(x, w)
    BY LowOf, Zenon
  <2>3. /\ Low(y, w) \in 0 .. 2^w - 1 /\ y \div 2^w \in Int
        /\ y = (y \div 2^w) * 2^w + Low(y, w)
    BY LowOf, Zenon
  <2>4. Low(x, w) \in Int /\ Low(y, w) \in Int
    BY <2>1, <2>2, <2>3
  <2> QED
    BY <2>1, <2>2, <2>3, <2>4
<1>2. PICK j \in Int : x * y = a * b + j * m
  <2>1. x * y = a * b + (q * m * k + q * b + a * k) * m
    BY <1>1
  <2>2. q * m * k + q * b + a * k \in Int
    BY <1>1
  <2> QED
    BY <2>1, <2>2
<1>3. a * b \in Int /\ x * y \in Int
  BY <1>1
<1>4. x * y = a * b + j * 2^w => Low(x * y, w) = Low(a * b, w)
  BY <1>3, SameLow, Zenon
<1>5. Low(x * y, w) = Low(a * b, w)
  BY <1>1, <1>2, <1>4
<1> QED
  BY <1>1, <1>5

(* The upper word of the double one.                                        *)
LEMMA UpperWord ==
  ASSUME NEW t \in Int
  PROVE  LET wide == Low(t, 2 * XLEN)
         IN  /\ Low(wide, XLEN) = Low(t, XLEN) /\ Low(wide, XLEN) \in Word
             /\ wide \div 2^XLEN \in Word
             /\ t \div 2^XLEN \in Int
             /\ Low(t \div 2^XLEN, XLEN) = wide \div 2^XLEN
<1>1. PICK m \in Nat \ {0} : m = 2^XLEN
  BY Widths
<1>2. XLEN \in Nat /\ 2 * XLEN \in Nat /\ 2 * XLEN = XLEN + XLEN
  BY Widths
<1>3. 2^(2 * XLEN) = m * m /\ m * m \in Nat \ {0}
  <2>1. 2^(XLEN + XLEN) = 2^XLEN * 2^XLEN
    BY <1>2, PowerOfSum, Zenon
  <2> QED
    BY <1>1, <1>2, <2>1
<1>4. PICK q \in Int, R \in Nat : R = Low(t, 2 * XLEN) /\ t = q * (m * m) + R /\ R < m * m
  <2>1. /\ Low(t, 2 * XLEN) \in 0 .. 2^(2 * XLEN) - 1 /\ t \div 2^(2 * XLEN) \in Int
        /\ t = (t \div 2^(2 * XLEN)) * 2^(2 * XLEN) + Low(t, 2 * XLEN)
    BY <1>2, LowOf, Zenon
  <2>2. PICK M \in Nat \ {0} : M = m * m /\ M = 2^(2 * XLEN)
    BY <1>3
  <2>3. Low(t, 2 * XLEN) \in 0 .. M - 1 /\ t = (t \div M) * M + Low(t, 2 * XLEN) /\ t \div M \in Int
    BY <2>1, <2>2
  <2>4. Low(t, 2 * XLEN) \in Nat /\ Low(t, 2 * XLEN) < M
    BY <2>2, <2>3
  <2> QED
    BY <2>2, <2>3, <2>4
<1>5. PICK c \in Nat, d \in 0 .. m - 1 : R = c * m + d /\ c = R \div m
  <2>1. R \div m \in Nat /\ R % m \in 0 .. m - 1 /\ R = (R \div m) * m + (R % m)
    BY <1>1, <1>4, DividesNat, Zenon
  <2> QED
    BY <2>1
<1>6. c < m
  <2> SUFFICES ASSUME c >= m PROVE FALSE
    BY <1>1, <1>5
  <2>1. c - m \in Nat /\ (c - m) * m \in Nat
    BY <1>1, <1>5
  <2>2. c * m = (c - m) * m + m * m
    BY <1>1, <1>5
  <2>3. PICK z \in Nat, y \in Nat : z = (c - m) * m /\ y = m * m
    BY <1>3, <2>1
  <2> QED
    BY <1>4, <1>5, <2>2, <2>3
<1>7. q * m + c \in Int /\ t = (q * m + c) * m + d /\ t = R + (q * m) * m /\ q * m \in Int
  <2>1. q * (m * m) = (q * m) * m /\ (q * m + c) * m = (q * m) * m + c * m
    BY <1>1, <1>4, <1>5
  <2>2. q * m \in Int /\ (q * m) * m \in Int /\ c * m \in Int
    BY <1>1, <1>4, <1>5
  <2> QED
    BY <1>1, <1>4, <1>5, <2>1, <2>2
<1>8. t \div m = q * m + c
  <2>1. t \in Int /\ d \in 0 .. m - 1 /\ q * m + c \in Int
    BY <1>5, <1>7
  <2>2. t = (q * m + c) * m + d => t \div m = q * m + c
    BY <2>1, DividesOnce, Zenon
  <2> QED
    BY <1>7, <2>2
<1>9. Low(q * m + c, XLEN) = c
  <2>1. c \in 0 .. m - 1
    BY <1>5, <1>6
  <2> QED
    BY <1>1, <1>2, <1>4, <1>7, <2>1, LowIs
<1>10. Low(R, XLEN) = Low(t, XLEN) /\ Low(R, XLEN) \in 0 .. m - 1
  <2>1. Low(t, XLEN) = Low(R, XLEN)
    <3>1. t \in Int /\ R \in Int /\ q * m \in Int
      BY <1>4, <1>7
    <3>2. t = R + (q * m) * 2^XLEN => Low(t, XLEN) = Low(R, XLEN)
      BY <1>2, <3>1, SameLow, Zenon
    <3> QED
      BY <1>1, <1>7, <3>2
  <2>2. Low(R, XLEN) \in 0 .. m - 1
    <3>1. R \in Int
      BY <1>4
    <3>2. Low(R, XLEN) \in 0 .. 2^XLEN - 1
      BY <1>2, <3>1, LowOf, Zenon
    <3> QED
      BY <1>1, <3>2
  <2> QED
    BY <2>1, <2>2
<1>11. Word = 0 .. m - 1
  BY <1>1 DEF Word
<1>12. c \in 0 .. m - 1
  BY <1>5, <1>6
<1>13. R \div 2^XLEN = c /\ t \div 2^XLEN = q * m + c
  BY <1>1, <1>5, <1>8
<1> QED
  BY <1>4, <1>7, <1>9, <1>10, <1>11, <1>12, <1>13

LEMMA LowLow ==
  ASSUME NEW half \in BOOLEAN, NEW t \in Int
  PROVE  Low(Low(t, XLEN), Width(half)) = Low(t, Width(half))
<1> DEFINE w == Width(half)
<1>1. w \in Nat /\ 2^w \in Nat
  BY WidthOf
<1>2. PICK g \in Nat : 2^XLEN = g * 2^w
  BY WidthOf
<1> HIDE DEF w
<1>3. PICK q \in Int, l \in Int : t = q * (g * 2^w) + l /\ l = Low(t, XLEN)
  <2>1. XLEN \in Nat /\ 2^XLEN \in Nat
    BY Widths
  <2>2. Low(t, XLEN) \in 0 .. 2^XLEN - 1 /\ t \div 2^XLEN \in Int
        /\ t = (t \div 2^XLEN) * 2^XLEN + Low(t, XLEN)
    BY <2>1, LowOf, Zenon
  <2>3. Low(t, XLEN) \in Int
    BY <2>1, <2>2
  <2> QED
    BY <1>2, <2>2, <2>3
<1>4. PICK m \in Nat : m = 2^w
  BY <1>1
<1>5. PICK j \in Int : j = q * g
  BY <1>3
<1>6. q * (g * m) = (q * g) * m
  BY <1>3
<1>7. t = l + j * 2^w
  <2>1. (q * g) * m \in Int
    BY <1>3
  <2> QED
    BY <1>3, <1>4, <1>5, <1>6, <2>1
<1>8. Low(t, w) = Low(l, w)
  BY <1>1, <1>7, SameLow
<1> QED
  BY <1>3, <1>8 DEF w

LEMMA ProductSpecified ==
  ASSUME NEW r \in Request, r.op \in MulOps
  PROVE  Product(r) = Specified(r) /\ Product(r) \in Word
<1> DEFINE w == Width(r.half)
           s1 == Signed(r.in1, w)
           s2 == Signed(r.in2, w)
           u1 == Low(r.in1, w)
           u2 == Low(r.in2, w)
           a == IF r.op \in {"MULH", "MULHSU"} THEN Signed(r.in1, XLEN) ELSE r.in1
           b == IF r.op = "MULH" THEN Signed(r.in2, XLEN) ELSE r.in2
           wide == Low(a * b, 2 * XLEN)
<1>1. /\ r.half \in BOOLEAN /\ r.in1 \in Word /\ r.in2 \in Word
      /\ r.op \in {"MUL", "MULH", "MULHSU", "MULHU"}
      /\ r.op # "MUL" => r.half = FALSE
      /\ r.in1 \in Int /\ r.in2 \in Int
  BY FullWord DEF Request, DivOps, MulOps
<1>2. w \in Nat \ {0} /\ w \in Nat /\ XLEN \in Nat \ {0}
  BY <1>1, WidthOf, WidthAssumption
<1>3. Product(r) = WordResult(IF r.op = "MUL" THEN Low(wide, XLEN) ELSE wide \div 2^XLEN, r.half)
  BY DEF Product
<1>4. a \in Int /\ b \in Int
  BY <1>1, <1>2, SignedOf
<1>5. a * b \in Int
  <2> HIDE DEF a, b
  <2> QED
    BY <1>4
<1>6. /\ Low(wide, XLEN) = Low(a * b, XLEN) /\ Low(wide, XLEN) \in Word
      /\ wide \div 2^XLEN \in Word /\ (a * b) \div 2^XLEN \in Int
      /\ Low((a * b) \div 2^XLEN, XLEN) = wide \div 2^XLEN
  <2> HIDE DEF a, b
  <2> QED
    BY <1>5, UpperWord
<1>7. CASE r.op = "MUL"
  <2>1. Product(r) = WordResult(Low(wide, XLEN), r.half)
    BY <1>3, <1>7
  <2>2. a = r.in1 /\ b = r.in2
    BY <1>7
  <2>3. s1 \in Int /\ s2 \in Int /\ Low(s1, w) = Low(r.in1, w) /\ Low(s2, w) = Low(r.in2, w)
    <3> HIDE DEF w
    <3> QED
      BY <1>1, <1>2, LowSigned
  <2> HIDE DEF a, b, w, s1, s2
  <2>4. Low(s1 * s2, w) = Low(a * b, w) /\ s1 * s2 \in Int
    <3>1. w \in Nat
      BY <1>2
    <3>2. Low(Low(s1, w) * Low(s2, w), w) = Low(s1 * s2, w)
      BY <2>3, <3>1, SameProduct, Zenon
    <3>3. Low(Low(a, w) * Low(b, w), w) = Low(a * b, w)
      BY <1>4, <3>1, SameProduct, Zenon
    <3>4. s1 * s2 \in Int
      BY <2>3
    <3> QED
      BY <2>2, <2>3, <3>2, <3>3, <3>4
  <2>5. Low(Low(a * b, XLEN), w) = Low(a * b, w)
    BY <1>1, <1>5, LowLow DEF w
  <2>6. Product(r) = SignExtend(s1 * s2, w) /\ Product(r) \in Word
    BY <1>1, <1>6, <2>1, <2>4, <2>5, WordResultOf DEF w
  <2> QED
    BY <1>7, <2>6, SpecifiedAs DEF s1, s2, w
<1>8. CASE r.op # "MUL"
  <2>1. w = XLEN /\ r.half = FALSE /\ u1 = r.in1 /\ u2 = r.in2
    BY <1>1, <1>8, FullWord DEF Width
  <2>2. Product(r) = WordResult(wide \div 2^XLEN, r.half)
    BY <1>3, <1>8
  <2>3. Low(wide \div 2^XLEN, w) = Low((a * b) \div 2^XLEN, w)
    BY <1>6, <2>1, FullWord
  <2>4. Product(r) = SignExtend((a * b) \div 2^w, w) /\ Product(r) \in Word
    <3> HIDE DEF a, b
    <3> QED
      BY <1>1, <1>6, <2>1, <2>2, <2>3, WordResultOf
  <2>5. \/ r.op = "MULH" /\ a = s1 /\ b = s2
        \/ r.op = "MULHSU" /\ a = s1 /\ b = u2
        \/ r.op = "MULHU" /\ a = u1 /\ b = u2
    BY <1>1, <1>8, <2>1
  <2> QED
    BY <2>4, <2>5, SpecifiedAs
<1> QED
  BY <1>7, <1>8

(* rg_count holds the number of the last step.                              *)
LEMMA CountLimitOf == CountLimit \in Nat /\ DIVSTAGES + 1 < CountLimit
<1> DEFINE Fits(n) == DIVSTAGES + 1 <= n /\ n < 2 * (DIVSTAGES + 1)
<1>1. PICK k \in 1 .. XLEN : DIVSTAGES = 2^k
  BY WidthAssumption
<1>2. /\ XLEN \in Nat /\ k \in Nat /\ k < 2^k /\ 2^k \in Nat \ {0}
      /\ 2^(k + 1) = 2 * 2^k /\ DIVSTAGES <= XLEN
  BY <1>1, WidthAssumption, PowerGrows, Doubling, Subsets
<1>3. k + 1 \in 1 .. XLEN /\ Fits(2^(k + 1))
  BY <1>1, <1>2
<1>4. PICK n \in {2^i : i \in 1 .. XLEN} : n = CountLimit /\ Fits(n)
  <2>1. \E n \in {2^i : i \in 1 .. XLEN} : Fits(n)
    BY <1>3
  <2> HIDE DEF Fits
  <2>2. CountLimit = CHOOSE n \in {2^i : i \in 1 .. XLEN} : Fits(n)
    BY DEF CountLimit, Fits
  <2> QED
    BY <2>1, <2>2
<1>5. PICK i \in 1 .. XLEN : n = 2^i
  BY <1>4
<1>6. i - 1 \in Nat /\ i = (i - 1) + 1
  BY <1>2, <1>5
<1>7. 2^((i - 1) + 1) = 2 * 2^(i - 1) /\ 2^(i - 1) \in Nat
  BY <1>6, Doubling, Subsets
<1>8. PICK g \in Nat : n = 2 * g
  BY <1>5, <1>6, <1>7
<1>9. PICK h \in Nat : DIVSTAGES = 2 * h
  <2>1. k - 1 \in Nat /\ k = (k - 1) + 1
    BY <1>1, <1>2
  <2>2. 2^((k - 1) + 1) = 2 * 2^(k - 1) /\ 2^(k - 1) \in Nat
    BY <2>1, Doubling, Subsets
  <2> QED
    BY <1>1, <2>1, <2>2
<1> QED
  BY <1>4, <1>8, <1>9

-----------------------------------------------------------------------------
(* The instructions between stage3 and stage4.                             *)

One(b) == IF b THEN 1 ELSE 0

Moves(u, s, e, pop, push) ==
  u = IF push THEN Append(IF pop THEN Tail(s) ELSE s, e) ELSE IF pop THEN Tail(s) ELSE s

LEMMA Moved ==
  ASSUME NEW S, NEW s \in Seq(S), NEW e \in S, NEW pop \in BOOLEAN, NEW push \in BOOLEAN,
         pop => s # <<>>,
         NEW u, Moves(u, s, e, pop, push)
  PROVE  /\ u \in Seq(S) /\ Len(u) = (Len(s) - One(pop)) + One(push)
         /\ \A k \in 1 .. Len(s) - One(pop) : u[k] = s[k + One(pop)]
         /\ push => u[(Len(s) - One(pop)) + 1] = e
<1> DEFINE t == IF pop THEN Tail(s) ELSE s
<1>0. u = IF push THEN Append(t, e) ELSE t
  BY DEF Moves
<1>1. /\ t \in Seq(S) /\ Len(t) = Len(s) - One(pop)
      /\ \A k \in 1 .. Len(s) - One(pop) : t[k] = s[k + One(pop)]
  BY DEF One
<1> HIDE DEF t
<1>2. CASE push
  <2>1. u = Append(t, e) /\ e \in S
    BY <1>0, <1>2
  <2>2. u \in Seq(S) /\ Len(u) = Len(t) + 1 /\ u[Len(t) + 1] = e
        /\ \A k \in 1 .. Len(t) : u[k] = t[k]
    BY <1>1, <2>1
  <2> QED
    BY <1>1, <1>2, <2>2 DEF One, t
<1>3. CASE ~push
  <2>1. u = t
    BY <1>0, <1>3
  <2> QED
    BY <1>1, <1>3, <2>1 DEF One, t
<1> QED
  BY <1>2, <1>3

\* The queue of ff_ordering: the instructions whose results are not in ff_mbox_out.
Waiting(k) == Asked(Len(ff_mbox_out) + k)
Products   == {k \in DOMAIN ff_ordering : ff_ordering[k]}
Divisions  == {k \in DOMAIN ff_ordering : ~ff_ordering[k]}

Counted ==
  /\ Len(isb_s3s4) = Len(ff_mbox_out) + Len(ff_ordering)
  /\ \A k \in DOMAIN ff_ordering : ff_ordering[k] = IsMul(Waiting(k))

Caught == One(CapturesMul \/ CapturesDiv)

LEMMA Asks ==
  ASSUME MboxTypeOK
  PROVE  /\ \A n \in 1 .. Len(isb_s3s4) : Asked(n) \in Request /\ Asked(n) # None
         /\ program[next] \in Request /\ program[next] # None
         /\ Len(isb_s3s4) \in Nat /\ Len(ff_ordering) \in Nat /\ Len(ff_mbox_out) \in Nat
         /\ DOMAIN ff_ordering = 1 .. Len(ff_ordering)
         /\ DOMAIN isb_s3s4 = 1 .. Len(isb_s3s4)
         /\ DOMAIN ff_mbox_out = 1 .. Len(ff_mbox_out)
<1>1. /\ \A n \in 1 .. Len(program) : program[n] \in Request
      /\ None \notin Request
  BY MboxAssumption DEF MboxTypeOK
<1>2. \A n \in 1 .. Len(isb_s3s4) : isb_s3s4[n] \in 1 .. Len(program)
  BY DEF MboxTypeOK
<1> QED
  BY <1>1, <1>2 DEF MboxTypeOK, Asked

LEMMA AnswersAre ==
  ASSUME MboxTypeOK
  PROVE  /\ Captured = <<>> <=> Caught = 0
         /\ Caught \in {0, 1} /\ Caught <= Len(ff_ordering)
         /\ CapturesMul => 1 \in Products /\ ~CapturesDiv /\ Caught = 1
         /\ CapturesDiv => 1 \in Divisions /\ ~CapturesMul /\ Caught = 1
         /\ Caught = 1 => CapturesMul \/ CapturesDiv
         /\ Caught = 1 => Len(ff_mbox_out) < isb_s3s4_depth
         /\ Len(Answers) = Len(ff_mbox_out) + Caught
         /\ \A n \in 1 .. Len(ff_mbox_out) : Answers[n] = ff_mbox_out[n]
         /\ Caught = 1 => Answers[Len(ff_mbox_out) + 1] = Captured[1]
<1>1. /\ Len(ff_ordering) \in Nat /\ ff_ordering \in Seq(BOOLEAN)
      /\ ff_mbox_out \in Seq([value : Word, trap : BOOLEAN])
  BY DEF MboxTypeOK
<1>2. /\ Caught \in {0, 1} /\ (Caught = 1 <=> CapturesMul \/ CapturesDiv)
  BY DEF Caught, One
<1>3. ff_ordering # <<>> => /\ 1 \in DOMAIN ff_ordering /\ 1 <= Len(ff_ordering)
                            /\ Head(ff_ordering) = ff_ordering[1]
  BY <1>1
<1>4. /\ CapturesMul => 1 \in DOMAIN ff_ordering /\ ff_ordering[1] = TRUE
      /\ CapturesDiv => 1 \in DOMAIN ff_ordering /\ ff_ordering[1] = FALSE
  BY <1>3 DEF CapturesMul, CapturesDiv, NextIs
<1>5. CapturesMul => 1 \in Products /\ ~CapturesDiv /\ Caught = 1
  BY <1>2, <1>4 DEF Products
<1>6. CapturesDiv => 1 \in Divisions /\ ~CapturesMul /\ Caught = 1
  BY <1>2, <1>4 DEF Divisions
<1>7. Caught = 1 => Len(ff_mbox_out) < isb_s3s4_depth /\ 1 <= Len(ff_ordering)
  BY <1>2, <1>3 DEF CapturesMul, CapturesDiv, NextIs, out_depth
<1>8. Captured = IF CapturesMul THEN <<[value |-> Product(stages[MULSTAGES_TOTAL]), trap |-> FALSE]>>
                 ELSE IF CapturesDiv THEN <<[value |-> rg_result, trap |-> rg_trap]>> ELSE <<>>
  BY <1>5 DEF Captured
<1>9. Caught = 1 => \E a : Captured = <<a>>
  BY <1>2, <1>8
<1>10. Caught = 0 => Captured = <<>>
  BY <1>2, <1>8
<1>11. CASE Caught = 1
  <2>1. PICK a : Captured = <<a>>
    BY <1>9, <1>11
  <2>2. Answers = ff_mbox_out \o <<a>> /\ Captured # <<>> /\ Captured[1] = a
    BY <2>1 DEF Answers
  <2>3. /\ Len(Answers) = Len(ff_mbox_out) + 1 /\ Answers[Len(ff_mbox_out) + 1] = a
        /\ \A n \in 1 .. Len(ff_mbox_out) : Answers[n] = ff_mbox_out[n]
    BY <1>1, <2>2
  <2> QED
    BY <1>1, <1>5, <1>6, <1>2, <1>7, <1>11, <2>2, <2>3
<1>12. CASE Caught = 0
  <2>1. Answers = ff_mbox_out
    BY <1>1, <1>10, <1>12 DEF Answers
  <2> QED
    BY <1>1, <1>5, <1>6, <1>2, <1>7, <1>10, <1>12, <2>1
<1> QED
  BY <1>2, <1>11, <1>12

(* A cycle takes the oldest from the queue, appends the new instruction and  *)
(* leaves the others as they are.                                            *)
LEMMA StreamStep ==
  ASSUME MboxTypeOK, Counted,
         NEW offload \in BOOLEAN, NEW collect \in BOOLEAN, Cycle(offload, collect)
  PROVE  /\ isb_s3s4' \in Seq(1 .. Len(program)) /\ ff_ordering' \in Seq(BOOLEAN)
         /\ Len(ff_ordering') = (Len(ff_ordering) - Caught) + One(offload)
         /\ Len(ff_mbox_out') = (Len(ff_mbox_out) + Caught) - One(collect)
         /\ Len(isb_s3s4') = (Len(isb_s3s4) - One(collect)) + One(offload)
         /\ One(collect) <= Len(ff_mbox_out) + Caught
         /\ \A n \in 1 .. Len(isb_s3s4) - One(collect) : Asked(n)' = Asked(n + One(collect))
         /\ \A k \in 1 .. Len(ff_ordering) - Caught :
              ff_ordering'[k] = ff_ordering[k + Caught] /\ Waiting(k)' = Waiting(k + Caught)
         /\ \A k \in Nat : offload /\ k = (Len(ff_ordering) - Caught) + 1 =>
              ff_ordering'[k] = IsMul(program[next]) /\ Waiting(k)' = program[next]
         /\ DOMAIN ff_mbox_out' = 1 .. Len(ff_mbox_out')
         /\ \A n \in 1 .. Len(ff_mbox_out') : ff_mbox_out'[n] = Answers[n + One(collect)]
<1> DEFINE Lo == Len(ff_mbox_out)
           Lq == Len(ff_ordering)
           Li == Len(isb_s3s4)
           pop == Captured # <<>>
<1>1. /\ Lo \in Nat /\ Lq \in Nat /\ Li \in Nat /\ Li = Lo + Lq
      /\ Caught \in {0, 1} /\ Caught <= Lq /\ pop \in BOOLEAN
      /\ One(pop) = Caught /\ One(collect) \in {0, 1} /\ One(offload) \in {0, 1}
      /\ Len(Answers) = Lo + Caught
  BY Asks, AnswersAre DEF Counted, One
<1>2. /\ collect => Answers # <<>>
      /\ ff_ordering' = IF offload THEN Append(IF pop THEN Tail(ff_ordering) ELSE ff_ordering, IsMul(program[next]))
                                   ELSE IF pop THEN Tail(ff_ordering) ELSE ff_ordering
      /\ ff_mbox_out' = IF collect THEN Tail(Answers) ELSE Answers
      /\ isb_s3s4' = IF offload THEN Append(IF collect THEN Tail(isb_s3s4) ELSE isb_s3s4, next)
                                ELSE IF collect THEN Tail(isb_s3s4) ELSE isb_s3s4
      /\ program' = program
  BY DEF Cycle
<1>3. \E S : Answers \in Seq(S) /\ 0 \in S
  <2>1. ff_mbox_out \in Seq([value : Word, trap : BOOLEAN])
    BY DEF MboxTypeOK
  <2>2. Captured = <<>> \/ \E a : Captured = <<a>>
    BY DEF Captured
  <2>3. PICK a : Captured = <<>> \/ Captured = <<a>>
    BY <2>2
  <2> DEFINE S == [value : Word, trap : BOOLEAN] \cup {a, 0}
  <2>4. [value : Word, trap : BOOLEAN] \subseteq S /\ a \in S /\ 0 \in S
    OBVIOUS
  <2> HIDE DEF S
  <2>5. ff_mbox_out \in Seq(S) /\ Captured \in Seq(S)
    <3>1. ff_mbox_out \in Seq(S)
      BY <2>1, <2>4, SeqMonotonic
    <3>2. <<>> \in Seq(S) /\ <<a>> \in Seq(S)
      BY <2>4
    <3> QED
      BY <2>3, <3>1, <3>2
  <2>6. Answers \in Seq(S)
    BY <2>5, ConcatProperties DEF Answers
  <2> QED
    BY <2>4, <2>6
<1>4. /\ collect => Len(Answers) >= 1
      /\ Len(ff_mbox_out') = (Lo + Caught) - One(collect)
      /\ DOMAIN ff_mbox_out' = 1 .. Len(ff_mbox_out')
      /\ \A n \in 1 .. Len(ff_mbox_out') : ff_mbox_out'[n] = Answers[n + One(collect)]
  <2>1. PICK S : Answers \in Seq(S) /\ 0 \in S
    BY <1>3
  <2>2. (collect => Answers # <<>>) /\ FALSE \in BOOLEAN
    BY <1>2
  <2>3. Moves(ff_mbox_out', Answers, 0, collect, FALSE)
    BY <1>2 DEF Moves
  <2>4. /\ ff_mbox_out' \in Seq(S)
        /\ Len(ff_mbox_out') = (Len(Answers) - One(collect)) + One(FALSE)
        /\ \A n \in 1 .. Len(Answers) - One(collect) : ff_mbox_out'[n] = Answers[n + One(collect)]
    <3> DEFINE out == collect
               into == FALSE
    <3>1. /\ Moves(ff_mbox_out', Answers, 0, out, into) /\ out \in BOOLEAN /\ into \in BOOLEAN
          /\ out => Answers # <<>>
      BY <2>2, <2>3
    <3> HIDE DEF out, into
    <3>2. /\ ff_mbox_out' \in Seq(S)
          /\ Len(ff_mbox_out') = (Len(Answers) - One(out)) + One(into)
          /\ \A n \in 1 .. Len(Answers) - One(out) : ff_mbox_out'[n] = Answers[n + One(out)]
      BY <2>1, <3>1, Moved
    <3> QED
      BY <3>2 DEF out, into
  <2>5. collect => Len(Answers) >= 1
    BY <2>1, <2>2, EmptySeq
  <2>6. One(FALSE) = 0 /\ Len(Answers) = Lo + Caught /\ DOMAIN ff_mbox_out' = 1 .. Len(ff_mbox_out')
    BY <1>1, <2>4 DEF One
  <2>7. Len(ff_mbox_out') = (Lo + Caught) - One(collect) /\ (Lo + Caught) - One(collect) \in Nat
    BY <1>1, <2>4, <2>5, <2>6 DEF One
  <2> QED
    BY <2>4, <2>5, <2>6, <2>7
<1>5. One(collect) <= Lo + Caught
  BY <1>1, <1>4 DEF One
<1>6. /\ isb_s3s4' \in Seq(1 .. Len(program))
      /\ Len(isb_s3s4') = (Li - One(collect)) + One(offload)
      /\ \A n \in 1 .. Li - One(collect) : isb_s3s4'[n] = isb_s3s4[n + One(collect)]
      /\ offload => isb_s3s4'[(Li - One(collect)) + 1] = next
  <2>1. isb_s3s4 \in Seq(1 .. Len(program)) /\ next \in 1 .. Len(program)
    BY DEF MboxTypeOK
  <2>2. collect => isb_s3s4 # <<>>
    BY <1>1, <1>5, <2>1 DEF One
  <2>3. Moves(isb_s3s4', isb_s3s4, next, collect, offload)
    BY <1>2 DEF Moves
  <2> DEFINE out == collect
             into == offload
  <2>4. PICK S : S = 1 .. Len(program)
    OBVIOUS
  <2>5. /\ Moves(isb_s3s4', isb_s3s4, next, out, into) /\ out \in BOOLEAN /\ into \in BOOLEAN
        /\ out => isb_s3s4 # <<>>
        /\ isb_s3s4 \in Seq(S) /\ next \in S
    BY <2>1, <2>2, <2>3, <2>4
  <2> HIDE DEF out, into
  <2>6. /\ isb_s3s4' \in Seq(S)
        /\ Len(isb_s3s4') = (Li - One(out)) + One(into)
        /\ \A n \in 1 .. Li - One(out) : isb_s3s4'[n] = isb_s3s4[n + One(out)]
        /\ into => isb_s3s4'[(Li - One(out)) + 1] = next
    BY <2>5, Moved
  <2> QED
    BY <2>4, <2>6 DEF out, into
<1>7. /\ ff_ordering' \in Seq(BOOLEAN)
      /\ Len(ff_ordering') = (Lq - Caught) + One(offload)
      /\ \A k \in 1 .. Lq - Caught : ff_ordering'[k] = ff_ordering[k + Caught]
      /\ offload => ff_ordering'[(Lq - Caught) + 1] = IsMul(program[next])
  <2>1. ff_ordering \in Seq(BOOLEAN) /\ IsMul(program[next]) \in BOOLEAN
    BY DEF MboxTypeOK, IsMul
  <2>2. pop => ff_ordering # <<>>
    BY <1>1, <2>1 DEF One
  <2>3. Moves(ff_ordering', ff_ordering, IsMul(program[next]), pop, offload)
    BY <1>2 DEF Moves
  <2>4. pop \in BOOLEAN /\ One(pop) = Caught
    BY <1>1
  <2> HIDE DEF pop
  <2> QED
    BY <2>1, <2>2, <2>3, <2>4, Moved
<1>8. \A n \in 1 .. Li - One(collect) : Asked(n)' = Asked(n + One(collect))
  BY <1>2, <1>6 DEF Asked
<1>9. \A k \in 1 .. Lq - Caught : Waiting(k)' = Waiting(k + Caught)
  <2> TAKE k \in 1 .. Lq - Caught
  <2>0. PICK lo \in Nat : lo = Len(ff_mbox_out') /\ lo = (Lo + Caught) - One(collect)
    BY <1>1, <1>4, <1>5
  <2>1. /\ Len(ff_mbox_out') + k \in 1 .. Li - One(collect)
        /\ (Len(ff_mbox_out') + k) + One(collect) = Lo + (k + Caught)
    BY <1>1, <2>0
  <2>2. program'[isb_s3s4'[Len(ff_mbox_out') + k]] = Asked(Lo + (k + Caught))
    <3>1. PICK n \in 1 .. Li - One(collect) : n = Len(ff_mbox_out') + k
      BY <2>1
    <3>2. Asked(n)' = Asked(n + One(collect))
      BY <1>8
    <3>3. program'[isb_s3s4'[Len(ff_mbox_out') + k]] = Asked(n)'
      BY <3>1 DEF Asked
    <3> QED
      BY <2>1, <3>1, <3>2, <3>3
  <2> QED
    BY <2>2 DEF Waiting, Asked
<1>10. ASSUME offload, NEW k \in Nat, k = (Lq - Caught) + 1 PROVE Waiting(k)' = program[next]
  <2>1. PICK lo \in Nat : lo = Len(ff_mbox_out') /\ lo = (Lo + Caught) - One(collect)
    BY <1>1, <1>4, <1>5
  <2>2. Len(ff_mbox_out') + k = (Li - One(collect)) + 1
    BY <1>1, <1>10, <2>1
  <2>3. Waiting(k)' = program'[isb_s3s4'[Len(ff_mbox_out') + k]]
    BY DEF Waiting, Asked
  <2>4. isb_s3s4'[(Li - One(collect)) + 1] = next
    BY <1>6, <1>10
  <2>5. program' = program
    BY <1>2
  <2> QED
    BY <2>2, <2>3, <2>4, <2>5
<1> QED
  BY <1>4, <1>5, <1>6, <1>7, <1>8, <1>9, <1>10

LEMMA QueueStep ==
  ASSUME MboxTypeOK, Counted,
         NEW offload \in BOOLEAN, NEW collect \in BOOLEAN, Cycle(offload, collect), NEW k \in Nat
  PROVE  /\ k \in Products' <=> \/ k \in 1 .. Len(ff_ordering) - Caught /\ k + Caught \in Products
                                \/ /\ k = (Len(ff_ordering) - Caught) + 1
                                   /\ offload /\ IsMul(program[next])
         /\ k \in Divisions' <=> \/ k \in 1 .. Len(ff_ordering) - Caught /\ k + Caught \in Divisions
                                 \/ /\ k = (Len(ff_ordering) - Caught) + 1
                                    /\ offload /\ ~IsMul(program[next])
<1> DEFINE m == Len(ff_ordering) - Caught
<1>1. /\ Len(ff_ordering) \in Nat /\ Caught \in {0, 1} /\ m \in Nat
      /\ DOMAIN ff_ordering = 1 .. Len(ff_ordering)
  BY Asks, AnswersAre
<1>2. /\ DOMAIN (ff_ordering') = 1 .. m + One(offload)
      /\ \A j \in 1 .. m : ff_ordering'[j] = ff_ordering[j + Caught]
      /\ offload => ff_ordering'[m + 1] = IsMul(program[next])
  <2>1. /\ ff_ordering' \in Seq(BOOLEAN) /\ Len(ff_ordering') = m + One(offload)
        /\ \A j \in 1 .. m : ff_ordering'[j] = ff_ordering[j + Caught]
        /\ \A j \in Nat : offload /\ j = m + 1 => ff_ordering'[j] = IsMul(program[next])
    BY StreamStep
  <2>2. DOMAIN (ff_ordering') = 1 .. m + One(offload)
    BY <2>1
  <2>3. m + 1 \in Nat
    BY <1>1
  <2> QED
    BY <2>1, <2>2, <2>3
<1>3. /\ Products' = {j \in DOMAIN (ff_ordering') : ff_ordering'[j]}
      /\ Divisions' = {j \in DOMAIN (ff_ordering') : ~ff_ordering'[j]}
  BY DEF Products, Divisions
<1> HIDE DEF m
<1>4. CASE k \in 1 .. m
  <2>1. k \in DOMAIN (ff_ordering') /\ k + Caught \in DOMAIN ff_ordering /\ k # m + 1
    BY <1>1, <1>2, <1>4 DEF One, m
  <2> QED
    BY <1>2, <1>3, <1>4, <2>1 DEF Products, Divisions, m
<1>5. CASE k = m + 1
  <2>1. (k \in DOMAIN (ff_ordering') <=> offload) /\ k \notin 1 .. m
    BY <1>1, <1>2, <1>5 DEF One
  <2> QED
    BY <1>2, <1>3, <1>5, <2>1 DEF m
<1>6. CASE k \notin 1 .. m /\ k # m + 1
  <2>1. k \notin DOMAIN (ff_ordering')
    BY <1>1, <1>2, <1>6 DEF One
  <2> QED
    BY <1>3, <1>6, <2>1 DEF m
<1> QED
  BY <1>4, <1>5, <1>6

\* The products of the queue are in the registers of the multiplier, the older
\* ones ahead, and nothing else is.
InPipeline(pos) ==
  /\ \A j, k \in Products : j < k => pos[j] > pos[k]
  /\ \A k \in Products : stages[pos[k]] = Waiting(k)
  /\ \A i \in 1 .. MULSTAGES_TOTAL : stages[i] # None => \E k \in Products : pos[k] = i

Pipeline == \E pos \in [Products -> 1 .. MULSTAGES_TOTAL] : InPipeline(pos)

LEMMA Stages == MULSTAGES_TOTAL \in Nat /\ MULSTAGES_TOTAL >= 2
BY MboxAssumption DEF MULSTAGES_TOTAL

LEMMA Occupied ==
  ASSUME MboxTypeOK, Counted, NEW pos \in [Products -> 1 .. MULSTAGES_TOTAL], InPipeline(pos)
  PROVE  /\ \A k \in Products : /\ k \in 1 .. Len(ff_ordering) /\ pos[k] \in 1 .. MULSTAGES_TOTAL
                                /\ Waiting(k) \in Request /\ IsMul(Waiting(k))
                                /\ stages[pos[k]] = Waiting(k) /\ stages[pos[k]] # None
         /\ CapturesMul => pos[1] = MULSTAGES_TOTAL /\ 1 \in Products
<1>1. \A k \in Products : /\ k \in 1 .. Len(ff_ordering) /\ pos[k] \in 1 .. MULSTAGES_TOTAL
                          /\ Waiting(k) \in Request /\ IsMul(Waiting(k))
                          /\ stages[pos[k]] = Waiting(k) /\ stages[pos[k]] # None
  <2> TAKE k \in Products
  <2>1. k \in DOMAIN ff_ordering /\ ff_ordering[k]
    BY DEF Products
  <2>2. /\ Len(isb_s3s4) = Len(ff_mbox_out) + Len(ff_ordering)
        /\ k \in 1 .. Len(ff_ordering) /\ Len(ff_mbox_out) \in Nat /\ Len(ff_ordering) \in Nat
    BY <2>1, Asks DEF Counted
  <2>3. Len(ff_mbox_out) + k \in 1 .. Len(isb_s3s4)
    BY <2>2
  <2>4. Waiting(k) \in Request /\ Waiting(k) # None
    BY <2>3, Asks DEF Waiting
  <2>5. IsMul(Waiting(k))
    BY <2>1 DEF Counted
  <2>6. stages[pos[k]] = Waiting(k) /\ pos[k] \in 1 .. MULSTAGES_TOTAL
    BY DEF InPipeline
  <2> QED
    BY <2>2, <2>4, <2>5, <2>6
<1>2. ASSUME CapturesMul PROVE pos[1] = MULSTAGES_TOTAL /\ 1 \in Products
  <2>1. 1 \in Products
    BY <1>2, AnswersAre
  <2>2. PICK k \in Products : pos[k] = MULSTAGES_TOTAL
    BY <1>2, Stages DEF CapturesMul, mul_output_valid, InPipeline
  <2>3. k \in 1 .. Len(ff_ordering) /\ pos[1] \in 1 .. MULSTAGES_TOTAL
    BY <1>1, <2>1
  <2>4. 1 < k => pos[1] > pos[k]
    BY <2>1 DEF InPipeline
  <2>5. k = 1 \/ 1 < k
    BY <2>3
  <2> QED
    BY <2>1, <2>2, <2>3, <2>4, <2>5, Stages
<1> QED
  BY <1>1, <1>2

LEMMA Freed ==
  ASSUME NEW i \in 1 .. MULSTAGES_TOTAL
  PROVE  /\ \A j \in 1 .. MULSTAGES_TOTAL : j <= i /\ Frees(i) => Frees(j)
         /\ i < MULSTAGES_TOTAL /\ stages[i] # None /\ Frees(i) => Frees(i + 1)
         /\ i = MULSTAGES_TOTAL /\ stages[i] # None /\ Frees(i) => CapturesMul
         /\ CapturesMul => Frees(i)
BY Stages DEF Frees

LEMMA PipelineStep ==
  ASSUME MboxTypeOK, Counted, Pipeline,
         NEW offload \in BOOLEAN, NEW collect \in BOOLEAN, Cycle(offload, collect)
  PROVE  Pipeline'
<1>1. PICK pos \in [Products -> 1 .. MULSTAGES_TOTAL] : InPipeline(pos)
  BY DEF Pipeline
<1>2. PICK m \in Nat, c \in {0, 1}, T \in Nat :
        /\ m = Len(ff_ordering) - Caught /\ c = Caught /\ T = MULSTAGES_TOTAL /\ T >= 2
        /\ Len(ff_ordering) = m + c
  <2>1. /\ Len(ff_ordering) \in Nat /\ Caught \in {0, 1} /\ Caught <= Len(ff_ordering)
        /\ MULSTAGES_TOTAL \in Nat /\ MULSTAGES_TOTAL >= 2
    BY Asks, AnswersAre, Stages
  <2>2. Len(ff_ordering) - Caught \in Nat /\ Len(ff_ordering) = (Len(ff_ordering) - Caught) + Caught
    BY <2>1
  <2> QED
    BY <2>1, <2>2
<1> DEFINE r == IF offload /\ IsMul(program[next]) THEN program[next] ELSE None
           At(k) == IF Frees(pos[k]) THEN pos[k] + 1 ELSE pos[k]
           qos == [k \in Products' |-> IF k > m THEN 1 ELSE At(k + c)]
<1>3. \A k \in Nat : k \in Products' <=> \/ k \in 1 .. m /\ k + c \in Products
                                         \/ k = m + 1 /\ offload /\ IsMul(program[next])
  BY <1>2, QueueStep
<1>4. \A k \in Products' : k \in Nat
  <2>1. ff_ordering' \in Seq(BOOLEAN)
    BY StreamStep
  <2> QED
    BY <2>1 DEF Products
<1>5. /\ \A k \in Products : /\ k \in 1 .. m + c /\ pos[k] \in 1 .. T
                             /\ stages[pos[k]] = Waiting(k) /\ stages[pos[k]] # None
      /\ CapturesMul => pos[1] = T /\ 1 \in Products /\ c = 1
      /\ CapturesDiv => 1 \notin Products /\ ~CapturesMul /\ c = 1
      /\ c = 1 => CapturesMul \/ CapturesDiv
  BY <1>1, <1>2, Occupied, AnswersAre DEF Products, Divisions
<1>6. \A j, k \in Products : j < k => pos[j] > pos[k]
  BY <1>1 DEF InPipeline
<1>7. \A i \in 1 .. T :
        /\ ~Frees(i) => stages'[i] = stages[i]
        /\ Frees(i) /\ i = 1 => stages'[i] = r
        /\ Frees(i) /\ i # 1 => stages'[i] = stages[i - 1]
  BY <1>2 DEF Cycle, Multiplier
<1>8. \A i \in 1 .. T :
        /\ \A j \in 1 .. T : j <= i /\ Frees(i) => Frees(j)
        /\ i < T /\ stages[i] # None /\ Frees(i) => Frees(i + 1)
        /\ i = T /\ stages[i] # None /\ Frees(i) => CapturesMul
        /\ CapturesMul => Frees(i)
  BY <1>2, Freed
<1>9. offload /\ IsMul(program[next]) => Frees(1) /\ r = program[next]
  BY DEF Cycle, Offloads, mv_ready, mul_ready
<1>10. /\ \A k \in 1 .. m : Waiting(k)' = Waiting(k + c)
       /\ \A k \in Nat : offload /\ k = m + 1 => Waiting(k)' = program[next]
  BY <1>2, StreamStep
<1> HIDE DEF r
<1>11. ASSUME NEW k \in Products, k > c
       PROVE  /\ At(k) \in 1 .. T /\ stages'[At(k)] = Waiting(k)
              /\ pos[k] = 1 /\ Frees(1) => At(k) = 2
  <2>1. /\ pos[k] \in 1 .. T /\ stages[pos[k]] = Waiting(k) /\ stages[pos[k]] # None
        /\ k \in 1 .. m + c
    BY <1>5
  <2>2. Frees(pos[k]) => pos[k] < T
    <3> SUFFICES ASSUME Frees(pos[k]), pos[k] = T PROVE FALSE
      BY <2>1
    <3>1. CapturesMul
      BY <1>8, <2>1
    <3>2. pos[1] = T /\ 1 \in Products /\ 1 < k
      BY <1>5, <1>11, <3>1
    <3>3. pos[1] > pos[k]
      BY <1>6, <3>2
    <3> QED
      BY <1>2, <3>2, <3>3
  <2>3. CASE Frees(pos[k])
    <3>1. At(k) = pos[k] + 1 /\ pos[k] + 1 \in 1 .. T /\ pos[k] + 1 # 1 /\ (pos[k] + 1) - 1 = pos[k]
      BY <1>2, <2>1, <2>2, <2>3
    <3>2. Frees(pos[k] + 1)
      BY <1>8, <2>1, <2>2, <2>3
    <3>3. stages'[pos[k] + 1] = stages[pos[k]]
      BY <1>7, <3>1, <3>2
    <3> QED
      BY <2>1, <3>1, <3>3
  <2>4. CASE ~Frees(pos[k])
    <3>1. At(k) = pos[k]
      BY <2>4
    <3>2. stages'[pos[k]] = stages[pos[k]]
      BY <1>7, <2>1, <2>4
    <3> QED
      BY <2>1, <2>4, <3>1, <3>2
  <2> QED
    BY <2>3, <2>4
<1>12. ASSUME NEW j \in Products, NEW k \in Products, j < k, j > c PROVE At(j) > At(k)
  <2>1. /\ pos[j] \in 1 .. T /\ pos[k] \in 1 .. T /\ pos[j] > pos[k]
        /\ stages[pos[k]] # None
    BY <1>5, <1>6, <1>12
  <2>2. CASE ~Frees(pos[k])
    BY <2>1, <2>2
  <2>3. CASE Frees(pos[k])
    <3>1. pos[k] < T => Frees(pos[k] + 1)
      BY <1>8, <2>1, <2>3
    <3>2. pos[k] + 1 = pos[j] \/ pos[k] + 1 < pos[j]
      BY <2>1
    <3>3. CASE pos[k] + 1 = pos[j]
      <4>1. Frees(pos[j])
        BY <2>1, <3>1, <3>3
      <4> QED
        BY <2>1, <2>3, <3>3, <4>1
    <3>4. CASE pos[k] + 1 < pos[j]
      BY <2>1, <2>3, <3>4
    <3> QED
      BY <3>2, <3>3, <3>4
  <2> QED
    BY <2>2, <2>3
<1> HIDE DEF At
<1>13. \A k \in Products' :
         \/ k \in 1 .. m /\ k + c \in Products /\ k + c > c /\ qos[k] = At(k + c)
         \/ k = m + 1 /\ offload /\ IsMul(program[next]) /\ qos[k] = 1
  BY <1>2, <1>3, <1>4
<1>14. qos \in [Products' -> 1 .. T]
  <2> SUFFICES ASSUME NEW k \in Products' PROVE qos[k] \in 1 .. T
    OBVIOUS
  <2> HIDE DEF qos
  <2> QED
    BY <1>2, <1>11, <1>13
<1>15. ASSUME NEW j \in Products', NEW k \in Products', j < k PROVE qos[j] > qos[k]
  <2>1. j \in Nat /\ k \in Nat
    BY <1>4
  <2>2. j \in 1 .. m /\ j + c \in Products /\ j + c > c /\ qos[j] = At(j + c)
    BY <1>2, <1>13, <1>15, <2>1
  <2>3. CASE k \in 1 .. m
    <3>1. k + c \in Products /\ qos[k] = At(k + c) /\ j + c < k + c
      BY <1>2, <1>13, <1>15, <2>3
    <3> HIDE DEF qos
    <3> QED
      BY <1>12, <2>2, <3>1
  <2>4. CASE k = m + 1
    <3>1. qos[k] = 1 /\ Frees(1)
      BY <1>2, <1>9, <1>13, <2>4
    <3>2. pos[j + c] \in 1 .. T /\ stages[pos[j + c]] # None
      BY <1>5, <2>2
    <3>3. At(j + c) \in 1 .. T /\ (pos[j + c] = 1 => At(j + c) = 2)
      BY <1>11, <2>2, <3>1
    <3>4. pos[j + c] # 1 => At(j + c) # 1
      BY <3>2 DEF At
    <3> HIDE DEF qos
    <3> QED
      BY <2>2, <3>1, <3>3, <3>4
  <2> QED
    BY <1>13, <2>3, <2>4
<1>16. ASSUME NEW k \in Products' PROVE stages'[qos[k]] = Waiting(k)'
  <2>1. CASE k \in 1 .. m
    <3>1. k + c \in Products /\ k + c > c /\ qos[k] = At(k + c)
      BY <1>2, <1>13, <2>1
    <3> HIDE DEF qos
    <3> QED
      BY <1>10, <1>11, <2>1, <3>1
  <2>2. CASE k = m + 1
    <3>1. offload /\ IsMul(program[next]) /\ qos[k] = 1 /\ k \in Nat
      BY <1>2, <1>13, <2>2
    <3>2. stages'[1] = r
      BY <1>2, <1>7, <1>9, <3>1
    <3> HIDE DEF qos
    <3> QED
      BY <1>9, <1>10, <2>2, <3>1, <3>2
  <2> QED
    BY <1>13, <2>1, <2>2
<1>17. ASSUME NEW i \in 1 .. T, stages'[i] # None PROVE \E k \in Products' : qos[k] = i
  <2>0. ASSUME NEW k \in Products, k > c, At(k) = i PROVE \E j \in Products' : qos[j] = i
    <3>1. k - c \in 1 .. m /\ (k - c) + c = k /\ k - c \in Nat
      BY <1>2, <1>5, <2>0
    <3>2. k - c \in Products' /\ ~(k - c > m)
      BY <1>2, <1>3, <3>1
    <3>3. qos[k - c] = At((k - c) + c)
      BY <3>2
    <3> HIDE DEF qos
    <3> QED
      BY <2>0, <3>1, <3>2, <3>3
  <2>1. CASE ~Frees(i)
    <3>1. stages[i] # None
      BY <1>7, <1>17, <2>1
    <3>2. PICK k \in Products : pos[k] = i
      BY <1>1, <1>2, <3>1 DEF InPipeline
    <3>3. ~CapturesMul
      BY <1>8, <2>1
    <3>4. k > c
      BY <1>2, <1>5, <3>3
    <3>5. At(k) = i
      BY <2>1, <3>2 DEF At
    <3> QED
      BY <2>0, <3>4, <3>5
  <2>2. CASE Frees(i) /\ i = 1
    <3>1. r # None
      BY <1>7, <1>17, <2>2
    <3>2. offload /\ IsMul(program[next])
      BY <3>1 DEF r
    <3>3. m + 1 \in Products' /\ m + 1 > m
      BY <1>2, <1>3, <3>2
    <3> QED
      BY <2>2, <3>3
  <2>3. CASE Frees(i) /\ i # 1
    <3>1. stages[i - 1] # None /\ i - 1 \in 1 .. T
      BY <1>2, <1>7, <1>17, <2>3
    <3>2. PICK k \in Products : pos[k] = i - 1
      BY <1>1, <1>2, <3>1 DEF InPipeline
    <3>3. Frees(i - 1)
      BY <1>8, <2>3, <3>1
    <3>4. At(k) = i
      BY <3>2, <3>3 DEF At
    <3>5. k > c
      <4>1. CapturesMul => k # 1
        BY <1>5, <3>2
      <4> QED
        BY <1>2, <1>5, <4>1
    <3> QED
      BY <2>0, <3>4, <3>5
  <2> QED
    BY <2>1, <2>2, <2>3
<1>18. PICK q : q = qos
  OBVIOUS
<1> HIDE DEF qos
<1>19. InPipeline(q)'
  <2>1. \A j, k \in Products' : j < k => q[j] > q[k]
    BY <1>15, <1>18
  <2>2. \A k \in Products' : stages'[q[k]] = Waiting(k)'
    BY <1>16, <1>18
  <2>3. \A i \in 1 .. MULSTAGES_TOTAL : stages'[i] # None => \E k \in Products' : q[k] = i
    BY <1>2, <1>17, <1>18
  <2> QED
    BY <2>1, <2>2, <2>3 DEF InPipeline
<1>20. q \in [Products' -> 1 .. MULSTAGES_TOTAL]
  BY <1>2, <1>14, <1>18
<1>21. (\E f \in [Products -> 1 .. MULSTAGES_TOTAL] : InPipeline(f))'
  BY <1>19, <1>20
<1> QED
  BY <1>21 DEF Pipeline

Dividend == fn_fix_inputs(request).op1
Divisor  == fn_fix_inputs(request).op2

\* The divider works for the one division of the queue: after n cycles of work it
\* has brought down the n * StepBits upper digits of the dividend.
DividerInv ==
  /\ \A j, k \in Divisions : j = k
  /\ Divisions # {} <=> rg_count # 0 \/ rg_valid
  /\ \A k \in Divisions : request = Waiting(k)
  /\ rg_valid => rg_count = 0 /\ rg_result = Specified(request)
  /\ rg_count # 0 =>
       /\ rg_count <= DIVSTAGES + 1
       /\ Divisor # 0 => Brought(partial, Dividend, Divisor, (rg_count - 1) * StepBits)

LEMMA Requested ==
  ASSUME MboxTypeOK, Counted, NEW k \in Divisions
  PROVE  /\ k \in 1 .. Len(ff_ordering)
         /\ Waiting(k) \in Request /\ Waiting(k).op \in DivOps /\ ~IsMul(Waiting(k))
<1>1. k \in DOMAIN ff_ordering /\ ~ff_ordering[k]
  BY DEF Divisions
<1>2. /\ Len(isb_s3s4) = Len(ff_mbox_out) + Len(ff_ordering)
      /\ k \in 1 .. Len(ff_ordering) /\ Len(ff_mbox_out) \in Nat /\ Len(ff_ordering) \in Nat
  BY <1>1, Asks DEF Counted
<1>3. Len(ff_mbox_out) + k \in 1 .. Len(isb_s3s4)
  BY <1>2
<1>4. Waiting(k) \in Request
  BY <1>3, Asks DEF Waiting
<1>5. ~IsMul(Waiting(k))
  BY <1>1 DEF Counted
<1> QED
  BY <1>2, <1>4, <1>5 DEF IsMul, Request

NewDivision(offload) == offload /\ ~IsMul(program[next])

LEMMA DivisionsStep ==
  ASSUME MboxTypeOK, Counted, DividerInv,
         NEW offload \in BOOLEAN, NEW collect \in BOOLEAN, Cycle(offload, collect)
  PROVE  /\ NewDivision(offload) =>
              /\ rg_count = 0 /\ ~rg_valid
              /\ Divisions' = {(Len(ff_ordering) - Caught) + 1}
              /\ \A k \in Divisions' : Waiting(k)' = program[next]
         /\ ~NewDivision(offload) /\ ~CapturesDiv =>
              /\ \A k \in Divisions' : k + Caught \in Divisions /\ Waiting(k)' = Waiting(k + Caught)
              /\ \A k \in Divisions : k - Caught \in Divisions'
         /\ ~NewDivision(offload) /\ CapturesDiv => Divisions' = {}
<1>1. PICK m \in Nat, c \in {0, 1} :
        /\ m = Len(ff_ordering) - Caught /\ c = Caught /\ Len(ff_ordering) = m + c
  <2>1. /\ Len(ff_ordering) \in Nat /\ Caught \in {0, 1} /\ Caught <= Len(ff_ordering)
    BY Asks, AnswersAre
  <2>2. Len(ff_ordering) - Caught \in Nat /\ Len(ff_ordering) = (Len(ff_ordering) - Caught) + Caught
    BY <2>1
  <2> QED
    BY <2>1, <2>2
<1>2. \A k \in Nat : k \in Divisions' <=> \/ k \in 1 .. m /\ k + c \in Divisions
                                          \/ k = m + 1 /\ NewDivision(offload)
  BY <1>1, QueueStep DEF NewDivision
<1>3. \A k \in Divisions' : k \in Nat
  <2>1. ff_ordering' \in Seq(BOOLEAN)
    BY StreamStep
  <2> QED
    BY <2>1 DEF Divisions
<1>4. \A k \in Divisions : k \in 1 .. m + c
  BY <1>1, Requested
<1>5. /\ \A k \in 1 .. m : Waiting(k)' = Waiting(k + c)
      /\ \A k \in Nat : offload /\ k = m + 1 => Waiting(k)' = program[next]
  BY <1>1, StreamStep
<1>6. /\ CapturesMul => 1 \notin Divisions
      /\ CapturesDiv => 1 \in Divisions /\ c = 1
      /\ c = 1 => CapturesMul \/ CapturesDiv
  BY <1>1, AnswersAre DEF Products, Divisions
<1>7. ASSUME NewDivision(offload)
      PROVE  /\ rg_count = 0 /\ ~rg_valid
             /\ Divisions' = {m + 1}
             /\ \A k \in Divisions' : Waiting(k)' = program[next]
  <2>1. rg_count = 0 /\ ~rg_valid
    BY <1>7 DEF NewDivision, Cycle, Offloads, mv_ready, div_ready
  <2>2. Divisions = {}
    BY <2>1 DEF DividerInv
  <2>3. m + 1 \in Nat
    BY <1>1
  <2>4. Divisions' = {m + 1}
    BY <1>2, <1>3, <1>7, <2>2, <2>3
  <2>5. \A k \in Divisions' : Waiting(k)' = program[next]
    BY <1>5, <1>7, <2>3, <2>4 DEF NewDivision
  <2> QED
    BY <2>1, <2>4, <2>5
<1>8. ASSUME ~NewDivision(offload), ~CapturesDiv
      PROVE  /\ \A k \in Divisions' : k + c \in Divisions /\ Waiting(k)' = Waiting(k + c)
             /\ \A k \in Divisions : k - c \in Divisions'
  <2>1. \A k \in Divisions' : k \in 1 .. m /\ k + c \in Divisions
    BY <1>2, <1>3, <1>8
  <2>2. ASSUME NEW k \in Divisions PROVE k - c \in Divisions'
    <3>1. k - c \in 1 .. m /\ (k - c) + c = k /\ k - c \in Nat
      BY <1>1, <1>4, <1>6, <1>8
    <3> QED
      BY <1>2, <3>1
  <2> QED
    BY <1>5, <2>1, <2>2
<1>9. ASSUME ~NewDivision(offload), CapturesDiv PROVE Divisions' = {}
  <2>1. \A k \in Divisions' : k \in 1 .. m /\ k + c \in Divisions
    BY <1>2, <1>3, <1>9
  <2>2. \A k \in Divisions : k = 1
    BY <1>6, <1>9 DEF DividerInv
  <2> QED
    BY <1>1, <1>6, <1>9, <2>1, <2>2
<1> QED
  BY <1>1, <1>7, <1>8, <1>9

LEMMA Fixed ==
  ASSUME NEW r \in Request
  PROVE  /\ fn_fix_inputs(r).op1 \in Word /\ fn_fix_inputs(r).op2 \in Word
         /\ fn_fix_inputs(r).op2 = 0 <=> Low(r.in2, Width(r.half)) = 0
<1>1. r.in1 \in Word /\ r.in2 \in Word
  BY DEF Request
<1> QED
  BY <1>1, MagnitudeOf DEF fn_fix_inputs

LEMMA AnswerTypes ==
  ASSUME NEW r \in Request, NEW p \in Partials
  PROVE  Quotient(r, p) \in Word /\ ByZero(r) \in Word
<1> DEFINE raw == IF r.op \in {"REM", "REMU"} THEN Low(p.rem, XLEN) ELSE p.quo
<1>1. r.half \in BOOLEAN /\ r.in1 \in Word /\ 2^XLEN - 1 \in Word
  BY Widths DEF Request, Word
<1>2. raw \in Word
  <2>1. p.quo \in Word /\ p.rem \in Int /\ XLEN \in Nat
    BY Widths DEF Partials
  <2>2. Low(p.rem, XLEN) \in Word
    BY <2>1, LowOf DEF Word
  <2> QED
    BY <2>1, <2>2
<1>3. Quotient(r, p) = WordResult(IF Complements(r, raw) THEN Negate(raw) ELSE raw, r.half)
  BY DEF Quotient
<1> HIDE DEF raw
<1>4. Negate(raw) \in Word /\ 0 \in Int
  BY <1>2, NegateOf
<1>5. \A x \in Word : WordResult(x, r.half) \in Word
  BY <1>1, <1>4, WordResultOf
<1>6. Quotient(r, p) \in Word
  BY <1>2, <1>3, <1>4, <1>5
<1>7. ByZero(r) \in Word
  BY <1>1, <1>5 DEF ByZero
<1> QED
  BY <1>6, <1>7

DividerTypes ==
  /\ rg_count \in 0 .. CountLimit - 1
  /\ partial \in Partials
  /\ request \in Request \cup {None}
  /\ rg_valid \in BOOLEAN /\ rg_result \in Word /\ rg_trap \in BOOLEAN

(* A cycle of work.                                                         *)
LEMMA SingleStepDiv ==
  ASSUME MboxTypeOK, Counted, DividerInv, single_step_div
  PROVE  /\ DividerTypes'
         /\ request' = request /\ request \in Request /\ request.op \in DivOps
         /\ rg_count' # 0 \/ rg_valid'
         /\ rg_valid' => rg_count' = 0 /\ rg_result' = Specified(request)
         /\ rg_count' # 0 =>
              /\ rg_count' <= DIVSTAGES + 1
              /\ Divisor # 0 => Brought(partial', Dividend, Divisor, (rg_count' - 1) * StepBits)
         /\ rg_count' # 0 => Divisor # 0
         /\ Divisor = 0 => rg_valid' /\ rg_trap' = ARITH_TRAP
         /\ Divisor # 0 => ~rg_trap'
<1>1. rg_count # 0 /\ ~rg_valid /\ request' = request
  BY DEF single_step_div
<1>2. PICK k \in Divisions : request = Waiting(k)
  BY <1>1 DEF DividerInv
<1>3. request \in Request /\ request.op \in DivOps
  BY <1>2, Requested
<1>4. PICK r \in Request : r = request /\ r.op \in DivOps
  BY <1>3
<1>5. PICK n \in Word, d \in Word : n = fn_fix_inputs(r).op1 /\ d = fn_fix_inputs(r).op2
  BY Fixed
<1>6. Dividend = n /\ Divisor = d
  BY <1>4, <1>5 DEF Dividend, Divisor
<1>7. /\ rg_count \in Nat /\ rg_count <= DIVSTAGES + 1 /\ partial \in Partials
      /\ d # 0 => Brought(partial, n, d, (rg_count - 1) * StepBits)
      /\ DIVSTAGES \in Nat /\ StepBits \in Nat /\ StepBits * DIVSTAGES = XLEN
      /\ CountLimit \in Nat /\ DIVSTAGES + 1 < CountLimit /\ ARITH_TRAP \in BOOLEAN
      /\ rg_result \in Word
  BY <1>1, <1>6, SteppedBits, CountLimitOf, MboxAssumption DEF DividerInv, MboxTypeOK, Partials
<1>8. PICK p \in Partials, t \in Nat : p = partial /\ t = rg_count /\ t # 0
  BY <1>1, <1>7
<1>9. partial' = fn_single_div(p, d) /\ partial' \in Partials
  BY <1>4, <1>5, <1>8, StepTypes DEF single_step_div
<1>10. CASE d = 0
  <2>1. rg_count' = 0 /\ rg_valid' = TRUE /\ rg_result' = ByZero(r) /\ rg_trap' = ARITH_TRAP
    BY <1>4, <1>5, <1>10 DEF single_step_div, Finish, traps
  <2>2. ByZero(r) = Specified(r) /\ ByZero(r) \in Word
    BY <1>4, <1>5, <1>8, <1>10, ByZeroSpecified, AnswerTypes
  <2>3. DividerTypes'
    BY <1>1, <1>3, <1>7, <1>9, <2>1, <2>2 DEF DividerTypes
  <2> QED
    BY <1>1, <1>3, <1>4, <1>6, <1>10, <2>1, <2>2, <2>3
<1>11. CASE d # 0 /\ step_done
  <2>1. rg_count' = 0 /\ rg_valid' = TRUE /\ rg_result' = Quotient(r, p) /\ rg_trap' = FALSE
    BY <1>4, <1>5, <1>8, <1>11 DEF single_step_div, Finish
  <2>2. t = DIVSTAGES + 1
    BY <1>8, <1>11 DEF step_done
  <2>3. (t - 1) * StepBits = XLEN
    BY <1>7, <2>2
  <2>4. Brought(p, n, d, XLEN)
    BY <1>7, <1>8, <1>11, <2>3
  <2>5. p.quo = n \div d /\ Low(p.rem, XLEN) = n % d
    BY <1>11, <2>4, BroughtLast
  <2>6. Quotient(r, p) = Specified(r) /\ Quotient(r, p) \in Word
    BY <1>4, <1>5, <1>11, <2>5, QuotientSpecified, AnswerTypes
  <2>7. DividerTypes'
    <3>1. rg_count' \in 0 .. CountLimit - 1 /\ request' \in Request \cup {None}
      BY <1>1, <1>3, <1>7, <2>1
    <3>2. rg_valid' \in BOOLEAN /\ rg_trap' \in BOOLEAN /\ rg_result' \in Word
      BY <2>1, <2>6
    <3> QED
      BY <1>9, <3>1, <3>2 DEF DividerTypes
  <2> QED
    BY <1>1, <1>3, <1>4, <1>6, <1>11, <2>1, <2>6, <2>7
<1>12. CASE d # 0 /\ ~step_done
  <2>1. /\ rg_count' = (t + 1) % CountLimit /\ rg_trap' = FALSE
        /\ rg_valid' = rg_valid /\ rg_result' = rg_result
    BY <1>4, <1>5, <1>8, <1>12 DEF single_step_div
  <2>2. t + 1 \in Nat /\ t + 1 <= DIVSTAGES + 1 /\ t <= DIVSTAGES
    BY <1>7, <1>8, <1>12 DEF step_done
  <2>3. rg_count' = t + 1
    <3>1. t + 1 \in 0 .. CountLimit - 1 /\ CountLimit \in Nat \ {0} /\ t + 1 \in Int
      BY <1>7, <2>2
    <3>2. t + 1 = 0 * CountLimit + (t + 1) /\ 0 \in Int
      BY <3>1
    <3>3. (t + 1) % CountLimit = t + 1
      BY <3>1, <3>2, DividesOnce
    <3> QED
      BY <2>1, <3>3
  <2>4. /\ (t - 1) * StepBits \in Nat /\ (t - 1) * StepBits + StepBits = t * StepBits
        /\ t * StepBits <= XLEN
    <3>1. t - 1 \in Nat /\ DIVSTAGES - t \in Nat
      BY <1>7, <1>8, <2>2
    <3>2. (DIVSTAGES - t) * StepBits \in Nat /\ (t - 1) * StepBits \in Nat
      BY <1>7, <3>1
    <3>3. StepBits * DIVSTAGES = (DIVSTAGES - t) * StepBits + t * StepBits
      BY <1>7, <1>8
    <3>4. (t - 1) * StepBits + StepBits = t * StepBits
      BY <1>7, <1>8
    <3>5. t * StepBits \in Nat
      BY <1>7, <1>8
    <3> QED
      BY <1>7, <3>2, <3>3, <3>4, <3>5
  <2>5. Brought(p, n, d, (t - 1) * StepBits)
    BY <1>7, <1>8, <1>12
  <2>6. Brought(fn_single_div(p, d), n, d, (t - 1) * StepBits + StepBits)
    <3>1. PICK j \in Nat : j = (t - 1) * StepBits /\ j + StepBits <= XLEN
      BY <2>4
    <3> QED
      BY <1>12, <2>5, <3>1, StepBrings
  <2>7. (t + 1) - 1 = t
    BY <1>8
  <2>8. Brought(partial', n, d, (rg_count' - 1) * StepBits)
    BY <1>9, <2>3, <2>4, <2>6, <2>7
  <2>9. DividerTypes'
    <3>1. rg_count' \in 0 .. CountLimit - 1 /\ request' \in Request \cup {None}
      BY <1>1, <1>3, <1>7, <2>2, <2>3
    <3>2. rg_valid' = FALSE /\ rg_trap' = FALSE /\ rg_result' \in Word
      BY <1>1, <1>7, <2>1
    <3> QED
      BY <1>9, <3>1, <3>2 DEF DividerTypes
  <2>10. rg_count' # 0 /\ ~rg_valid'
    BY <1>1, <1>8, <2>1, <2>3
  <2> QED
    BY <1>1, <1>3, <1>6, <1>12, <2>1, <2>2, <2>3, <2>8, <2>9, <2>10
<1> QED
  BY <1>10, <1>11, <1>12

LEMMA DividerDoes ==
  ASSUME MboxTypeOK, NEW offload \in BOOLEAN, NEW collect \in BOOLEAN, Cycle(offload, collect)
  PROVE  /\ NewDivision(offload) => div_inputs(program[next]) /\ program[next] \in Request
         /\ ~NewDivision(offload) => single_step_div \/ ((rg_count = 0 \/ rg_valid) /\ div_waits)
<1> DEFINE d == IF offload /\ ~IsMul(IF offload THEN program[next] ELSE None)
                THEN IF offload THEN program[next] ELSE None ELSE None
<1>1. Divider(d)
  BY DEF Cycle
<1>2. program[next] \in Request /\ program[next] # None
  BY Asks
<1>3. d = IF NewDivision(offload) THEN program[next] ELSE None
  BY DEF NewDivision
<1> HIDE DEF d
<1> QED
  BY <1>1, <1>2, <1>3 DEF Divider

LEMMA DividerStep ==
  ASSUME MboxTypeOK, Counted, DividerInv,
         NEW offload \in BOOLEAN, NEW collect \in BOOLEAN, Cycle(offload, collect)
  PROVE  DividerTypes' /\ DividerInv'
<1>1. PICK c \in {0, 1} : c = Caught
  BY AnswersAre
<1>2. CASE NewDivision(offload)
  <2>1. PICK r \in Request : r = program[next] /\ div_inputs(r)
    BY <1>2, DividerDoes
  <2>2. /\ rg_count = 0 /\ ~rg_valid
        /\ Divisions' = {(Len(ff_ordering) - Caught) + 1}
        /\ \A k \in Divisions' : Waiting(k)' = r
    BY <1>2, <2>1, DivisionsStep
  <2>3. /\ rg_count' = 1 /\ request' = r /\ rg_trap' = FALSE /\ rg_valid' = rg_valid
        /\ rg_result' = rg_result
        /\ partial' = [rem |-> 0, quo |-> fn_fix_inputs(r).op1]
    BY <2>1, <2>2 DEF div_inputs
  <2>4. PICK n \in Word, d \in Word : n = fn_fix_inputs(r).op1 /\ d = fn_fix_inputs(r).op2
    BY Fixed
  <2>5. d # 0 => Brought(partial', n, d, (rg_count' - 1) * StepBits)
    <3>1. (1 - 1) * StepBits = 0
      BY SteppedBits
    <3>2. d # 0 => Brought([rem |-> 0, quo |-> n], n, d, 0)
      BY BroughtFirst
    <3> QED
      BY <2>3, <2>4, <3>1, <3>2
  <2>6. Dividend' = n /\ Divisor' = d
    BY <2>3, <2>4 DEF Dividend, Divisor
  <2>7. DividerTypes'
    <3>1. 0 \in 0 .. 2^(XLEN + 1) - 1
      BY Widths
    <3>2. partial' \in Partials
      BY <2>3, <2>4, <3>1 DEF Partials
    <3>3. rg_count' \in 0 .. CountLimit - 1
      BY <2>3, CountLimitOf, SteppedBits
    <3>4. rg_valid' = FALSE /\ rg_valid' \in BOOLEAN /\ rg_trap' \in BOOLEAN /\ rg_result' \in Word
      BY <2>2, <2>3 DEF MboxTypeOK
    <3> QED
      BY <2>3, <3>2, <3>3, <3>4 DEF DividerTypes
  <2>8. /\ \A j, k \in Divisions' : j = k
        /\ Divisions' # {}
        /\ \A k \in Divisions' : request' = Waiting(k)'
    BY <2>2, <2>3
  <2>9. rg_count' # 0 /\ ~rg_valid' /\ rg_count' <= DIVSTAGES + 1
    BY <2>2, <2>3, SteppedBits DEF MboxTypeOK
  <2> QED
    BY <2>5, <2>6, <2>7, <2>8, <2>9 DEF DividerInv
<1>3. CASE ~NewDivision(offload) /\ ~CapturesDiv
  <2>1. /\ \A k \in Divisions' : k + c \in Divisions /\ Waiting(k)' = Waiting(k + c)
        /\ \A k \in Divisions : k - c \in Divisions'
    BY <1>1, <1>3, DivisionsStep
  <2>2. \A k \in Divisions' : k \in Int
    <3>1. ff_ordering' \in Seq(BOOLEAN)
      BY StreamStep
    <3> QED
      BY <3>1 DEF Divisions
  <2>3. \A j, k \in Divisions' : j = k
    <3> TAKE j, k \in Divisions'
    <3>1. j + c = k + c
      BY <2>1 DEF DividerInv
    <3>2. j \in Int /\ k \in Int /\ c \in Int
      BY <1>1, <2>2
    <3> QED
      BY <3>1, <3>2
  <2>4. Divisions' # {} <=> Divisions # {}
    BY <2>1
  <2>5. ASSUME request' = request PROVE \A k \in Divisions' : request' = Waiting(k)'
    BY <2>1, <2>5 DEF DividerInv
  <2>6. CASE single_step_div
    <3>1. /\ DividerTypes'
          /\ request' = request
          /\ rg_count' # 0 \/ rg_valid'
          /\ rg_valid' => rg_count' = 0 /\ rg_result' = Specified(request)
          /\ rg_count' # 0 =>
               /\ rg_count' <= DIVSTAGES + 1
               /\ Divisor # 0 => Brought(partial', Dividend, Divisor, (rg_count' - 1) * StepBits)
      BY <2>6, SingleStepDiv
    <3>2. Dividend' = Dividend /\ Divisor' = Divisor
      BY <3>1 DEF Dividend, Divisor
    <3>3. Divisions # {}
      BY <2>6 DEF single_step_div, DividerInv
    <3> QED
      BY <2>3, <2>4, <2>5, <3>1, <3>2, <3>3 DEF DividerInv
  <2>7. CASE (rg_count = 0 \/ rg_valid) /\ div_waits
    <3>1. /\ rg_valid' = rg_valid /\ rg_trap' = FALSE /\ rg_count' = rg_count
          /\ partial' = partial /\ request' = request /\ rg_result' = rg_result
      BY <1>3, <2>7 DEF div_waits, MboxTypeOK
    <3>2. DividerTypes'
      BY <3>1 DEF DividerTypes, MboxTypeOK, Partials
    <3>3. rg_count' = 0
      BY <2>7, <3>1 DEF DividerInv
    <3>4. rg_valid' => rg_result' = Specified(request')
      BY <3>1 DEF DividerInv
    <3>5. Divisions' # {} <=> rg_count' # 0 \/ rg_valid'
      BY <2>4, <3>1 DEF DividerInv
    <3> QED
      BY <2>3, <2>5, <3>1, <3>2, <3>3, <3>4, <3>5 DEF DividerInv
  <2> QED
    BY <1>3, <2>6, <2>7, DividerDoes
<1>4. CASE ~NewDivision(offload) /\ CapturesDiv
  <2>1. Divisions' = {}
    BY <1>4, DivisionsStep
  <2>2. rg_valid /\ ~single_step_div
    BY <1>4 DEF CapturesDiv, single_step_div
  <2>3. div_waits
    BY <1>4, <2>2, DividerDoes
  <2>4. /\ rg_valid' = FALSE /\ rg_trap' = FALSE /\ rg_count' = rg_count
        /\ partial' = partial /\ request' = request /\ rg_result' = rg_result
    BY <1>4, <2>3 DEF div_waits
  <2>5. rg_count' = 0
    BY <2>2, <2>4 DEF DividerInv
  <2>6. DividerTypes'
    BY <2>4 DEF DividerTypes, MboxTypeOK, Partials
  <2> QED
    BY <2>1, <2>4, <2>5, <2>6 DEF DividerInv
<1> QED
  BY <1>2, <1>3, <1>4

-----------------------------------------------------------------------------
(* Results.                                                                *)

Answer == [value : Word, trap : BOOLEAN]

LEMMA CapturedSpecified ==
  ASSUME MboxTypeOK, Counted, Pipeline, DividerInv
  PROVE  /\ Captured \in Seq(Answer)
         /\ Caught = 1 => /\ Captured[1].value = Specified(Waiting(1))
                          /\ Len(ff_mbox_out) + 1 \in 1 .. Len(isb_s3s4)
                          /\ CapturesMul => Captured[1].trap = FALSE /\ IsMul(Waiting(1))
                          /\ CapturesDiv => /\ Captured[1].trap = rg_trap /\ request = Waiting(1)
                                            /\ ~IsMul(Waiting(1)) /\ request \in Request
<1>1. PICK pos \in [Products -> 1 .. MULSTAGES_TOTAL] : InPipeline(pos)
  BY DEF Pipeline
<1>2. Caught = 1 => Len(ff_mbox_out) + 1 \in 1 .. Len(isb_s3s4)
  <2>1. /\ Len(isb_s3s4) = Len(ff_mbox_out) + Len(ff_ordering) /\ Caught <= Len(ff_ordering)
        /\ Len(ff_mbox_out) \in Nat /\ Len(ff_ordering) \in Nat
    BY Asks, AnswersAre DEF Counted
  <2> QED
    BY <2>1
<1>3. CASE CapturesMul
  <2>1. /\ stages[MULSTAGES_TOTAL] = Waiting(1) /\ Waiting(1) \in Request /\ IsMul(Waiting(1))
        /\ ~CapturesDiv
    BY <1>1, <1>3, Occupied, AnswersAre
  <2>2. PICK r \in Request : r = Waiting(1) /\ r.op \in MulOps
    BY <2>1 DEF IsMul
  <2>3. Captured = <<[value |-> Product(r), trap |-> FALSE]>>
    BY <1>3, <2>1, <2>2 DEF Captured
  <2>4. Product(r) = Specified(r) /\ Product(r) \in Word
    BY <2>2, ProductSpecified
  <2>5. [value |-> Product(r), trap |-> FALSE] \in Answer
    BY <2>4 DEF Answer
  <2> QED
    BY <1>2, <2>1, <2>2, <2>3, <2>4, <2>5
<1>4. CASE CapturesDiv
  <2>1. 1 \in Divisions /\ ~CapturesMul /\ rg_valid
    BY <1>4, AnswersAre DEF CapturesDiv
  <2>2. Waiting(1) \in Request /\ ~IsMul(Waiting(1)) /\ request = Waiting(1)
    BY <2>1, Requested DEF DividerInv
  <2>3. Captured = <<[value |-> rg_result, trap |-> rg_trap]>>
    BY <1>4, <2>1 DEF Captured
  <2>4. rg_result = Specified(request) /\ rg_result \in Word /\ rg_trap \in BOOLEAN
    BY <2>1 DEF DividerInv, MboxTypeOK
  <2>5. [value |-> rg_result, trap |-> rg_trap] \in Answer
    BY <2>4 DEF Answer
  <2> QED
    BY <1>2, <2>1, <2>2, <2>3, <2>4, <2>5
<1>5. CASE ~CapturesMul /\ ~CapturesDiv
  <2>1. Captured = <<>> /\ Caught = 0
    BY <1>5 DEF Captured, Caught, One
  <2> QED
    BY <2>1
<1> QED
  BY <1>3, <1>4, <1>5

LEMMA AnswersSpecified ==
  ASSUME MboxTypeOK, Counted, Pipeline, DividerInv, ResultsAreSpecified
  PROVE  /\ Answers \in Seq(Answer) /\ Len(Answers) = Len(ff_mbox_out) + Caught
         /\ \A n \in 1 .. Len(ff_mbox_out) + Caught :
              /\ n \in 1 .. Len(isb_s3s4)
              /\ Answers[n].value = Specified(Asked(n))
<1>1. ff_mbox_out \in Seq(Answer) /\ Captured \in Seq(Answer)
  BY CapturedSpecified DEF MboxTypeOK, Answer
<1>2. Answers \in Seq(Answer)
  BY <1>1, ConcatProperties DEF Answers
<1>3. /\ Caught \in {0, 1} /\ Len(Answers) = Len(ff_mbox_out) + Caught
      /\ \A n \in 1 .. Len(ff_mbox_out) : Answers[n] = ff_mbox_out[n]
      /\ Caught = 1 => Answers[Len(ff_mbox_out) + 1] = Captured[1]
      /\ Len(ff_mbox_out) \in Nat
  BY Asks, AnswersAre
<1>4. ASSUME NEW n \in 1 .. Len(ff_mbox_out) + Caught
      PROVE  n \in 1 .. Len(isb_s3s4) /\ Answers[n].value = Specified(Asked(n))
  <2>1. CASE n \in 1 .. Len(ff_mbox_out)
    BY <1>3, <2>1, Asks DEF ResultsAreSpecified
  <2>2. CASE n = Len(ff_mbox_out) + 1 /\ Caught = 1
    BY <1>3, <2>2, CapturedSpecified DEF Waiting
  <2> QED
    BY <1>3, <2>1, <2>2
<1> QED
  BY <1>2, <1>3, <1>4

LEMMA ResultsStep ==
  ASSUME MboxTypeOK, Counted, Pipeline, DividerInv, ResultsAreSpecified,
         NEW offload \in BOOLEAN, NEW collect \in BOOLEAN, Cycle(offload, collect)
  PROVE  ff_mbox_out' \in Seq(Answer) /\ ResultsAreSpecified'
<1>1. ff_mbox_out' \in Seq(Answer)
  <2>1. Answers \in Seq(Answer) /\ (collect => Answers # <<>>)
    BY AnswersSpecified DEF Cycle
  <2>2. ff_mbox_out' = IF collect THEN Tail(Answers) ELSE Answers
    BY DEF Cycle
  <2> QED
    BY <2>1, <2>2, HeadTailProperties
<1>2. PICK lo \in Nat, li \in Nat, c \in {0, 1}, l \in {0, 1}, o \in {0, 1} :
        /\ lo = Len(ff_mbox_out) /\ li = Len(isb_s3s4)
        /\ c = Caught /\ l = One(collect) /\ o = One(offload) /\ l <= lo + c
  BY Asks, AnswersAre, StreamStep DEF One
<1>3. /\ DOMAIN (ff_mbox_out') = 1 .. (lo + c) - l
      /\ \A n \in 1 .. (lo + c) - l : ff_mbox_out'[n] = Answers[n + l]
      /\ \A n \in 1 .. li - l : Asked(n)' = Asked(n + l)
      /\ DOMAIN (isb_s3s4') = 1 .. (li - l) + o
  <2>1. isb_s3s4' \in Seq(1 .. Len(program)) /\ Len(isb_s3s4') = (li - l) + o
    BY <1>2, StreamStep
  <2>2. DOMAIN (isb_s3s4') = 1 .. (li - l) + o
    BY <2>1
  <2>3. /\ DOMAIN (ff_mbox_out') = 1 .. Len(ff_mbox_out') /\ Len(ff_mbox_out') = (lo + c) - l
        /\ \A n \in 1 .. Len(ff_mbox_out') : ff_mbox_out'[n] = Answers[n + l]
    BY <1>2, StreamStep
  <2>4. \A n \in 1 .. li - l : Asked(n)' = Asked(n + l)
    BY <1>2, StreamStep
  <2> QED
    BY <2>2, <2>3, <2>4
<1>4. \A n \in 1 .. lo + c : n \in 1 .. li /\ Answers[n].value = Specified(Asked(n))
  BY <1>2, AnswersSpecified
<1>5. ASSUME NEW n \in 1 .. (lo + c) - l
      PROVE  n \in DOMAIN (isb_s3s4') /\ ff_mbox_out'[n].value = Specified(Asked(n)')
  <2>1. n + l \in 1 .. lo + c
    BY <1>2
  <2>2. n + l \in 1 .. li /\ Answers[n + l].value = Specified(Asked(n + l))
    BY <1>4, <2>1
  <2>3. n \in 1 .. li - l /\ n \in 1 .. (li - l) + o
    BY <1>2, <2>2
  <2> QED
    BY <1>3, <2>2, <2>3
<1>6. ResultsAreSpecified'
  BY <1>3, <1>5 DEF ResultsAreSpecified
<1> QED
  BY <1>1, <1>6

LEMMA CountedStep ==
  ASSUME MboxTypeOK, Counted,
         NEW offload \in BOOLEAN, NEW collect \in BOOLEAN, Cycle(offload, collect)
  PROVE  Counted'
<1>1. PICK lo \in Nat, lq \in Nat, li \in Nat, c \in {0, 1}, l \in {0, 1}, o \in {0, 1} :
        /\ lo = Len(ff_mbox_out) /\ lq = Len(ff_ordering) /\ li = Len(isb_s3s4) /\ li = lo + lq
        /\ c = Caught /\ l = One(collect) /\ o = One(offload) /\ l <= lo + c /\ c <= lq
  <2>1. /\ Len(ff_mbox_out) \in Nat /\ Len(ff_ordering) \in Nat /\ Len(isb_s3s4) \in Nat
        /\ Len(isb_s3s4) = Len(ff_mbox_out) + Len(ff_ordering)
        /\ Caught \in {0, 1} /\ Caught <= Len(ff_ordering)
    BY Asks, AnswersAre DEF Counted
  <2>2. One(collect) \in {0, 1} /\ One(offload) \in {0, 1}
    BY DEF One
  <2>3. One(collect) <= Len(ff_mbox_out) + Caught
    BY StreamStep
  <2> QED
    BY <2>1, <2>2, <2>3
<1>2. /\ Len(ff_ordering') = (lq - c) + o
      /\ Len(ff_mbox_out') = (lo + c) - l
      /\ Len(isb_s3s4') = (li - l) + o
  BY <1>1, StreamStep
<1>3. Len(isb_s3s4') = Len(ff_mbox_out') + Len(ff_ordering')
  BY <1>1, <1>2
<1>4. ASSUME NEW k \in DOMAIN (ff_ordering') PROVE ff_ordering'[k] = IsMul(Waiting(k)')
  <2>1. ff_ordering' \in Seq(BOOLEAN)
    BY StreamStep
  <2>2. k \in Nat /\ k \in 1 .. (lq - c) + o
    BY <1>2, <1>4, <2>1
  <2>3. CASE k \in 1 .. lq - c
    <3>1. ff_ordering'[k] = ff_ordering[k + c] /\ Waiting(k)' = Waiting(k + c)
      BY <1>1, <2>3, StreamStep
    <3>2. k + c \in DOMAIN ff_ordering
      BY <1>1, <2>3, Asks
    <3> QED
      BY <3>1, <3>2 DEF Counted
  <2>4. CASE k \notin 1 .. lq - c
    <3>1. offload /\ k = (lq - c) + 1
      BY <1>1, <2>2, <2>4 DEF One
    <3> QED
      BY <1>1, <2>2, <3>1, StreamStep
  <2> QED
    BY <2>3, <2>4
<1> QED
  BY <1>3, <1>4 DEF Counted, IsMul

MboxInv ==
  MboxTypeOK /\ Counted /\ Pipeline /\ DividerInv /\ ResultsAreSpecified

LEMMA StagesStep ==
  ASSUME MboxTypeOK, NEW offload \in BOOLEAN, NEW collect \in BOOLEAN, Cycle(offload, collect)
  PROVE  stages' \in [1 .. MULSTAGES_TOTAL -> Request \cup {None}]
<1>1. PICK r \in Request \cup {None} : Multiplier(r)
  BY Asks DEF Cycle
<1>2. stages \in [1 .. MULSTAGES_TOTAL -> Request \cup {None}]
  BY DEF MboxTypeOK
<1>3. \A i \in 1 .. MULSTAGES_TOTAL : i # 1 => i - 1 \in 1 .. MULSTAGES_TOTAL
  BY Stages
<1> QED
  BY <1>1, <1>2, <1>3 DEF Multiplier

LEMMA MboxTypeStep ==
  ASSUME MboxInv, NEW offload \in BOOLEAN, NEW collect \in BOOLEAN, Cycle(offload, collect)
  PROVE  MboxTypeOK'
<1> USE DEF MboxInv
<1>1. PICK lo \in Nat, lq \in Nat, li \in Nat, c \in {0, 1}, l \in {0, 1}, o \in {0, 1} :
        /\ lo = Len(ff_mbox_out) /\ lq = Len(ff_ordering) /\ li = Len(isb_s3s4)
        /\ c = Caught /\ l = One(collect) /\ o = One(offload) /\ l <= lo + c /\ c <= lq
        /\ lo <= isb_s3s4_depth /\ li <= isb_s3s4_depth /\ lq <= ordering_size
        /\ c = 1 => lo < isb_s3s4_depth
  <2>1. /\ Len(ff_mbox_out) \in Nat /\ Len(ff_ordering) \in Nat /\ Len(isb_s3s4) \in Nat
        /\ Caught \in {0, 1} /\ Caught <= Len(ff_ordering)
        /\ Caught = 1 => Len(ff_mbox_out) < isb_s3s4_depth
    BY Asks, AnswersAre
  <2>2. One(collect) \in {0, 1} /\ One(offload) \in {0, 1}
    BY DEF One
  <2>3. One(collect) <= Len(ff_mbox_out) + Caught
    BY StreamStep
  <2>4. /\ Len(ff_mbox_out) <= isb_s3s4_depth /\ Len(isb_s3s4) <= isb_s3s4_depth
        /\ Len(ff_ordering) <= ordering_size
    BY DEF MboxTypeOK, out_depth
  <2> QED
    BY <2>1, <2>2, <2>3, <2>4
<1>2. o = 1 => li < isb_s3s4_depth /\ lq < ordering_size
  BY <1>1 DEF One, Cycle, Offloads, mv_ready
<1>3. isb_s3s4_depth \in Nat /\ ordering_size \in Nat
  BY MboxAssumption, Stages DEF ordering_size
<1>4. program' = program /\ program' \in Programs
  BY DEF Cycle, MboxTypeOK
<1>5. next' \in 1 .. Len(program')
  <2>1. PICK n \in Nat, x \in Nat : n = Len(program) /\ x = next /\ x \in 1 .. n /\ n >= 2
    BY MboxAssumption DEF MboxTypeOK
  <2>2. x % n \in 0 .. n - 1
    BY <2>1
  <2>3. next' = (x % n) + 1 \/ next' = x
    BY <2>1 DEF Cycle
  <2>4. Len(program') = n
    BY <1>4, <2>1
  <2>5. next' \in 1 .. n
    BY <2>1, <2>2, <2>3
  <2> QED
    BY <2>4, <2>5
<1>6. /\ isb_s3s4' \in Seq(1 .. Len(program')) /\ Len(isb_s3s4') <= isb_s3s4_depth
  <2>1. isb_s3s4' \in Seq(1 .. Len(program)) /\ Len(isb_s3s4') = (li - l) + o
    BY <1>1, StreamStep
  <2>2. (li - l) + o <= isb_s3s4_depth
    BY <1>1, <1>2, <1>3
  <2> QED
    BY <1>4, <2>1, <2>2
<1>7. /\ ff_ordering' \in Seq(BOOLEAN) /\ Len(ff_ordering') <= ordering_size
  <2>1. ff_ordering' \in Seq(BOOLEAN) /\ Len(ff_ordering') = (lq - c) + o
    BY <1>1, StreamStep
  <2> QED
    BY <1>1, <1>2, <1>3, <2>1
<1>8. stages' \in [1 .. MULSTAGES_TOTAL -> Request \cup {None}]
  BY StagesStep
<1>9. DividerTypes'
  BY DividerStep
<1>10. ff_mbox_out' \in Seq(Answer) /\ Len(ff_mbox_out') <= isb_s3s4_depth
  <2>1. Len(ff_mbox_out') = (lo + c) - l
    BY <1>1, StreamStep
  <2> QED
    BY <1>1, <1>3, <2>1, ResultsStep
<1> QED
  BY <1>4, <1>5, <1>6, <1>7, <1>8, <1>9, <1>10
     DEF MboxTypeOK, DividerTypes, Partials, Answer, out_depth, ordering_size

LEMMA MboxInitially ==
  ASSUME MboxInit
  PROVE  MboxInv
<1>1. /\ program \in Programs /\ next = 1 /\ Len(program) >= 2 /\ Len(program) \in Nat
  BY MboxAssumption DEF MboxInit
<1>2. MboxTypeOK
  <2>1. /\ 0 \in 0 .. 2^(XLEN + 1) - 1 /\ 0 \in Word /\ 0 \in 0 .. CountLimit - 1
    BY Widths, CountLimitOf, SteppedBits DEF Word
  <2>2. isb_s3s4_depth \in Nat /\ ordering_size \in Nat
    BY MboxAssumption, Stages DEF ordering_size
  <2>3. partial \in [rem : 0 .. 2^(XLEN + 1) - 1, quo : Word]
    BY <2>1 DEF MboxInit
  <2>4. /\ isb_s3s4 = <<>> /\ ff_ordering = <<>> /\ ff_mbox_out = <<>>
        /\ stages \in [1 .. MULSTAGES_TOTAL -> Request \cup {None}]
        /\ rg_count = 0 /\ request = None /\ rg_valid = FALSE /\ rg_result = 0 /\ rg_trap = FALSE
    BY DEF MboxInit
  <2>5. Len(<<>>) = 0 /\ \A S : <<>> \in Seq(S)
    OBVIOUS
  <2>6. /\ isb_s3s4 \in Seq(1 .. Len(program)) /\ ff_ordering \in Seq(BOOLEAN)
        /\ ff_mbox_out \in Seq([value : Word, trap : BOOLEAN])
        /\ Len(isb_s3s4) = 0 /\ Len(ff_ordering) = 0 /\ Len(ff_mbox_out) = 0
    BY <2>4, <2>5, Zenon
  <2>7. 0 <= isb_s3s4_depth /\ 0 <= ordering_size /\ next \in 1 .. Len(program)
    BY <1>1, <2>2
  <2> QED
    BY <1>1, <2>1, <2>3, <2>4, <2>6, <2>7 DEF MboxTypeOK, out_depth
<1>3. ff_ordering = <<>> /\ isb_s3s4 = <<>> /\ ff_mbox_out = <<>> /\ DOMAIN <<>> = {} /\ Len(<<>>) = 0
  BY DEF MboxInit
<1>4. Counted /\ ResultsAreSpecified /\ Products = {} /\ Divisions = {}
  BY <1>3 DEF Counted, ResultsAreSpecified, Products, Divisions
<1>5. Pipeline
  <2>1. PICK pos : pos = [k \in Products |-> 1]
    OBVIOUS
  <2>2. pos \in [Products -> 1 .. MULSTAGES_TOTAL]
    BY <1>4, <2>1
  <2>3. \A i \in 1 .. MULSTAGES_TOTAL : stages[i] = None
    BY DEF MboxInit
  <2>4. InPipeline(pos)
    BY <1>4, <2>3 DEF InPipeline
  <2> QED
    BY <2>2, <2>4 DEF Pipeline
<1>6. DividerInv
  BY <1>4 DEF DividerInv, MboxInit
<1> QED
  BY <1>2, <1>4, <1>5, <1>6 DEF MboxInv

LEMMA MboxInvStep ==
  ASSUME MboxInv, [MboxNext]_mboxVars
  PROVE  MboxInv'
<1>1. CASE MboxNext
  <2>1. PICK offload \in BOOLEAN, collect \in BOOLEAN : Cycle(offload, collect)
    BY <1>1 DEF MboxNext
  <2>2. MboxTypeOK'
    BY <2>1, MboxTypeStep
  <2> USE DEF MboxInv
  <2>3. Counted' /\ Pipeline'
    BY <2>1, CountedStep, PipelineStep
  <2>4. DividerInv'
    BY <2>1, DividerStep
  <2>5. ResultsAreSpecified'
    BY <2>1, ResultsStep
  <2> QED
    BY <2>2, <2>3, <2>4, <2>5
<1>2. CASE UNCHANGED mboxVars
  <2>1. /\ UNCHANGED <<program, next, isb_s3s4, ff_ordering, stages, ff_mbox_out>>
        /\ UNCHANGED <<rg_count, partial, request, rg_valid, rg_result, rg_trap>>
    BY <1>2 DEF mboxVars, streamVars, divVars
  <2>2. MboxTypeOK' /\ Counted' /\ ResultsAreSpecified'
    BY <2>1 DEF MboxInv, MboxTypeOK, Counted, ResultsAreSpecified, Waiting, Asked
  <2>3. Products' = Products /\ Divisions' = Divisions
    BY <2>1 DEF Products, Divisions
  <2>4. Pipeline'
    BY <2>1, <2>3 DEF MboxInv, Pipeline, InPipeline, Waiting, Asked
  <2>5. DividerInv'
    BY <2>1, <2>3 DEF MboxInv, DividerInv, Waiting, Asked, Dividend, Divisor
  <2> QED
    BY <2>2, <2>4, <2>5 DEF MboxInv
<1> QED
  BY <1>1, <1>2

LEMMA MboxInvFull ==
  ASSUME MboxInv
  PROVE  NoResultWhenFull
<1> USE DEF MboxInv
<1> SUFFICES ASSUME Len(ff_mbox_out) = isb_s3s4_depth
             PROVE  ~mul_output_valid /\ ~rg_valid
  BY DEF NoResultWhenFull, out_depth
<1>1. ff_ordering = <<>> /\ DOMAIN ff_ordering = {}
  <2>1. /\ Len(isb_s3s4) = Len(ff_mbox_out) + Len(ff_ordering) /\ Len(isb_s3s4) <= isb_s3s4_depth
        /\ Len(ff_mbox_out) \in Nat /\ Len(ff_ordering) \in Nat
    BY Asks DEF Counted, MboxTypeOK
  <2>2. Len(ff_ordering) = 0 /\ ff_ordering \in Seq(BOOLEAN)
    BY <2>1 DEF MboxTypeOK
  <2> QED
    BY <2>2
<1>2. Products = {} /\ Divisions = {}
  BY <1>1 DEF Products, Divisions
<1>3. MULSTAGES_TOTAL \in 1 .. MULSTAGES_TOTAL
  BY Stages
<1>4. ~mul_output_valid
  BY <1>2, <1>3 DEF mul_output_valid, Pipeline, InPipeline
<1>5. ~rg_valid
  BY <1>2 DEF DividerInv
<1> QED
  BY <1>4, <1>5

(* Every register of the unit keeps to its width and its queues to their depths. *)
THEOREM MboxTypeCorrect == MboxSpec => []MboxTypeOK
<1>1. MboxInv => MboxTypeOK
  BY DEF MboxInv
<1> QED
  BY <1>1, MboxInitially, MboxInvStep, PTL DEF MboxSpec

(* The n-th result waiting for stage4 is the value the instruction set       *)
(* specifies for the n-th instruction of isb_s3s4: results leave in the      *)
(* order of the instructions, whichever unit computes them and however long  *)
(* that takes.                                                               *)
THEOREM MboxResults == MboxSpec => []ResultsAreSpecified
<1>1. MboxInv => ResultsAreSpecified
  BY DEF MboxInv
<1> QED
  BY <1>1, MboxInitially, MboxInvStep, PTL DEF MboxSpec

(* No unit holds a result for which ff_mbox_out has no place (the assertions *)
(* of rl_fifo_full in mbox.bsv).                                             *)
THEOREM MboxFull == MboxSpec => []NoResultWhenFull
BY MboxInvFull, MboxInitially, MboxInvStep, PTL DEF MboxSpec

-----------------------------------------------------------------------------
(* Traps.                                                                  *)

\* With two registers in the multiplier, a division by zero is at the head of the
\* queue in the one cycle in which rg_trap holds its trap.
TrapTimed ==
  /\ rg_count # 0 /\ Divisor = 0 =>
       \A k \in Divisions : k = 1 \/ (k = 2 /\ stages[2] # None)
  /\ rg_valid /\ Divisor = 0 => rg_trap = ARITH_TRAP /\ 1 \in Divisions
  /\ rg_valid /\ Divisor # 0 => ~rg_trap

LEMMA HeadTaken ==
  ASSUME MboxInv
  PROVE  /\ 1 \in Products /\ mul_output_valid => CapturesMul
         /\ 1 \in Divisions /\ rg_valid => CapturesDiv
<1> USE DEF MboxInv
<1>1. ASSUME 1 \in DOMAIN ff_ordering
      PROVE  ff_ordering # <<>> /\ Head(ff_ordering) = ff_ordering[1] /\ Len(ff_mbox_out) < out_depth
  <2>1. /\ Len(isb_s3s4) = Len(ff_mbox_out) + Len(ff_ordering) /\ Len(isb_s3s4) <= isb_s3s4_depth
        /\ Len(ff_mbox_out) \in Nat /\ Len(ff_ordering) \in Nat /\ 1 \in 1 .. Len(ff_ordering)
        /\ isb_s3s4_depth \in Nat
    BY <1>1, Asks, MboxAssumption DEF Counted, MboxTypeOK
  <2>2. Len(ff_mbox_out) < out_depth
    BY <2>1 DEF out_depth
  <2>3. ff_ordering # <<>> /\ Head(ff_ordering) = ff_ordering[1]
    BY <1>1 DEF MboxTypeOK
  <2> QED
    BY <2>2, <2>3
<1>2. ff_ordering \in Seq(BOOLEAN)
  BY DEF MboxTypeOK
<1>3. \A k \in DOMAIN ff_ordering : ff_ordering[k] \in BOOLEAN
  BY <1>2
<1>4. 1 \in Products => 1 \in DOMAIN ff_ordering /\ ff_ordering[1] = TRUE
  BY <1>3 DEF Products
<1>5. 1 \in Divisions => 1 \in DOMAIN ff_ordering /\ ff_ordering[1] = FALSE
  BY <1>3 DEF Divisions
<1> QED
  BY <1>1, <1>4, <1>5 DEF CapturesMul, CapturesDiv, NextIs

LEMMA TrapTimedStep ==
  ASSUME MULSTAGES_TOTAL = 2, MboxInv, TrapTimed,
         NEW offload \in BOOLEAN, NEW collect \in BOOLEAN, Cycle(offload, collect)
  PROVE  TrapTimed'
<1> USE DEF MboxInv
<1>1. PICK lq \in Nat, c \in {0, 1} : lq = Len(ff_ordering) /\ c = Caught /\ c <= lq
  BY Asks, AnswersAre
<1>2. /\ CapturesMul => 1 \in Products /\ c = 1
      /\ CapturesDiv => 1 \in Divisions /\ c = 1
      /\ c = 1 => CapturesMul \/ CapturesDiv
      /\ ~(1 \in Products /\ 1 \in Divisions)
  BY <1>1, AnswersAre DEF Products, Divisions
<1>3. CASE NewDivision(offload)
  <2>1. /\ rg_count = 0 /\ ~rg_valid /\ Divisions' = {(lq - c) + 1}
        /\ div_inputs(program[next])
    BY <1>1, <1>3, DivisionsStep, DividerDoes
  <2>2. ~rg_valid'
    BY <2>1 DEF div_inputs
  <2>3. lq < 2
    BY <1>1, <1>3 DEF NewDivision, Cycle, Offloads, mv_ready, ordering_size
  <2>4. (lq - c) + 1 = 1 \/ ((lq - c) + 1 = 2 /\ lq = 1 /\ c = 0)
    BY <1>1, <2>3
  <2>5. ASSUME lq = 1, c = 0 PROVE stages'[2] # None
    <3>1. Divisions = {}
      BY <2>1 DEF DividerInv
    <3>2. 1 \in Products
      BY <1>1, <2>5, <3>1, Asks DEF Products, Divisions
    <3>3. stages[2] = None
      BY <1>2, <2>5, <3>2, HeadTaken DEF mul_output_valid
    <3>4. PICK pos \in [Products -> 1 .. MULSTAGES_TOTAL] : InPipeline(pos)
      BY DEF Pipeline
    <3>5. pos[1] \in 1 .. 2 /\ stages[pos[1]] # None
      BY <3>2, <3>4, Occupied
    <3>6. stages[1] # None
      BY <3>3, <3>5
    <3>7. Frees(2)
      BY <3>3 DEF Frees
    <3>8. stages'[2] = stages[1]
      BY <3>7 DEF Cycle, Multiplier
    <3> QED
      BY <3>6, <3>8
  <2> QED
    BY <2>1, <2>2, <2>4, <2>5 DEF TrapTimed
<1>4. CASE ~NewDivision(offload) /\ single_step_div
  <2>1. /\ request' = request
        /\ rg_count' # 0 => Divisor # 0
        /\ Divisor = 0 => rg_valid' /\ rg_trap' = ARITH_TRAP
        /\ Divisor # 0 => ~rg_trap'
    BY <1>4, SingleStepDiv
  <2>2. Divisor' = Divisor
    BY <2>1 DEF Divisor
  <2>3. rg_count # 0 /\ ~rg_valid
    BY <1>4 DEF single_step_div
  <2>4. PICK k \in Divisions : k \in Nat
    <3>1. Divisions # {}
      BY <2>3 DEF DividerInv
    <3> QED
      BY <3>1, Requested
  <2>5. ~CapturesDiv
    BY <2>3 DEF CapturesDiv
  <2>6. k - c \in Divisions'
    BY <1>1, <1>4, <2>5, DivisionsStep
  <2>7. ASSUME Divisor = 0 PROVE k - c = 1
    <3>1. k = 1 \/ (k = 2 /\ stages[2] # None)
      BY <2>3, <2>7 DEF TrapTimed
    <3>2. CASE k = 1
      BY <1>1, <1>2, <2>5, <3>2
    <3>3. CASE k = 2 /\ stages[2] # None
      <4>1. 2 \in DOMAIN ff_ordering /\ 1 \notin Divisions
        BY <3>3 DEF Divisions, DividerInv
      <4>2. 1 \in Products
        BY <4>1, Asks DEF Products, Divisions
      <4>3. CapturesMul
        BY <3>3, <4>2, HeadTaken DEF mul_output_valid
      <4> QED
        BY <1>2, <3>3, <4>3
    <3> QED
      BY <3>1, <3>2, <3>3
  <2> QED
    BY <2>1, <2>2, <2>6, <2>7 DEF TrapTimed
<1>5. CASE ~NewDivision(offload) /\ ~single_step_div
  <2>1. (rg_count = 0 \/ rg_valid) /\ div_waits
    BY <1>5, DividerDoes
  <2>2. /\ rg_count = 0 /\ rg_count' = rg_count /\ rg_trap' = FALSE /\ request' = request
        /\ rg_valid' = (rg_valid /\ ~CapturesDiv)
    BY <2>1 DEF div_waits, DividerInv
  <2>3. Divisor' = Divisor
    BY <2>2 DEF Divisor
  <2>4. rg_valid /\ Divisor = 0 => CapturesDiv
    BY HeadTaken DEF TrapTimed
  <2> QED
    BY <2>2, <2>3, <2>4 DEF TrapTimed
<1> QED
  BY <1>3, <1>4, <1>5

TrapSpecified(r) == ARITH_TRAP /\ ~IsMul(r) /\ Low(r.in2, Width(r.half)) = 0

LEMMA AnswersTrapped ==
  ASSUME MboxInv, TrapTimed, TrapsDelivered
  PROVE  \A n \in 1 .. Len(ff_mbox_out) + Caught : Answers[n].trap <=> TrapSpecified(Asked(n))
<1> USE DEF MboxInv
<1>1. /\ Caught \in {0, 1}
      /\ \A n \in 1 .. Len(ff_mbox_out) : Answers[n] = ff_mbox_out[n]
      /\ Caught = 1 => Answers[Len(ff_mbox_out) + 1] = Captured[1]
      /\ Caught = 1 => CapturesMul \/ CapturesDiv
      /\ Len(ff_mbox_out) \in Nat /\ DOMAIN ff_mbox_out = 1 .. Len(ff_mbox_out)
  BY Asks, AnswersAre
<1> TAKE n \in 1 .. Len(ff_mbox_out) + Caught
<1>2. CASE n \in 1 .. Len(ff_mbox_out)
  BY <1>1, <1>2 DEF TrapsDelivered, TrapSpecified
<1>3. CASE n = Len(ff_mbox_out) + 1 /\ Caught = 1
  <2>1. Answers[n] = Captured[1] /\ Asked(n) = Waiting(1)
    BY <1>1, <1>3 DEF Waiting
  <2>2. CASE CapturesMul
    <3>1. Captured[1].trap = FALSE /\ IsMul(Waiting(1))
      BY <1>3, <2>2, CapturedSpecified
    <3> QED
      BY <2>1, <3>1 DEF TrapSpecified
  <2>3. CASE CapturesDiv
    <3>1. /\ Captured[1].trap = rg_trap /\ request = Waiting(1)
          /\ ~IsMul(Waiting(1)) /\ request \in Request
      BY <1>3, <2>3, CapturedSpecified
    <3>2. Divisor = 0 <=> Low(Waiting(1).in2, Width(Waiting(1).half)) = 0
      BY <3>1, Fixed DEF Divisor
    <3>3. rg_valid
      BY <2>3 DEF CapturesDiv
    <3>4. rg_trap <=> ARITH_TRAP /\ Divisor = 0
      BY <3>3 DEF TrapTimed
    <3> QED
      BY <2>1, <3>1, <3>2, <3>4 DEF TrapSpecified
  <2> QED
    BY <1>1, <1>3, <2>2, <2>3
<1> QED
  BY <1>1, <1>2, <1>3

LEMMA TrapsStep ==
  ASSUME MboxInv, TrapTimed, TrapsDelivered,
         NEW offload \in BOOLEAN, NEW collect \in BOOLEAN, Cycle(offload, collect)
  PROVE  TrapsDelivered'
<1> USE DEF MboxInv
<1>1. PICK lo \in Nat, c \in {0, 1}, l \in {0, 1} :
        lo = Len(ff_mbox_out) /\ c = Caught /\ l = One(collect) /\ l <= lo + c
  BY Asks, AnswersAre, StreamStep DEF One
<1>2. /\ DOMAIN (ff_mbox_out') = 1 .. (lo + c) - l
      /\ \A n \in 1 .. (lo + c) - l : ff_mbox_out'[n] = Answers[n + l]
  BY <1>1, StreamStep
<1>3. \A n \in 1 .. Len(isb_s3s4) - l : Asked(n)' = Asked(n + l)
  BY <1>1, StreamStep
<1>4. \A n \in 1 .. lo + c : n \in 1 .. Len(isb_s3s4) /\ (Answers[n].trap <=> TrapSpecified(Asked(n)))
  BY <1>1, AnswersSpecified, AnswersTrapped
<1>5. ASSUME NEW n \in 1 .. (lo + c) - l
      PROVE  ff_mbox_out'[n].trap <=> TrapSpecified(Asked(n)')
  <2>1. n + l \in 1 .. lo + c
    BY <1>1
  <2>2. n + l \in 1 .. Len(isb_s3s4) /\ (Answers[n + l].trap <=> TrapSpecified(Asked(n + l)))
    BY <1>4, <2>1
  <2>3. n \in 1 .. Len(isb_s3s4) - l
    BY <1>1, <2>2, Asks
  <2> QED
    BY <1>2, <1>3, <2>2, <2>3
<1> QED
  BY <1>2, <1>5 DEF TrapsDelivered, TrapSpecified, IsMul

(* With two registers in the multiplier (the most that ff_ordering of two places *)
(* fits) no trap is lost.                                                    *)
THEOREM MboxTraps == MULSTAGES_TOTAL = 2 => (MboxSpec => []TrapsDelivered)
<1> DEFINE I == MboxInv /\ TrapTimed /\ TrapsDelivered
<1> SUFFICES ASSUME MULSTAGES_TOTAL = 2 PROVE MboxSpec => []TrapsDelivered
  OBVIOUS
<1>1. MboxInit => I
  <2> SUFFICES ASSUME MboxInit PROVE I
    OBVIOUS
  <2>1. MboxInv
    BY MboxInitially
  <2>2. TrapTimed
    BY DEF TrapTimed, MboxInit
  <2>3. ff_mbox_out = <<>> /\ DOMAIN <<>> = {}
    BY DEF MboxInit
  <2>4. TrapsDelivered
    BY <2>3 DEF TrapsDelivered
  <2> QED
    BY <2>1, <2>2, <2>4
<1>2. I /\ [MboxNext]_mboxVars => I'
  <2> SUFFICES ASSUME I, [MboxNext]_mboxVars PROVE I'
    OBVIOUS
  <2>1. MboxInv'
    BY MboxInvStep
  <2>2. CASE MboxNext
    <3>1. PICK offload \in BOOLEAN, collect \in BOOLEAN : Cycle(offload, collect)
      BY <2>2 DEF MboxNext
    <3> QED
      BY <2>1, <3>1, TrapTimedStep, TrapsStep
  <2>3. CASE UNCHANGED mboxVars
    <3>1. /\ UNCHANGED <<program, isb_s3s4, ff_ordering, stages, ff_mbox_out>>
          /\ UNCHANGED <<rg_count, request, rg_valid, rg_trap>>
      BY <2>3 DEF mboxVars, streamVars, divVars
    <3>2. TrapsDelivered' /\ TrapTimed'
      BY <3>1 DEF TrapsDelivered, TrapTimed, Asked, Divisions, Divisor
    <3> QED
      BY <2>1, <3>2
  <2> QED
    BY <2>2, <2>3
<1> QED
  BY <1>1, <1>2, PTL DEF MboxSpec

=============================================================================
