--------------------------- MODULE PredictorLemmas ---------------------------
(***************************************************************************)
(* What the proofs about the predictors share: facts about histories,      *)
(* indices and counters (BitVectors), and about the target buffer and the  *)
(* return stack (TargetBuffer), for every size of them.                    *)
(***************************************************************************)
EXTENDS TargetBuffer, BitVectors, SequenceTheorems, FunctionTheorems, FiniteSetTheorems,
        WellFoundedInduction, TLAPS

-----------------------------------------------------------------------------
(* Histories and counters.                                                 *)

LEMMA BitsAreSequences ==
  ASSUME NEW n \in Nat, NEW b \in Bits(n)
  PROVE  b \in Seq({0, 1}) /\ Len(b) = n /\ DOMAIN b = 1..n
<1>1. b \in Seq({0, 1})
  BY SeqDef DEF Bits
<1>2. DOMAIN b = 1..n /\ DOMAIN b = 1..Len(b) /\ Len(b) \in Nat
  BY <1>1 DEF Bits
<1> QED
  BY <1>1, <1>2

LEMMA SequencesAreBits ==
  ASSUME NEW n \in Nat, NEW b \in Seq({0, 1}), Len(b) = n
  PROVE  b \in Bits(n)
BY DEF Bits

LEMMA ZerosBits == ASSUME NEW n \in Nat PROVE Zeros(n) \in Bits(n)
BY DEF Zeros, Bits

LEMMA BitsOfBits == ASSUME NEW n \in Nat, NEW k PROVE BitsOf(k, n) \in Bits(n)
BY DEF BitsOf, Bits

LEMMA XorBits == ASSUME NEW n \in Nat, NEW a \in Bits(n), NEW b PROVE Xor(a, b) \in Bits(n)
BY BitsAreSequences DEF Xor, Bits

LEMMA ShiftInBits ==
  ASSUME NEW n \in Nat \ {0}, NEW t \in {0, 1}, NEW h \in Bits(n)
  PROVE  /\ ShiftIn(t, h) \in Bits(n)
         /\ \A i \in 1..n : ShiftIn(t, h)[i] = IF i = 1 THEN t ELSE h[i - 1]
<1>1. h \in Seq({0, 1}) /\ Len(h) = n
  BY BitsAreSequences
<1>2. ShiftIn(t, h) \in Seq({0, 1}) /\ Len(ShiftIn(t, h)) = n
  BY <1>1 DEF ShiftIn
<1>3. \A i \in 1..n : ShiftIn(t, h)[i] = IF i = 1 THEN t ELSE h[i - 1]
  BY <1>1 DEF ShiftIn
<1> QED
  BY <1>2, <1>3, SequencesAreBits

LEMMA NegateBits ==
  ASSUME NEW n \in Nat \ {0}, NEW h \in Bits(n)
  PROVE  /\ NegateNewest(h) \in Bits(n)
         /\ \A i \in 1..n : NegateNewest(h)[i] = IF i = 1 THEN 1 - h[1] ELSE h[i]
BY DEF NegateNewest, Bits

(* Repairing the newest bit is having shifted in the other one.            *)
LEMMA RepairShiftIn ==
  ASSUME NEW n \in Nat \ {0}, NEW t \in {0, 1}, NEW h \in Bits(n)
  PROVE  NegateNewest(ShiftIn(t, h)) = ShiftIn(1 - t, h)
<1> DEFINE a == NegateNewest(ShiftIn(t, h))
           b == ShiftIn(1 - t, h)
<1>1. a \in Bits(n) /\ b \in Bits(n)
  BY ShiftInBits, NegateBits
<1>2. \A i \in 1..n : a[i] = b[i]
  BY ShiftInBits, NegateBits
<1> HIDE DEF a, b
<1>3. a = b
  BY <1>1, <1>2 DEF Bits
<1> QED
  BY <1>3 DEF a, b

(* Shifting back loses the oldest bit of the history only.                 *)
LEMMA ShiftBack ==
  ASSUME NEW n \in Nat \ {0}, NEW t \in {0, 1}, NEW h \in Bits(n),
         NEW m \in Nat, m < n
  PROVE  SubSeq(ShiftLeft(ShiftIn(t, h), 1), 1, m) = SubSeq(h, 1, m)
<1> DEFINE g == ShiftIn(t, h)
           z == Zeros(IF 1 < n THEN 1 ELSE n)
<1>1. g \in Seq({0, 1}) /\ Len(g) = n /\ \A i \in 1..n : g[i] = IF i = 1 THEN t ELSE h[i - 1]
  BY ShiftInBits, BitsAreSequences
<1>2. z \in Seq({0, 1}) /\ Len(z) = 1
  <2>1. (IF 1 < n THEN 1 ELSE n) = 1
    OBVIOUS
  <2> QED
    BY <2>1, ZerosBits, BitsAreSequences
<1>3. ShiftLeft(g, 1) = SubSeq(g, 2, n) \o z
  BY <1>1 DEF ShiftLeft
<1>4. h \in Seq({0, 1}) /\ Len(h) = n
  BY BitsAreSequences
<1> HIDE DEF g, z
<1> DEFINE s == SubSeq(g, 2, n) \o z
<1>5. s \in Seq({0, 1}) /\ Len(s) = n
  <2>1. g \in Seq({0, 1}) /\ Len(g) = n
    BY <1>1
  <2>2. SubSeq(g, 2, n) \in Seq({0, 1}) /\ Len(SubSeq(g, 2, n)) = n - 1
    <3>1. \A i \in 2..n : i \in DOMAIN g
      BY <2>1
    <3>2. Len(SubSeq(g, 2, n)) = n - 1
      BY <2>1
    <3> QED
      BY <2>1, <3>1, <3>2, SubSeqProperties
  <2>3. s \in Seq({0, 1}) /\ Len(s) = Len(SubSeq(g, 2, n)) + Len(z)
    BY <1>2, <2>2, ConcatProperties
  <2> QED
    BY <1>2, <2>2, <2>3
<1>6. ASSUME NEW i \in 1..m PROVE s[i] = h[i]
  <2>1. i + 1 \in 1..n /\ i \in 1..n - 1 /\ (i + 1) - 1 = i
    OBVIOUS
  <2>2. s[i] = SubSeq(g, 2, n)[i]
    BY <1>1, <1>2, <2>1
  <2>3. SubSeq(g, 2, n)[i] = g[i + 1]
    BY <1>1, <2>1
  <2>4. g[i + 1] = h[i]
    BY <1>1, <2>1
  <2> QED
    BY <2>2, <2>3, <2>4
<1> HIDE DEF s
<1>7. SubSeq(s, 1, m) = SubSeq(h, 1, m)
  BY <1>4, <1>5, <1>6
<1> QED
  BY <1>3, <1>7 DEF g, s

(* A two-bit counter stays one, and its upper bit is a bit.                *)
LEMMA CounterTypes ==
  ASSUME NEW c \in 0..3, NEW taken \in BOOLEAN
  PROVE  Saturate(c, taken) \in 0..3 /\ c \div 2 \in {0, 1}
BY DEF Saturate

-----------------------------------------------------------------------------
(* Numbers and their bits.                                                 *)

(* Induction over the naturals, from their being well founded.             *)
LEMMA Least ==
  ASSUME NEW T \in SUBSET Nat, T # {}
  PROVE  \E x \in T : \A y \in T : x <= y
<1> DEFINE R == {ss \in Nat \X Nat : ss[1] < ss[2]}
<1>1. IsWellFoundedOn(R, Nat)
  BY NatLessThanWellFounded DEF OpToRel
<1> HIDE DEF R
<1>2. PICK x \in T : \A y \in T : ~ (<<y, x>> \in R)
  BY <1>1, WFMin
<1>3. ASSUME NEW y \in T PROVE x <= y
  <2>1. ~(<<y, x>> \in R) /\ <<y, x>> \in Nat \X Nat
    BY <1>2
  <2>2. ~(y < x)
    <3> SUFFICES ASSUME y < x PROVE FALSE
      OBVIOUS
    <3>1. <<y, x>>[1] < <<y, x>>[2]
      OBVIOUS
    <3> QED
      BY <2>1, <3>1, Zenon DEF R
  <2> QED
    BY <2>2
<1> QED
  BY <1>3

LEMMA NoSmallestMissing ==
  ASSUME NEW T, 0 \in T, \A n \in Nat : n \in T => n + 1 \in T
  PROVE  Nat \subseteq T
<1> SUFFICES ASSUME Nat \ T # {} PROVE FALSE
  OBVIOUS
<1>1. PICK x \in Nat \ T : \A y \in Nat \ T : x <= y
  BY Least
<1>2. x # 0 /\ x - 1 \in Nat
  OBVIOUS
<1> QED
  BY <1>1, <1>2

(* 2 ^ n is the number of sets of n things: a power by counting.           *)
LEMMA Subsets ==
  ASSUME NEW n \in Nat
  PROVE  /\ IsFiniteSet(SUBSET (1..n)) /\ Cardinality(SUBSET (1..n)) = 2 ^ n
         /\ 2 ^ n \in Nat \ {0}
<1>1. IsFiniteSet(1..n) /\ Cardinality(1..n) = n
  BY FS_Interval
<1>2. IsFiniteSet(SUBSET (1..n)) /\ Cardinality(SUBSET (1..n)) = 2 ^ n
  BY <1>1, FS_SUBSET
<1>3. Cardinality(SUBSET (1..n)) \in Nat /\ Cardinality(SUBSET (1..n)) # 0
  BY <1>2, FS_CardinalityType, FS_EmptySet
<1> QED
  BY <1>2, <1>3

LEMMA OneIsAPower == 2 ^ 0 = 1
<1>1. SUBSET (1..0) = {{}}
  OBVIOUS
<1>2. Cardinality({{}}) = 1
  BY FS_Singleton
<1> QED
  BY <1>1, <1>2, Subsets

LEMMA Doubling ==
  ASSUME NEW n \in Nat
  PROVE  2 ^ (n + 1) = 2 * 2 ^ n
<1> DEFINE A == SUBSET (1..n)
           f == [X \in A |-> X \cup {n + 1}]
           B == {X \cup {n + 1} : X \in A}
<1>1. IsFiniteSet(A) /\ Cardinality(A) = 2 ^ n /\ 2 ^ n \in Nat
  BY Subsets
<1>2. f \in Bijection(A, B)
  <2>1. f \in [A -> B]
    OBVIOUS
  <2>2. ASSUME NEW X \in A, NEW Y \in A, f[X] = f[Y] PROVE X = Y
    <3>1. n + 1 \notin X /\ n + 1 \notin Y
      OBVIOUS
    <3> QED
      BY <2>2, <3>1
  <2>3. \A y \in B : \E x \in A : f[x] = y
    OBVIOUS
  <2> HIDE DEF f, A, B
  <2> QED
    BY <2>1, <2>2, <2>3 DEF Bijection, Injection, IsInjective, Surjection
<1>3. IsFiniteSet(B) /\ Cardinality(B) = 2 ^ n
  <2> HIDE DEF f, A, B
  <2>1. ExistsBijection(A, B)
    BY <1>2 DEF ExistsBijection
  <2> QED
    BY <1>1, <2>1, FS_Bijection
<1>4. A \cup B = SUBSET (1..n + 1)
  <2>1. ASSUME NEW X \in A PROVE X \in SUBSET (1..n + 1) /\ X \cup {n + 1} \in SUBSET (1..n + 1)
    OBVIOUS
  <2>2. ASSUME NEW Z \in SUBSET (1..n + 1), n + 1 \notin Z PROVE Z \in A
    BY <2>2
  <2>3. ASSUME NEW Z \in SUBSET (1..n + 1), n + 1 \in Z PROVE Z \in B
    <3>1. Z \ {n + 1} \in A /\ Z = (Z \ {n + 1}) \cup {n + 1}
      BY <2>3
    <3> QED
      BY <3>1
  <2> HIDE DEF A
  <2> QED
    BY <2>1, <2>2, <2>3
<1>5. A \cap B = {}
  OBVIOUS
<1> HIDE DEF A, B
<1>6. Cardinality(A \cup B) = 2 ^ n + 2 ^ n
  <2>1. Cardinality(A \cup B) = Cardinality(A) + Cardinality(B) - Cardinality(A \cap B)
    BY <1>1, <1>3, FS_Union
  <2>2. Cardinality(A \cap B) = 0
    BY <1>5, FS_EmptySet
  <2> QED
    BY <1>1, <1>3, <2>1, <2>2
<1>7. Cardinality(A \cup B) = 2 ^ (n + 1)
  BY <1>4, Subsets
<1> QED
  BY <1>1, <1>6, <1>7

LEMMA HalfThenDivide ==
  ASSUME NEW k \in Nat, NEW p \in Nat \ {0}
  PROVE  k \div (2 * p) = (k \div 2) \div p
<1> DEFINE a == k \div 2
           q == a \div p
<1>1. a \in Nat /\ q \in Nat
  OBVIOUS
<1>2. 2 * a <= k /\ k <= 2 * a + 1
  OBVIOUS
<1>3. q * p <= a /\ a < q * p + p
  <2> HIDE DEF a
  <2> QED
    BY <1>1
<1>4. q * (2 * p) <= k /\ k < q * (2 * p) + 2 * p
  <2> HIDE DEF a, q
  <2>1. q * (2 * p) = 2 * (q * p)
    BY <1>1
  <2>2. q * p \in Nat
    BY <1>1
  <2> QED
    BY <1>1, <1>2, <1>3, <2>1, <2>2
<1> HIDE DEF a, q
<1>5. k \div (2 * p) = q
  BY <1>1, <1>4
<1> QED
  BY <1>5 DEF q, a

(* A number has the bits of its half, then its parity.                     *)
LEMMA BitAt ==
  ASSUME NEW n \in Nat, NEW k, NEW i \in 1..n
  PROVE  BitsOf(k, n)[i] = IF (k \div 2 ^ (n - i)) % 2 = 1 THEN 1 ELSE 0
BY DEF BitsOf

LEMMA BitAppended ==
  ASSUME NEW n \in Nat, NEW k \in Nat, NEW t \in {0, 1}
  PROVE  /\ \A i \in 1..n : BitsOf(2 * k + t, n + 1)[i] = BitsOf(k, n)[i]
         /\ BitsOf(2 * k + t, n + 1)[n + 1] = t
<1>1. ASSUME NEW i \in 1..n
      PROVE  BitsOf(2 * k + t, n + 1)[i] = BitsOf(k, n)[i]
  <2>1. n - i \in Nat /\ n + 1 - i = (n - i) + 1 /\ i \in 1..n + 1
    OBVIOUS
  <2>2. 2 ^ (n + 1 - i) = 2 * 2 ^ (n - i) /\ 2 ^ (n - i) \in Nat \ {0}
    BY <2>1, Doubling, Subsets
  <2>3. (2 * k + t) \div 2 = k /\ 2 * k + t \in Nat
    OBVIOUS
  <2>4. (2 * k + t) \div 2 ^ (n + 1 - i) = k \div 2 ^ (n - i)
    BY <2>2, <2>3, HalfThenDivide
  <2>5. BitsOf(k, n)[i] = IF (k \div 2 ^ (n - i)) % 2 = 1 THEN 1 ELSE 0
    BY BitAt
  <2>6. BitsOf(2 * k + t, n + 1)[i] =
          IF ((2 * k + t) \div 2 ^ (n + 1 - i)) % 2 = 1 THEN 1 ELSE 0
    <3>1. PICK x \in Nat, m \in Nat : x = 2 * k + t /\ m = n + 1
      BY <2>3
    <3>2. BitsOf(x, m)[i] = IF (x \div 2 ^ (m - i)) % 2 = 1 THEN 1 ELSE 0
      BY <2>1, <3>1, BitAt
    <3> QED
      BY <3>1, <3>2
  <2> QED
    BY <2>4, <2>5, <2>6
<1>2. BitsOf(2 * k + t, n + 1)[n + 1] = t
  <2>1. n + 1 - (n + 1) = 0 /\ n + 1 \in 1..n + 1
    OBVIOUS
  <2>2. ((2 * k + t) \div 1) % 2 = t
    OBVIOUS
  <2> QED
    BY <2>1, <2>2, OneIsAPower DEF BitsOf
<1> QED
  BY <1>1, <1>2

(* Every sequence of bits is the number of some row.                       *)
LEMMA EveryRowHasANumber ==
  ASSUME NEW n \in Nat, NEW b \in Bits(n)
  PROVE  \E k \in 0 .. 2 ^ n - 1 : BitsOf(k, n) = b
<1> DEFINE T == {m \in Nat : \A c \in Bits(m) : \E k \in 0 .. 2 ^ m - 1 : BitsOf(k, m) = c}
<1>1. 0 \in T
  <2>1. 0 \in 0 .. 2 ^ 0 - 1
    BY OneIsAPower
  <2>2. ASSUME NEW c \in Bits(0) PROVE BitsOf(0, 0) = c
    BY DEF Bits, BitsOf
  <2> QED
    BY <2>1, <2>2
<1>2. ASSUME NEW m \in Nat, m \in T PROVE m + 1 \in T
  <2> SUFFICES ASSUME NEW c \in Bits(m + 1)
               PROVE  \E k \in 0 .. 2 ^ (m + 1) - 1 : BitsOf(k, m + 1) = c
    OBVIOUS
  <2> DEFINE d == [i \in 1..m |-> c[i]]
             t == c[m + 1]
  <2>1. d \in Bits(m) /\ t \in {0, 1}
    BY DEF Bits
  <2>2. PICK k \in 0 .. 2 ^ m - 1 : BitsOf(k, m) = d
    BY <1>2, <2>1
  <2>3. 2 ^ m \in Nat /\ 2 ^ (m + 1) = 2 * 2 ^ m /\ k \in Nat
    BY Doubling, Subsets
  <2>4. 2 * k + t \in 0 .. 2 ^ (m + 1) - 1
    BY SMTT(20), <2>1, <2>2, <2>3
  <2>5. \A i \in 1..m + 1 : BitsOf(2 * k + t, m + 1)[i] = c[i]
    <3> HIDE DEF d, t
    <3>1. /\ \A i \in 1..m : BitsOf(2 * k + t, m + 1)[i] = d[i]
          /\ BitsOf(2 * k + t, m + 1)[m + 1] = t
      BY <2>1, <2>2, <2>3, BitAppended
    <3>2. (\A i \in 1..m : d[i] = c[i]) /\ t = c[m + 1]
      BY DEF d, t
    <3>3. \A i \in 1..m + 1 : i \in 1..m \/ i = m + 1
      OBVIOUS
    <3> QED
      BY <3>1, <3>2, <3>3
  <2>6. BitsOf(2 * k + t, m + 1) = c
    <3>1. BitsOf(2 * k + t, m + 1) \in Bits(m + 1)
      BY DEF BitsOf, Bits
    <3> QED
      BY <2>5, <3>1 DEF Bits
  <2> QED
    BY <2>4, <2>6
<1>3. Nat \subseteq T
  <2> HIDE DEF T
  <2> QED
    BY <1>1, <1>2, NoSmallestMissing
<1> QED
  BY <1>3

-----------------------------------------------------------------------------
(* The target buffer.                                                      *)

(* The ways of a set are filled in order: until all are valid, the valid   *)
(* ones are those below the replacement pointer.                           *)
FilledInOrder ==
  \A s \in Sets :
    \/ \A w \in Ways : btb_tag[s][w].valid
    \/ \A w \in Ways : btb_tag[s][w].valid <=> w < allocate_ptr[s]

TagsTypeOK ==
  /\ btb_tag \in [Sets -> [Ways -> [tag : Nat, valid : BOOLEAN]]]
  /\ allocate_ptr \in [Sets -> Ways]

BufferShape == TagsTypeOK /\ OneEntryPerWord /\ FilledInOrder

LEMMA Remainder ==
  ASSUME NEW a \in Nat, NEW b \in Nat \ {0}
  PROVE  a % b \in 0 .. b - 1
  OBVIOUS

LEMMA Quotient ==
  ASSUME NEW a \in Nat, NEW b \in Nat \ {0}
  PROVE  a \div b \in Nat
  OBVIOUS

(* Every address belongs to a set and has a tag.                           *)
LEMMA Addressing ==
  ASSUME NEW pc \in Nat
  PROVE  btb_index(pc) \in Sets /\ btb_tag_value(pc) \in Nat
<1>1. pc \div 4 \in Nat
  BY Quotient
<1>2. (pc \div 4) % BTB_SETS \in 0 .. BTB_SETS - 1
  BY <1>1, Remainder, SizeAssumption
<1>3. (pc \div 4) \div BTB_SETS \in Nat
  BY <1>1, Quotient, SizeAssumption
<1> QED
  BY <1>2, <1>3 DEF btb_index, btb_tag_value, Sets

(* Training an address keeps the invariant.                                *)
LEMMA TrainingKeepsShape ==
  ASSUME BufferShape, NEW pc \in Nat, NEW target, NEW ci, NEW instr16,
         TrainBuffer(pc, target, ci, instr16)
  PROVE  /\ btb_tag' \in [Sets -> [Ways -> [tag : Nat, valid : BOOLEAN]]]
         /\ allocate_ptr' \in [Sets -> Ways]
         /\ OneEntryPerWord' /\ FilledInOrder'
         /\ \A s \in Sets : \A w \in Ways :
              btb_tag[s][w].valid /\ btb_tag'[s][w] # btb_tag[s][w] =>
                \A v \in Ways : btb_tag[s][v].valid
<1> DEFINE s == btb_index(pc)
           p == allocate_ptr[s]
           n == [tag |-> btb_tag_value(pc), valid |-> TRUE]
<1>1. s \in Sets /\ btb_tag_value(pc) \in Nat
  BY Addressing
<1>2. p \in Ways
  BY <1>1 DEF BufferShape, TagsTypeOK
<1>3. CASE BufferHit(pc)
  BY <1>3 DEF TrainBuffer, BufferShape, TagsTypeOK, OneEntryPerWord, FilledInOrder
<1>4. CASE ~BufferHit(pc)
  <2>1. /\ btb_tag' = [btb_tag EXCEPT ![s][p] = n]
        /\ allocate_ptr' = [allocate_ptr EXCEPT ![s] = (p + 1) % BTB_WAYS]
    BY <1>4 DEF TrainBuffer
  <2>2. (p + 1) % BTB_WAYS = IF p = BTB_WAYS - 1 THEN 0 ELSE p + 1
    <3>1. CASE p = BTB_WAYS - 1
      BY <1>2, <3>1, SizeAssumption DEF Ways
    <3>2. CASE p # BTB_WAYS - 1
      BY <1>2, <3>2, SizeAssumption DEF Ways
    <3> QED
      BY <3>1, <3>2
  <2>3. (p + 1) % BTB_WAYS \in Ways
    BY <1>2, <2>2, SizeAssumption DEF Ways
  <2>4. \A w \in Ways : ~(btb_tag[s][w].valid /\ btb_tag[s][w].tag = btb_tag_value(pc))
    BY <1>4 DEF BufferHit, Matches
  <2>5. \A t \in Sets : \A w \in Ways :
          btb_tag'[t][w] = IF t = s /\ w = p THEN n ELSE btb_tag[t][w]
    BY <2>1, <1>1, <1>2 DEF BufferShape, TagsTypeOK
  <2>6. /\ btb_tag' \in [Sets -> [Ways -> [tag : Nat, valid : BOOLEAN]]]
        /\ allocate_ptr' \in [Sets -> Ways]
    BY <2>1, <1>1, <1>2, <2>3 DEF BufferShape, TagsTypeOK
  <2>7. OneEntryPerWord'
    <3> SUFFICES ASSUME NEW t \in Sets, NEW v \in Ways, NEW w \in Ways,
                        btb_tag'[t][v].valid, btb_tag'[t][w].valid,
                        btb_tag'[t][v].tag = btb_tag'[t][w].tag
                 PROVE  v = w
      BY DEF OneEntryPerWord
    <3> QED
      BY <2>4, <2>5 DEF BufferShape, OneEntryPerWord
  <2>8. FilledInOrder'
    <3> SUFFICES ASSUME NEW t \in Sets
                 PROVE  \/ \A w \in Ways : btb_tag'[t][w].valid
                        \/ \A w \in Ways : btb_tag'[t][w].valid <=> w < allocate_ptr'[t]
      BY DEF FilledInOrder
    <3>1. CASE t # s
      BY <3>1, <2>5, <2>1, <1>1 DEF BufferShape, TagsTypeOK, FilledInOrder
    <3>2. CASE t = s /\ \A w \in Ways : btb_tag[s][w].valid
      BY <3>2, <2>5
    <3>3. CASE t = s /\ \A w \in Ways : btb_tag[s][w].valid <=> w < p
      <4>1. \A w \in Ways : btb_tag'[t][w].valid <=> w <= p
        BY <3>3, <2>5, <1>2 DEF Ways
      <4>2. allocate_ptr'[t] = IF p = BTB_WAYS - 1 THEN 0 ELSE p + 1
        BY <3>3, <2>1, <2>2 DEF BufferShape, TagsTypeOK
      <4> QED
        BY <4>1, <4>2, <1>2, SizeAssumption DEF Ways
    <3> QED
      BY <3>1, <3>2, <3>3, <1>1 DEF BufferShape, FilledInOrder
  <2>9. \A t \in Sets : \A w \in Ways :
          btb_tag[t][w].valid /\ btb_tag'[t][w] # btb_tag[t][w] =>
            \A v \in Ways : btb_tag[t][v].valid
    <3> SUFFICES ASSUME NEW t \in Sets, NEW w \in Ways,
                        btb_tag[t][w].valid, btb_tag'[t][w] # btb_tag[t][w]
                 PROVE  \A v \in Ways : btb_tag[t][v].valid
      OBVIOUS
    <3>1. t = s /\ w = p
      BY <2>5
    <3>2. ~(p < p)
      BY <1>2 DEF Ways
    <3> QED
      BY <3>1, <3>2 DEF BufferShape, FilledInOrder
  <2> QED
    BY <2>6, <2>7, <2>8, <2>9
<1> QED
  BY <1>3, <1>4

LEMMA HalfOfWord == ASSUME NEW pc \in Nat PROVE hi_val(pc) \in {0, 1}
<1>1. pc \div 2 \in Nat
  BY Quotient
<1> QED
  BY <1>1 DEF hi_val

LEMMA IndexAndTag ==
  ASSUME NEW a \in Nat, NEW b \in Nat,
         btb_index(a) = btb_index(b), btb_tag_value(a) = btb_tag_value(b)
  PROVE  a \div 4 = b \div 4
<1>1. a \div 4 \in Nat /\ b \div 4 \in Nat
  BY Quotient
<1>2. ASSUME NEW x \in Nat, NEW y \in Nat, x % BTB_SETS = y % BTB_SETS,
             x \div BTB_SETS = y \div BTB_SETS
      PROVE  x = y
  BY <1>2, SizeAssumption
<1> QED
  BY <1>1, <1>2 DEF btb_index, btb_tag_value

(* The way that hits is the one that has the tag.                          *)
LEMMA HitWayMatches ==
  ASSUME TagsTypeOK, OneEntryPerWord, NEW pc \in Nat, BufferHit(pc)
  PROVE  /\ HitWay(pc) \in Ways
         /\ btb_tag[btb_index(pc)][HitWay(pc)].valid
         /\ btb_tag[btb_index(pc)][HitWay(pc)].tag = btb_tag_value(pc)
<1>1. PICK w \in Matches(pc) : TRUE
  BY DEF BufferHit
<1>2. \A v \in Matches(pc) : v = w
  BY <1>1, Addressing DEF Matches, OneEntryPerWord
<1>3. w \in Nat
  BY <1>1 DEF Matches, Ways
<1>4. \E x \in Matches(pc) : \A v \in Matches(pc) : x <= v
  BY <1>1, <1>2, <1>3
<1>5. HitWay(pc) \in Matches(pc)
  BY <1>4 DEF HitWay
<1> QED
  BY <1>5 DEF Matches

LEMMA HitEntryTypes ==
  ASSUME BufferTypeOK, OneEntryPerWord, NEW pc \in Nat, BufferHit(pc)
  PROVE  HitEntry(pc) \in Entry
<1>1. HitWay(pc) \in Ways /\ btb_index(pc) \in Sets
  BY Addressing, HitWayMatches DEF BufferTypeOK, TagsTypeOK
<1> QED
  BY <1>1 DEF HitEntry, BufferTypeOK

LEMMA StackPops ==
  ASSUME NEW S, NEW q \in Seq(S), q # <<>>
  PROVE  /\ Front(q) \in Seq(S) /\ Len(Front(q)) = Len(q) - 1
         /\ \A i \in 1..Len(q) - 1 : Front(q)[i] = q[i]
BY DEF Front

LEMMA StackTypes ==
  ASSUME BufferTypeOK, NEW e \in Entry, NEW pc \in Nat
  PROVE  StackAfter(e, pc, FALSE) \in Seq(Nat) /\ Len(StackAfter(e, pc, FALSE)) <= RAS_DEPTH
<1>1. ras \in Seq(Nat) /\ Len(ras) <= RAS_DEPTH /\ Len(ras) \in Nat /\ RAS_DEPTH \in Nat
  BY SizeAssumption DEF BufferTypeOK
<1>2. pc + ras_push_offset(e, FALSE) \in Nat
  BY DEF ras_push_offset
<1>3. ASSUME Len(ras) < RAS_DEPTH, NEW a \in Nat
      PROVE  Append(ras, a) \in Seq(Nat) /\ Len(Append(ras, a)) <= RAS_DEPTH
  BY <1>1, <1>3, AppendProperties
<1>4. ASSUME ras # <<>>
      PROVE  Front(ras) \in Seq(Nat) /\ Len(Front(ras)) <= RAS_DEPTH
  <2>1. Front(ras) \in Seq(Nat) /\ Len(Front(ras)) = Len(ras) - 1
    BY <1>1, <1>4, StackPops
  <2>2. Len(ras) - 1 <= RAS_DEPTH
    BY <1>1
  <2> QED
    BY <2>1, <2>2
<1>5. \/ /\ Len(ras) < RAS_DEPTH
         /\ StackAfter(e, pc, FALSE) = Append(ras, pc + ras_push_offset(e, FALSE))
      \/ ras # <<>> /\ StackAfter(e, pc, FALSE) = Front(ras)
      \/ StackAfter(e, pc, FALSE) = ras
  BY DEF StackAfter
<1> QED
  BY <1>1, <1>2, <1>3, <1>4, <1>5, Zenon

(* Training writes one entry, of one way, and nothing else.                *)
LEMMA TrainWrites ==
  ASSUME BufferTypeOK, BufferShape, NEW pc \in Nat, NEW target \in Int,
         NEW ci \in ControlTypes, NEW instr16 \in BOOLEAN,
         TrainBuffer(pc, target, ci, instr16)
  PROVE  /\ btb_entry' \in [Sets -> [Ways -> Entry]]
         /\ \E w \in Ways :
              /\ btb_entry'[btb_index(pc)][w] = [target |-> target, ci |-> ci,
                                                 instr16 |-> instr16, hi |-> hi_val(pc)]
              /\ btb_tag'[btb_index(pc)][w].valid
              /\ btb_tag'[btb_index(pc)][w].tag = btb_tag_value(pc)
              /\ \A t \in Sets : \A v \in Ways : t # btb_index(pc) \/ v # w =>
                   btb_entry'[t][v] = btb_entry[t][v] /\ btb_tag'[t][v] = btb_tag[t][v]
<1> DEFINE s == btb_index(pc)
           w == IF BufferHit(pc) THEN HitWay(pc) ELSE allocate_ptr[s]
           n == [target |-> target, ci |-> ci, instr16 |-> instr16, hi |-> hi_val(pc)]
           m == [tag |-> btb_tag_value(pc), valid |-> TRUE]
<1>1. s \in Sets /\ w \in Ways /\ n \in Entry /\ m \in [tag : Nat, valid : BOOLEAN]
  <2>1. s \in Sets /\ btb_tag_value(pc) \in Nat
    BY Addressing
  <2>2. w \in Ways
    BY <2>1, HitWayMatches DEF BufferShape, TagsTypeOK
  <2>3. n \in Entry
    BY HalfOfWord DEF Entry
  <2> QED
    BY <2>1, <2>2, <2>3
<1>2. btb_entry' = [btb_entry EXCEPT ![s][w] = n]
  BY DEF TrainBuffer
<1>3. /\ btb_entry' \in [Sets -> [Ways -> Entry]]
      /\ \A t \in Sets : \A v \in Ways :
           btb_entry'[t][v] = IF t = s /\ v = w THEN n ELSE btb_entry[t][v]
  <2> HIDE DEF s, w, n
  <2> QED
    BY <1>1, <1>2 DEF BufferTypeOK
<1>4. \A t \in Sets : \A v \in Ways :
        IF t = s /\ v = w THEN btb_tag'[t][v].valid /\ btb_tag'[t][v].tag = btb_tag_value(pc)
                          ELSE btb_tag'[t][v] = btb_tag[t][v]
  <2>1. CASE BufferHit(pc)
    BY <2>1, HitWayMatches DEF TrainBuffer, BufferShape
  <2>2. CASE ~BufferHit(pc)
    <3>1. btb_tag' = [btb_tag EXCEPT ![s][w] = m]
      BY <2>2 DEF TrainBuffer
    <3>2. \A t \in Sets : \A v \in Ways :
            btb_tag'[t][v] = IF t = s /\ v = w THEN m ELSE btb_tag[t][v]
      <4> HIDE DEF s, w, m
      <4> QED
        BY <1>1, <3>1 DEF BufferShape, TagsTypeOK
    <3> QED
      BY <3>2
  <2> QED
    BY <2>1, <2>2
<1> HIDE DEF w, n
<1> QED
  BY <1>1, <1>3, <1>4 DEF n
=============================================================================
