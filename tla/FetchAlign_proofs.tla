------------------------- MODULE FetchAlign_proofs -------------------------
(***************************************************************************)
(* FetchAlign hands on the instructions of the predicted path whole and in *)
(* order, whatever the code, the predictions and the depth of the buffer   *)
(* between the stages: it implements FetchStream.  A hit stays with its    *)
(* instruction.  For the faults a second invariant says which instruction  *)
(* the mark of a second half can meet.                                     *)
(*                                                                         *)
(* The words in flight that are still wanted are the last ones of the      *)
(* buffer, and each was fetched where the word before it leads.  What is   *)
(* lost is the redirection that waited when a word was fetched; the        *)
(* invariant says that there are such redirections that explain every      *)
(* fetch, and that they agree with the half which stage1 keeps.            *)
(***************************************************************************)
EXTENDS FetchAlign, TLAPS

Address == Half \cup {NoPC}

(* Where fetch goes after word x if redirection d was waiting for it, and  *)
(* which redirection then waits.                                           *)
NextPC(x, d) ==
  IF d # NoPC THEN d
  ELSE IF x.btb.taken /\ ~Edgecase(x.btb) THEN x.btb.target ELSE plus(x.address, 2)
NextDelayed(x, d) ==
  IF d = NoPC /\ x.btb.taken /\ Edgecase(x.btb) THEN x.btb.target ELSE NoPC

(* The address of the i-th word of the buffer, or of the next fetch.       *)
Entry(i) == IF i <= Len(pipe0) THEN Enters(pipe0[i]) ELSE rg_pc

(* From word f on the buffer holds the path; del[i] is the redirection     *)
(* that waited when word i was fetched.                                    *)
Chain(f, del) ==
  /\ Live = f .. Len(pipe0)
  /\ del[Len(pipe0) + 1] = rg_delayed_redirect
  /\ \A i \in f .. Len(pipe0) :
       /\ pipe0[i].btb \in Responses(Enters(pipe0[i]))
       /\ Entry(i + 1) = NextPC(pipe0[i], del[i])
       /\ del[i + 1] = NextDelayed(pipe0[i], del[i])

(* Upper half h is kept and the words from e on follow, d waiting: it is   *)
(* an instruction of the code and the hit of its word is its own.          *)
HeldLeadsTo(half, b, e, d) ==
  /\ half.at \in Start /\ half.at % 2 = 1
  /\ half.long = Long[half.at] /\ ~half.bad
  /\ b.of # NoPC /\ b.hi => b.of = half.at
  /\ b.taken => b.hi /\ b.of = half.at /\ b.target \in Targets[half.at]
  /\ IF b.taken /\ ~half.long
     THEN e = b.target /\ d = NoPC
     ELSE /\ e = plus(half.at, 1)
          /\ d = IF b.taken THEN b.target ELSE NoPC

(* The path goes on at e.                                                  *)
Cursor(e, d) ==
  IF HeldIsCurrent THEN HeldLeadsTo(rg_prev.half, rg_prev.btb, e, d)
  ELSE e \in Start /\ d = NoPC

PathInv ==
  \E f \in 1 .. Len(pipe0) + 1 :
  \E del \in [1 .. Len(pipe0) + 1 -> Address] :
    /\ Chain(f, del)
    /\ ~spoiled => Cursor(Entry(f), del[f])
    /\ HeldIsCurrent => f = 1

(* What may still redirect decides which epochs can be around: a redirect  *)
(* leaves nothing in fetch that could be taken for the new path.           *)
EpochInv ==
  /\ inflight = "current" => /\ \A i \in DOMAIN pipe0 : pipe0[i].ep = epochs
                             /\ rg_prev.ep = epochs
  /\ inflight = "older"   => /\ \A i \in DOMAIN pipe0 : pipe0[i].ep[2] = epochs[2]
                             /\ rg_prev.ep[2] = epochs[2]

LocalInv ==
  /\ HeldIsCurrent => rg_receiving_upper
  /\ rg_fence => rg_delayed_redirect = NoPC

IInv == TypeOK /\ EpochInv /\ LocalInv /\ PathInv /\ HitIsOwn

-----------------------------------------------------------------------------
(* Addresses: a word is an even half and the odd half behind it.           *)

LEMMA PlusOne ==
  \A h \in Half : plus(h, 1) = IF h + 1 = HALVES THEN 0 ELSE h + 1
BY CodeAssumption DEF plus, Half

LEMMA PlusTwo ==
  \A h \in Half : plus(h, 2) = IF h + 2 >= HALVES THEN h + 2 - HALVES ELSE h + 2
BY CodeAssumption DEF plus, Half

LEMMA Halves ==
  ASSUME NEW h \in Half
  PROVE  /\ plus(h, 1) \in Half /\ plus(h, 2) \in Half
         /\ plus(plus(h, 1), 1) = plus(h, 2)
         /\ plus(h, 1) # h
         /\ h % 2 = 0 => plus(h, 1) = h + 1 /\ plus(h, 1) % 2 = 1 /\ plus(h, 2) % 2 = 0
         /\ h % 2 = 1 => plus(h, 1) % 2 = 0
<1> USE DEF Half
<1> DEFINE p == plus(h, 1)
           q == plus(h, 2)
<1>1. /\ HALVES \in Nat /\ HALVES % 2 = 0
      /\ h \in Nat /\ h < HALVES
  BY CodeAssumption
<1>2. p = IF h + 1 = HALVES THEN 0 ELSE h + 1
  BY PlusOne
<1>3. q = IF h + 2 >= HALVES THEN h + 2 - HALVES ELSE h + 2
  BY PlusTwo
<1> HIDE DEF p, q
<1>4. p \in Half /\ q \in Half /\ p # h
  BY <1>1, <1>2, <1>3
<1>5. plus(p, 1) = IF p + 1 = HALVES THEN 0 ELSE p + 1
  BY <1>4, PlusOne
<1>6. plus(p, 1) = q
  BY <1>1, <1>2, <1>3, <1>5
<1>7. h % 2 = 0 => p = h + 1 /\ p % 2 = 1 /\ q % 2 = 0
  BY <1>1, <1>2, <1>3
<1>8. h % 2 = 1 => p % 2 = 0
  BY <1>1, <1>2
<1> QED
  BY <1>4, <1>6, <1>7, <1>8 DEF p, q

LEMMA WordHalves ==
  ASSUME NEW h \in Half
  PROVE  /\ WordOf(h) \in Words
         /\ WordOf(h) + (IF h % 2 = 1 THEN 1 ELSE 0) = h
         /\ h % 2 = 0 => WordOf(h) = h
         /\ h % 2 = 1 => plus(WordOf(h), 1) = h /\ plus(WordOf(h), 2) = plus(h, 1)
<1>1. WordOf(h) \in Half /\ WordOf(h) % 2 = 0
  BY CodeAssumption DEF WordOf, Half
<1>2. h % 2 \in {0, 1}
  BY CodeAssumption DEF Half
<1>3. h % 2 = 1 => h = WordOf(h) + 1
  BY CodeAssumption DEF WordOf, Half
<1>4. h % 2 = 0 => h = WordOf(h)
  BY CodeAssumption DEF WordOf, Half
<1>5. h % 2 = 1 => plus(WordOf(h), 1) = h
  BY <1>1, <1>3, Halves
<1>6. plus(plus(WordOf(h), 1), 1) = plus(WordOf(h), 2)
  BY <1>1, Halves
<1> QED
  BY <1>1, <1>2, <1>3, <1>4, <1>5, <1>6 DEF Words, Half

(* What the predictor may say of a word that the path enters at pc.        *)
LEMMA ResponseFacts ==
  ASSUME NEW pc \in Half, NEW b \in Responses(pc)
  PROVE  /\ b \in BTB
         /\ b.taken => /\ b.of \in Half /\ b.of >= pc /\ WordOf(b.of) = WordOf(pc)
                       /\ b.target \in Targets[b.of] /\ b.target \in Start
         /\ b.of # NoPC => /\ b.of \in Half /\ WordOf(b.of) = WordOf(pc)
                           /\ Targets[b.of] # {} /\ b.of \in Start
                           /\ b.hi <=> b.of % 2 = 1
                           /\ b.instr16 <=> ~Long[b.of]
         /\ b.of = NoPC => ~b.taken /\ ~b.hi
         /\ b.taken => b.of # NoPC
<1>1. CASE b = NoHit
  BY <1>1, CodeAssumption DEF NoHit, BTB, NoPC, Half
<1>2. CASE b # NoHit
  <2>1. /\ b.of \in Half /\ WordOf(b.of) = WordOf(pc) /\ Targets[b.of] # {}
        /\ b.hi = (b.of % 2 = 1) /\ b.instr16 = ~Long[b.of]
        /\ b.target \in Targets[b.of] /\ b.target \in Start
        /\ IF b.of < pc THEN ~b.taken ELSE b.of \in Jumps => b.taken
        /\ b \in [of : Half, hi : BOOLEAN, instr16 : BOOLEAN, taken : BOOLEAN, target : Half]
    BY <1>2, CodeAssumption DEF Responses
  <2>2. b.of \in Start
    BY <2>1, CodeAssumption
  <2>3. b.of # NoPC
    BY <2>1, CodeAssumption DEF NoPC, Half
  <2>4. b \in BTB
    BY <2>1 DEF BTB
  <2>5. b.taken => b.of >= pc
    BY <2>1, CodeAssumption DEF Half
  <2> QED
    BY <2>1, <2>2, <2>3, <2>4, <2>5
<1> QED
  BY <1>1, <1>2

LEMMA HeadFacts ==
  ASSUME TypeOK, pipe0 # <<>>
  PROVE  /\ x0 = pipe0[1] /\ x0 \in Word /\ Len(pipe0) \in Nat \ {0}
         /\ x0.address \in Half /\ x0.address % 2 = 0
<1>1. x0 = pipe0[1] /\ x0 \in Word /\ Len(pipe0) \in Nat \ {0}
  BY DEF TypeOK, x0
<1> QED
  BY <1>1 DEF Word, Words

(* What the I-cache answers for the word at the head.                      *)
LEMMA AnswerFacts ==
  ASSUME TypeOK, pipe0 # <<>>, NEW w \in Answers
  PROVE  /\ w.trap \in BOOLEAN
         /\ w.lo \in HalfWord /\ w.lo.at = x0.address /\ (w.lo.bad <=> w.trap)
         /\ w.hi \in HalfWord /\ w.hi.at = plus(x0.address, 1) /\ (w.hi.bad <=> w.trap)
         /\ ~w.trap => w.lo.long = Long[w.lo.at] /\ w.hi.long = Long[w.hi.at]
<1>1. x0 \in Word /\ x0.address \in Half
  BY HeadFacts
<1>2. plus(x0.address, 1) \in Half
  BY <1>1, Halves
<1> HIDE DEF x0
<1>3. Long[x0.address] \in BOOLEAN /\ Long[plus(x0.address, 1)] \in BOOLEAN
  BY <1>1, <1>2, CodeAssumption
<1>4. CASE w = [trap |-> FALSE,
                lo |-> [at |-> x0.address, long |-> Long[x0.address], bad |-> FALSE],
                hi |-> [at |-> plus(x0.address, 1), long |-> Long[plus(x0.address, 1)],
                        bad |-> FALSE]]
  BY <1>1, <1>2, <1>3, <1>4 DEF HalfWord
<1>5. CASE \E l, h \in BOOLEAN :
             w = [trap |-> TRUE, lo |-> [at |-> x0.address, long |-> l, bad |-> TRUE],
                  hi |-> [at |-> plus(x0.address, 1), long |-> h, bad |-> TRUE]]
  BY <1>1, <1>2, <1>5 DEF HalfWord
<1> QED
  BY <1>4, <1>5 DEF Answers

-----------------------------------------------------------------------------
(* The buffer: what fetching, taking a word and redirecting do to a chain. *)

LEMMA EntersHalf ==
  ASSUME NEW x \in Word
  PROVE  /\ Enters(x) \in Half /\ x.address \in Half /\ x.address % 2 = 0
         /\ x.discard => Enters(x) = plus(x.address, 1)
         /\ ~x.discard => Enters(x) = x.address
         /\ WordOf(Enters(x)) = x.address
         /\ x.ep \in Epoch /\ x.btb \in BTB
<1>1. x.address \in Half /\ x.address % 2 = 0 /\ x.discard \in BOOLEAN
  BY DEF Word, Words
<1>2. plus(x.address, 1) = x.address + 1 /\ plus(x.address, 1) \in Half
  BY <1>1, Halves
<1>3. x.ep \in Epoch /\ x.btb \in BTB
  BY DEF Word
<1>4. /\ x.discard => Enters(x) = plus(x.address, 1)
      /\ ~x.discard => Enters(x) = x.address
      /\ Enters(x) \in Half
  BY <1>1, <1>2, CodeAssumption DEF Enters, Half
<1>5. WordOf(x.address) = x.address /\ WordOf(x.address + 1) = x.address
  BY <1>1, CodeAssumption DEF WordOf, Half
<1> QED
  BY <1>1, <1>2, <1>3, <1>4, <1>5

LEMMA ChainDeq ==
  ASSUME TypeOK, pipe0 # <<>>, Deq, UNCHANGED <<stage0Vars, epochs>>,
         NEW f \in 1 .. Len(pipe0) + 1, NEW g \in 1 .. Len(pipe0),
         f = g + 1 \/ (f = 1 /\ g = 1),
         NEW del \in [1 .. Len(pipe0) + 1 -> Address], Chain(f, del)
  PROVE  \E s \in [1 .. Len(pipe0') + 1 -> Address] :
            /\ Chain(g, s)'
            /\ s[g] = del[g + 1]
            /\ Entry(g)' = Entry(g + 1)
            /\ g \in 1 .. Len(pipe0') + 1
<1> DEFINE n == Len(pipe0)
<1>1. /\ pipe0 \in Seq(Word) /\ n \in Nat \ {0}
      /\ pipe0' = Tail(pipe0) /\ Len(pipe0') = n - 1
      /\ \A i \in 1 .. n - 1 : pipe0'[i] = pipe0[i + 1]
  BY DEF TypeOK, Deq
<1>2. /\ rg_pc' = rg_pc /\ epochs' = epochs
      /\ rg_delayed_redirect' = rg_delayed_redirect
  BY DEF stage0Vars
<1> HIDE DEF n
<1>3. PICK s \in [1 .. n -> Address] : \A i \in 1 .. n : s[i] = del[i + 1]
  <2> DEFINE t == [i \in 1 .. n |-> del[i + 1]]
  <2>1. t \in [1 .. n -> Address]
    BY <1>1 DEF n
  <2> QED
    BY <2>1
<1>4. \A i \in 1 .. n : Entry(i)' = Entry(i + 1)
  BY <1>1, <1>2 DEF Entry, Enters, n
<1>5. Live' = g .. n - 1
  <2>1. \A i \in 1 .. n - 1 : i \in Live' <=> i + 1 \in Live
    BY <1>1, <1>2 DEF Live, n
  <2>2. Live' \subseteq 1 .. n - 1
    BY <1>1 DEF Live
  <2>3. Live = f .. n
    BY DEF Chain, n
  <2>4. ASSUME NEW i PROVE i \in Live' <=> i \in g .. n - 1
    <3>1. CASE i \in 1 .. n - 1
      BY <1>1, <2>1, <2>3, <3>1
    <3>2. CASE i \notin 1 .. n - 1
      <4>1. g .. n - 1 \subseteq 1 .. n - 1
        BY <1>1
      <4> QED
        BY <2>2, <3>2, <4>1
    <3> QED
      BY <3>1, <3>2
  <2> QED
    BY <2>4
<1>6. s[n] = rg_delayed_redirect'
  BY <1>1, <1>2, <1>3 DEF Chain, n
<1>7. ASSUME NEW i \in g .. n - 1
      PROVE  /\ pipe0'[i].btb \in Responses(Enters(pipe0'[i]))
             /\ Entry(i + 1)' = NextPC(pipe0'[i], s[i])
             /\ s[i + 1] = NextDelayed(pipe0'[i], s[i])
  <2>1. /\ pipe0'[i] = pipe0[i + 1] /\ i + 1 \in f .. n
        /\ s[i] = del[i + 1] /\ s[i + 1] = del[i + 1 + 1]
        /\ Entry(i + 1)' = Entry(i + 1 + 1)
    BY <1>1, <1>3, <1>4
  <2> QED
    BY <2>1 DEF Chain, n
<1>8. Chain(g, s)'
  BY <1>1, <1>5, <1>6, <1>7 DEF Chain
<1> QED
  BY <1>1, <1>3, <1>4, <1>8 DEF n

LEMMA ChainFetch ==
  ASSUME TypeOK, FetchNext,
         NEW f \in 1 .. Len(pipe0) + 1,
         NEW del \in [1 .. Len(pipe0) + 1 -> Address], Chain(f, del)
  PROVE  \E s \in [1 .. Len(pipe0') + 1 -> Address] :
            /\ Chain(f, s)'
            /\ s[f] = del[f]
            /\ Entry(f)' = Entry(f)
            /\ f \in 1 .. Len(pipe0') + 1
<1> DEFINE n == Len(pipe0)
<1>1. PICK b \in Responses(rg_pc) :
        LET x == [address |-> WordOf(rg_pc), discard |-> rg_pc % 2 = 1,
                  ep |-> epochs, btb |-> b]
        IN /\ pipe0' = Append(pipe0, x)
           /\ rg_pc' = NextPC(x, rg_delayed_redirect)
           /\ rg_delayed_redirect' = NextDelayed(x, rg_delayed_redirect)
  BY DEF FetchNext, NextPC, NextDelayed
<1> DEFINE x == [address |-> WordOf(rg_pc), discard |-> rg_pc % 2 = 1,
                 ep |-> epochs, btb |-> b]
<1>2. rg_pc \in Half /\ x \in Word /\ Enters(x) = rg_pc
  <2>1. rg_pc \in Half
    BY DEF TypeOK
  <2>2. b \in BTB /\ WordOf(rg_pc) \in Words /\ epochs \in Epoch
    BY <2>1, ResponseFacts, WordHalves DEF TypeOK
  <2>3. Enters(x) = rg_pc
    BY <2>1, WordHalves DEF Enters
  <2> QED
    BY <2>1, <2>2, <2>3 DEF Word
<1>3. /\ x.btb \in Responses(rg_pc) /\ x.ep = epochs
      /\ rg_pc' = NextPC(x, rg_delayed_redirect)
      /\ rg_delayed_redirect' = NextDelayed(x, rg_delayed_redirect)
      /\ pipe0' = Append(pipe0, x)
      /\ epochs' = epochs
  BY <1>1 DEF FetchNext
<1> HIDE DEF x
<1>4. /\ pipe0 \in Seq(Word) /\ n \in Nat /\ Len(pipe0') = n + 1
      /\ \A i \in 1 .. n : pipe0'[i] = pipe0[i]
      /\ pipe0'[n + 1] = x
  BY <1>2, <1>3 DEF TypeOK
<1> HIDE DEF n
<1>5. NextDelayed(x, rg_delayed_redirect) \in Address
  BY <1>2, CodeAssumption DEF NextDelayed, Word, BTB, Address, NoPC
<1>6. PICK s \in [1 .. n + 2 -> Address] :
        /\ \A i \in 1 .. n + 1 : s[i] = del[i]
        /\ s[n + 2] = rg_delayed_redirect'
  <2> DEFINE t == [i \in 1 .. n + 2 |-> IF i <= n + 1 THEN del[i] ELSE rg_delayed_redirect']
  <2>1. t \in [1 .. n + 2 -> Address]
    BY <1>3, <1>4, <1>5 DEF n
  <2>2. \A i \in 1 .. n + 1 : t[i] = del[i]
    BY <1>4
  <2>3. t[n + 2] = rg_delayed_redirect'
    BY <1>4
  <2> HIDE DEF t
  <2> QED
    BY <2>1, <2>2, <2>3
<1>7. /\ \A i \in 1 .. n + 1 : Entry(i)' = Entry(i)
      /\ Entry(n + 1) = rg_pc
      /\ \A i \in {n + 2} : Entry(i)' = rg_pc'
  BY <1>2, <1>4 DEF Entry, Enters, n
<1>8. Live' = f .. n + 1
  <2>1. /\ \A i \in 1 .. n : i \in Live' <=> i \in Live
        /\ n + 1 \in Live'
        /\ Live' \subseteq 1 .. n + 1
    BY <1>3, <1>4 DEF Live, n
  <2>2. Live = f .. n
    BY DEF Chain, n
  <2>3. ASSUME NEW i PROVE i \in Live' <=> i \in f .. n + 1
    <3>1. f \in Nat /\ f <= n + 1 /\ f >= 1
      BY <1>4 DEF n
    <3>2. CASE i \in 1 .. n
      BY <1>4, <2>1, <2>2, <3>1, <3>2
    <3>3. CASE i = n + 1
      BY <1>4, <2>1, <3>1, <3>3
    <3>4. CASE i \notin 1 .. n + 1
      <4>1. f .. n + 1 \subseteq 1 .. n + 1
        BY <1>4, <3>1
      <4> QED
        BY <2>1, <3>4, <4>1
    <3> QED
      BY <1>4, <3>2, <3>3, <3>4
  <2> QED
    BY <2>3
<1>9. ASSUME NEW i \in f .. n + 1
      PROVE  /\ pipe0'[i].btb \in Responses(Enters(pipe0'[i]))
             /\ Entry(i + 1)' = NextPC(pipe0'[i], s[i])
             /\ s[i + 1] = NextDelayed(pipe0'[i], s[i])
  <2>1. CASE i \in f .. n
    <3>1. /\ pipe0'[i] = pipe0[i] /\ s[i] = del[i] /\ s[i + 1] = del[i + 1]
          /\ Entry(i + 1)' = Entry(i + 1)
      BY <1>4, <1>6, <1>7, <2>1
    <3> QED
      BY <2>1, <3>1 DEF Chain, n
  <2>2. CASE i = n + 1
    <3>1. s[n + 1] = rg_delayed_redirect
      BY <1>4, <1>6 DEF Chain, n
    <3>2. pipe0'[i] = x /\ s[i] = rg_delayed_redirect /\ i + 1 = n + 2
      BY <1>4, <2>2, <3>1
    <3>3. Entry(i + 1)' = rg_pc' /\ s[i + 1] = rg_delayed_redirect'
      BY <1>6, <1>7, <3>2
    <3> QED
      BY <1>2, <1>3, <3>2, <3>3
  <2> QED
    BY <1>4, <2>1, <2>2 DEF n
<1>10. Chain(f, s)'
  BY <1>4, <1>6, <1>8, <1>9 DEF Chain
<1> QED
  BY <1>4, <1>6, <1>7, <1>10 DEF n

LEMMA ChainRedirect ==
  ASSUME TypeOK, pipe0' = pipe0, rg_delayed_redirect' = NoPC,
         \A i \in DOMAIN pipe0 : pipe0[i].ep # epochs'
  PROVE  \E f \in 1 .. Len(pipe0') + 1 :
         \E s \in [1 .. Len(pipe0') + 1 -> Address] :
            /\ Chain(f, s)'
            /\ s[f] = NoPC
            /\ Entry(f)' = rg_pc'
<1>1. PICK n \in Nat : n = Len(pipe0)
  BY DEF TypeOK
<1>2. PICK s \in [1 .. n + 1 -> Address] : s[n + 1] = NoPC
  <2> DEFINE t == [i \in 1 .. n + 1 |-> NoPC]
  <2>1. t \in [1 .. n + 1 -> Address] /\ t[n + 1] = NoPC
    BY DEF Address
  <2> QED
    BY <2>1
<1>3. Live' = {}
  BY DEF Live
<1>4. Chain(n + 1, s)'
  BY <1>1, <1>2, <1>3 DEF Chain
<1>5. Entry(n + 1)' = rg_pc'
  BY <1>1 DEF Entry
<1> QED
  BY <1>1, <1>2, <1>4, <1>5

(* Only words of older paths are before the first word of the path.        *)
LEMMA CurrentIsFirst ==
  ASSUME TypeOK, NEW f \in 1 .. Len(pipe0) + 1, NEW del, Chain(f, del)
  PROVE  /\ Current <=> pipe0 # <<>> /\ f = 1
         /\ f = 1 => \A i \in DOMAIN pipe0 : pipe0[i].ep = epochs
         /\ (\A i \in DOMAIN pipe0 : pipe0[i].ep # epochs) => f = Len(pipe0) + 1
<1>1. Live = f .. Len(pipe0) /\ DOMAIN pipe0 = 1 .. Len(pipe0) /\ Len(pipe0) \in Nat
  BY DEF Chain, TypeOK
<1>2. ASSUME pipe0 # <<>> PROVE x0 = pipe0[1] /\ 1 \in DOMAIN pipe0
  BY <1>1, <1>2, HeadFacts
<1>3. /\ \A i : i \in f .. Len(pipe0) <=> i \in DOMAIN pipe0 /\ pipe0[i].ep = epochs
      /\ f \in 1 .. Len(pipe0) + 1
  BY <1>1 DEF Live
<1>4. Current <=> pipe0 # <<>> /\ f = 1
  <2>1. CASE pipe0 = <<>>
    BY <2>1 DEF Current
  <2>2. CASE pipe0 # <<>>
    BY <1>1, <1>2, <1>3, <2>2 DEF Current
  <2> QED
    BY <2>1, <2>2
<1>5. f = 1 => \A i \in DOMAIN pipe0 : pipe0[i].ep = epochs
  BY <1>1, <1>3
<1>6. ASSUME \A i \in DOMAIN pipe0 : pipe0[i].ep # epochs
      PROVE  f = Len(pipe0) + 1
  <2>1. f \notin f .. Len(pipe0)
    BY <1>3, <1>6
  <2> QED
    BY <1>1, <1>3, <2>1
<1> QED
  BY <1>4, <1>5, <1>6

-----------------------------------------------------------------------------
(* One word: where the path goes behind its halves.                        *)

(* The half whose hit it is; none before the half where the path enters.   *)
LEMMA HitHalf ==
  ASSUME NEW x \in Word, x.btb \in Responses(Enters(x))
  PROVE  /\ x.btb.of # NoPC => /\ x.btb.of \in Start
                               /\ ~x.btb.hi => x.btb.of = x.address
                               /\ x.btb.hi => x.btb.of = plus(x.address, 1)
         /\ x.btb.taken => x.btb.of # NoPC
         /\ x.btb.taken /\ x.discard => x.btb.of = Enters(x)
<1> DEFINE b == x.btb
<1>1. /\ x.address \in Half /\ Enters(x) \in Half /\ WordOf(Enters(x)) = x.address
      /\ plus(x.address, 1) = x.address + 1
      /\ x.discard => Enters(x) = x.address + 1
  BY EntersHalf, Halves
<1>2. /\ b.of # NoPC => b.of \in Half /\ WordOf(b.of) = x.address /\ b.of \in Start
                        /\ (b.hi <=> b.of % 2 = 1)
      /\ b.taken => b.of # NoPC /\ b.of >= Enters(x)
  BY <1>1, ResponseFacts
<1>3. b.of \in Half => b.of % 2 \in {0, 1}
  BY CodeAssumption DEF Half
<1>4. /\ b.of # NoPC /\ ~b.hi => b.of = x.address
      /\ b.of # NoPC /\ b.hi => b.of = plus(x.address, 1)
  BY <1>2, <1>3, WordHalves
<1>5. b.taken /\ x.discard => b.of = Enters(x)
  BY <1>1, <1>2, <1>4, CodeAssumption DEF Half
<1> QED
  BY <1>2, <1>4, <1>5

(* A hit for the word of an upper half h that is not of its lower half is  *)
(* what leads on from h.                                                   *)
LEMMA UpperLeadsTo ==
  ASSUME NEW x \in Word, NEW h \in Start, h = plus(x.address, 1),
         x.btb \in Responses(Enters(x)), x.btb.taken => x.btb.of = h
  PROVE  HeldLeadsTo([at |-> h, long |-> Long[h], bad |-> FALSE], x.btb,
                     NextPC(x, NoPC), NextDelayed(x, NoPC))
<1> DEFINE b == x.btb
<1>1. /\ h \in Half /\ h % 2 = 1 /\ x.address \in Half
      /\ plus(x.address, 2) = plus(h, 1) /\ Enters(x) \in Half
  BY EntersHalf, Halves, CodeAssumption
<1>2. WordOf(Enters(x)) = x.address
  BY EntersHalf
<1>3. /\ b.of # NoPC => /\ b.of \in Half /\ WordOf(b.of) = x.address
                        /\ b.hi <=> b.of % 2 = 1
                        /\ b.instr16 <=> ~Long[b.of]
      /\ b.taken => b.of # NoPC /\ b.target \in Targets[b.of] /\ b.target \in Start
  BY <1>1, <1>2, ResponseFacts
<1>4. b.of # NoPC /\ b.hi => b.of = h
  BY <1>3, WordHalves
<1>5. b.taken => b.hi /\ (b.instr16 <=> ~Long[h])
  BY <1>1, <1>3
<1> QED
  BY <1>1, <1>3, <1>4, <1>5 DEF HeldLeadsTo, NextPC, NextDelayed, Edgecase

(* A short upper half goes where its own hit says, or to the next word.    *)
LEMMA ShortLeadsTo ==
  ASSUME NEW half \in HalfWord, NEW b \in BTB, NEW e, NEW d,
         HeldLeadsTo(half, b, e, d), ~half.long
  PROVE  LET c == Cleared(b, ~b.hi)
         IN /\ e \in Start /\ d = NoPC
            /\ e \in IF c.taken THEN Targets[half.at] ELSE {plus(half.at, 1)}
            /\ c.of # NoPC => c.of = half.at
<1>1. half.at \in Start /\ ~Long[half.at]
  BY DEF HeldLeadsTo
<1>2. plus(half.at, 1) \in Start /\ Targets[half.at] \subseteq Start
  BY <1>1, CodeAssumption DEF Size
<1> QED
  BY <1>1, <1>2 DEF HeldLeadsTo, Cleared, BTB

(* A 32-bit instruction that fills its word.                               *)
LEMMA WordLeadsTo ==
  ASSUME NEW x \in Word, ~x.discard, Enters(x) \in Start, Long[x.address],
         x.btb \in Responses(Enters(x))
  PROVE  /\ NextPC(x, NoPC) \in Start /\ NextDelayed(x, NoPC) = NoPC
         /\ NextPC(x, NoPC) \in IF x.btb.taken THEN Targets[x.address]
                                ELSE {plus(x.address, 2)}
         /\ x.btb.of # NoPC => x.btb.of = x.address
<1> DEFINE b == x.btb
           h == x.address
<1>1. Enters(x) = h /\ h \in Half /\ h % 2 = 0 /\ h \in Start
  BY EntersHalf
<1>2. WordOf(h) = h
  BY <1>1, WordHalves
<1>3. plus(h, 1) \notin Start /\ plus(h, 2) \in Start /\ Targets[h] \subseteq Start
  BY <1>1, CodeAssumption DEF Size
<1>4. /\ b.of # NoPC => b.of \in Half /\ WordOf(b.of) = h /\ b.of \in Start
                        /\ (b.hi <=> b.of % 2 = 1)
      /\ b.taken => b.of # NoPC /\ b.target \in Targets[b.of]
  BY <1>1, <1>2, ResponseFacts
<1>5. b.of # NoPC => b.of = h
  <2>1. b.of \in Half => b.of % 2 \in {0, 1}
    BY CodeAssumption DEF Half
  <2> QED
    BY <1>3, <1>4, <2>1, WordHalves
<1>6. b.taken => ~b.hi
  BY <1>1, <1>4, <1>5
<1> QED
  BY <1>1, <1>3, <1>4, <1>5, <1>6 DEF NextPC, NextDelayed, Edgecase

(* A short lower half that the hit leaves from, or from which the path     *)
(* goes on to the upper half.                                              *)
LEMMA LowerLeadsTo ==
  ASSUME NEW x \in Word, ~x.discard, Enters(x) \in Start, ~Long[x.address],
         x.btb \in Responses(Enters(x))
  PROVE  LET b == x.btb
             c == Cleared(b, b.hi)
         IN /\ plus(x.address, 1) \in Start
            /\ c.of # NoPC => c.of = x.address
            /\ c.taken <=> ~b.hi /\ b.taken
            /\ c.taken => /\ NextPC(x, NoPC) \in Targets[x.address]
                          /\ NextPC(x, NoPC) \in Start
                          /\ NextDelayed(x, NoPC) = NoPC
            /\ ~c.taken /\ b.taken => b.of = plus(x.address, 1)
<1> DEFINE b == x.btb
           h == x.address
<1>1. Enters(x) = h /\ h \in Half /\ h % 2 = 0 /\ h \in Start /\ b \in BTB
  BY EntersHalf
<1>2. WordOf(h) = h
  BY <1>1, WordHalves
<1>3. plus(h, 1) \in Start /\ Targets[h] \subseteq Start
  BY <1>1, CodeAssumption DEF Size
<1>4. /\ b.of # NoPC => b.of \in Half /\ WordOf(b.of) = h
                        /\ (b.hi <=> b.of % 2 = 1)
      /\ b.taken => b.of # NoPC /\ b.target \in Targets[b.of]
      /\ b.of = NoPC => ~b.hi
  BY <1>1, <1>2, ResponseFacts
<1>5. /\ b.of # NoPC /\ ~b.hi => b.of = h
      /\ b.of # NoPC /\ b.hi => b.of = plus(h, 1)
  <2>1. b.of \in Half => b.of % 2 \in {0, 1}
    BY CodeAssumption DEF Half
  <2> QED
    BY <1>4, <2>1, WordHalves
<1>6. LET c == Cleared(b, b.hi) IN (c.taken <=> ~b.hi /\ b.taken)
                                   /\ c.of = IF b.hi THEN NoPC ELSE b.of
  BY <1>1 DEF Cleared, BTB
<1> QED
  BY <1>1, <1>3, <1>4, <1>5, <1>6 DEF NextPC, NextDelayed, Edgecase

-----------------------------------------------------------------------------
(* Types, epochs and the flags of stage1.                                  *)

LEMMA InitInv == Init => IInv
<1> SUFFICES ASSUME Init PROVE IInv
  OBVIOUS
<1>1. NoHit \in BTB /\ <<0, 0>> \in Epoch /\ 0 \in Words /\ 1 \in Half
  <2>1. HALVES \in Nat /\ HALVES >= 2
    <3>1. PICK h \in Start : h \in Half
      BY CodeAssumption
    <3>2. HALVES \in Nat /\ HALVES % 2 = 0 /\ HALVES # 0
      BY <3>1, CodeAssumption DEF Half
    <3> QED
      BY <3>2
  <2>2. NoHit \in BTB
    BY DEF NoHit, BTB
  <2> QED
    BY <2>1, <2>2 DEF Epoch, Words, Half
<1>2. rg_prev \in [pc : Words, ep : Epoch, btb : BTB, half : HalfWord]
  BY <1>1 DEF Init, HalfWord
<1>3. TypeOK
  <2>1. sent.kind = "redirect"
    BY DEF Init
  <2>2. rg_pc \in Half /\ pipe0 \in Seq(Word) /\ Len(pipe0) <= D01
    BY CodeAssumption, DepthAssumption DEF Init
  <2> QED
    BY <1>1, <1>2, <2>1, <2>2 DEF Init, TypeOK
<1>4. EpochInv /\ LocalInv /\ HitIsOwn /\ ~HeldIsCurrent
  BY DEF Init, EpochInv, LocalInv, HitIsOwn, Handed, HeldIsCurrent
<1>5. PathInv
  <2> DEFINE del == [i \in 1 .. 1 |-> NoPC]
  <2>1. del \in [1 .. 1 -> Address] /\ del[1] = NoPC
    BY DEF Address
  <2>2. Chain(1, del)
    BY <2>1 DEF Init, Chain, Live
  <2>3. Cursor(Entry(1), del[1])
    BY <1>4, <2>1 DEF Init, Cursor, Entry
  <2>4. Len(pipe0) = 0
    BY DEF Init
  <2> HIDE DEF del
  <2> QED
    BY <1>4, <2>1, <2>2, <2>3, <2>4 DEF PathInv
<1> QED
  BY <1>3, <1>4, <1>5 DEF IInv

LEMMA DeqType ==
  ASSUME TypeOK, pipe0 # <<>>, Deq
  PROVE  pipe0' \in Seq(Word) /\ Len(pipe0') <= D01
BY DepthAssumption DEF TypeOK, Deq

LEMMA HoldType ==
  ASSUME TypeOK, pipe0 # <<>>, NEW w \in Answers, NEW b \in BTB, Hold(w.hi, b)
  PROVE  rg_prev' \in [pc : Words, ep : Epoch, btb : BTB, half : HalfWord]
BY HeadFacts, AnswerFacts DEF Hold, TypeOK, Word

LEMMA SendType ==
  ASSUME TypeOK, NEW halves, NEW b, NEW w, NEW trap, Send(halves, b, w, trap)
  PROVE  /\ sent'.kind \in {"instr", "redirect"}
         /\ inflight' \in {"current", "older", "none"}
         /\ trapped' = (trapped \/ trap)
BY DEF Send

LEMMA Stage1Type ==
  ASSUME TypeOK, Stage1
  PROVE  TypeOK'
<1>1. UNCHANGED <<rg_pc, rg_delayed_redirect, rg_fence, epochs>>
  BY DEF Stage1, HandOn, DropWord, HoldUpper, PassHeld, JoinHalves, PassUpper,
         PassWord, PassLower, Unchanged0, stage0Vars
<1>2. pipe0 # <<>>
  BY DEF Stage1, HandOn, DropWord, HoldUpper, PassHeld, JoinHalves, PassUpper,
         PassWord, PassLower, EntersUpper, EntersLower, Current
<1>3. x0.btb \in BTB
  BY <1>2, HeadFacts DEF Word
<1>4. pipe0' \in Seq(Word) /\ Len(pipe0') <= D01
  <2>1. CASE UNCHANGED pipe0
    BY <2>1 DEF TypeOK
  <2>2. CASE Deq
    BY <1>2, <2>2, DeqType
  <2> QED
    BY <2>1, <2>2 DEF Stage1, HandOn, DropWord, HoldUpper, PassHeld, JoinHalves, PassUpper,
           PassWord, PassLower
<1>5. /\ rg_prev' \in [pc : Words, ep : Epoch, btb : BTB, half : HalfWord]
      /\ rg_action' \in {"CheckPrev", "None"}
      /\ rg_receiving_upper' \in BOOLEAN
      /\ sent'.kind \in {"instr", "redirect"}
      /\ spoiled' \in BOOLEAN /\ trapped' \in BOOLEAN
      /\ inflight' \in {"current", "older", "none"}
  <2>1. CASE DropWord
    BY <2>1 DEF DropWord, TypeOK
  <2>2. CASE HoldUpper
    <3>1. PICK w \in Answers : Hold(w.hi, x0.btb) /\ spoiled' = (spoiled \/ w.trap)
      BY <2>2 DEF HoldUpper
    <3> QED
      BY <1>2, <1>3, <2>2, <3>1, HoldType, AnswerFacts DEF HoldUpper, TypeOK
  <2>3. CASE PassHeld
    BY <2>3, SendType DEF PassHeld, TypeOK
  <2>4. CASE JoinHalves
    <3>1. PICK w \in Answers :
            /\ Send(<<rg_prev.half, w.lo>>, Cleared(rg_prev.btb, ~rg_prev.btb.hi), w, w.trap)
            /\ Hold(w.hi, x0.btb)
            /\ rg_action' = IF Cleared(rg_prev.btb, ~rg_prev.btb.hi).taken THEN "None"
                            ELSE rg_action
            /\ rg_receiving_upper' = ~Cleared(rg_prev.btb, ~rg_prev.btb.hi).taken
            /\ spoiled' = (spoiled \/ w.trap)
      BY <2>4 DEF JoinHalves
    <3> QED
      BY <1>2, <1>3, <3>1, HoldType, SendType DEF TypeOK
  <2>5. CASE PassUpper
    <3>1. rg_prev' \in [pc : Words, ep : Epoch, btb : BTB, half : HalfWord]
      BY <2>5 DEF PassUpper, TypeOK
    <3> QED
      BY <2>5, <3>1, SendType DEF PassUpper, TypeOK
  <2>6. CASE PassWord
    <3>1. rg_prev' \in [pc : Words, ep : Epoch, btb : BTB, half : HalfWord]
      BY <2>6 DEF PassWord, TypeOK
    <3> QED
      BY <2>6, <3>1, SendType DEF PassWord, TypeOK
  <2>7. CASE PassLower
    <3>1. PICK w \in Answers :
            /\ Send(<<w.lo>>, Cleared(x0.btb, x0.btb.hi), w, w.trap)
            /\ Hold(w.hi, x0.btb)
            /\ rg_action' = IF ~x0.btb.hi /\ x0.btb.taken THEN "None" ELSE "CheckPrev"
            /\ rg_receiving_upper' = ~(~x0.btb.hi /\ x0.btb.taken)
            /\ spoiled' = (spoiled \/ w.trap)
      BY <2>7 DEF PassLower
    <3> QED
      BY <1>2, <1>3, <3>1, HoldType, SendType DEF TypeOK
  <2> QED
    BY <2>1, <2>2, <2>3, <2>4, <2>5, <2>6, <2>7 DEF Stage1, HandOn
<1> QED
  BY <1>1, <1>4, <1>5 DEF TypeOK

LEMMA TypeStep ==
  ASSUME TypeOK, [Next]_vars
  PROVE  TypeOK'
<1>1. CASE FetchNext
  <2>1. PICK b \in Responses(rg_pc) :
          /\ pipe0' = Append(pipe0, [address |-> WordOf(rg_pc), discard |-> rg_pc % 2 = 1,
                                     ep |-> epochs, btb |-> b])
          /\ rg_pc' = IF rg_delayed_redirect # NoPC THEN rg_delayed_redirect
                      ELSE IF b.taken /\ ~Edgecase(b) THEN b.target
                      ELSE plus(WordOf(rg_pc), 2)
          /\ rg_delayed_redirect' =
               IF rg_delayed_redirect = NoPC /\ b.taken /\ Edgecase(b) THEN b.target ELSE NoPC
    BY <1>1 DEF FetchNext
  <2>2. /\ rg_pc \in Half /\ b \in BTB /\ WordOf(rg_pc) \in Words
        /\ b.taken => b.target \in Half
        /\ plus(WordOf(rg_pc), 2) \in Half
    <3>1. rg_pc \in Half
      BY DEF TypeOK
    <3>2. WordOf(rg_pc) \in Half
      BY <3>1, WordHalves DEF Words
    <3> QED
      BY <3>1, <3>2, ResponseFacts, WordHalves, Halves, CodeAssumption
  <2>3. rg_pc' \in Half /\ rg_delayed_redirect' \in Half \cup {NoPC}
    BY <2>1, <2>2 DEF TypeOK
  <2>4. pipe0' \in Seq(Word) /\ Len(pipe0') <= D01
    <3>1. [address |-> WordOf(rg_pc), discard |-> rg_pc % 2 = 1,
           ep |-> epochs, btb |-> b] \in Word
      BY <2>2 DEF Word, TypeOK
    <3> QED
      BY <1>1, <2>1, <3>1, DepthAssumption DEF TypeOK, FetchNext
  <2> QED
    BY <1>1, <2>3, <2>4 DEF FetchNext, TypeOK
<1>2. CASE FetchFence
  BY <1>2 DEF FetchFence, TypeOK
<1>3. CASE Stage1
  BY <1>3, Stage1Type
<1>4. CASE ExeRedirect
  <2>1. epochs' \in Epoch
    BY <1>4 DEF ExeRedirect, Redirect, TypeOK, Epoch
  <2>2. rg_pc' \in Half /\ sent'.kind = "redirect"
    BY <1>4, CodeAssumption DEF ExeRedirect, Redirect
  <2>3. /\ rg_delayed_redirect' = NoPC /\ rg_fence' \in BOOLEAN
        /\ spoiled' = FALSE /\ trapped' = FALSE
        /\ inflight' \in {"older", "none"}
        /\ UNCHANGED <<pipe0, rg_action, rg_prev, rg_receiving_upper>>
    BY <1>4 DEF ExeRedirect, Redirect
  <2> QED
    BY <2>1, <2>2, <2>3 DEF TypeOK
<1>5. CASE WriteBackRedirect
  <2>1. epochs' \in Epoch
    BY <1>5 DEF WriteBackRedirect, Redirect, TypeOK, Epoch
  <2>2. rg_pc' \in Half /\ sent'.kind = "redirect"
    BY <1>5, CodeAssumption DEF WriteBackRedirect, Redirect
  <2>3. /\ rg_delayed_redirect' = NoPC /\ rg_fence' \in BOOLEAN
        /\ spoiled' = FALSE /\ trapped' = FALSE
        /\ inflight' \in {"older", "none"}
        /\ UNCHANGED <<pipe0, rg_action, rg_prev, rg_receiving_upper>>
    BY <1>5 DEF WriteBackRedirect, Redirect
  <2> QED
    BY <2>1, <2>2, <2>3 DEF TypeOK
<1>6. CASE UNCHANGED vars
  BY <1>6 DEF vars, stage0Vars, TypeOK
<1> QED
  BY <1>1, <1>2, <1>3, <1>4, <1>5, <1>6 DEF Next, Stage0

LEMMA LocalStep ==
  ASSUME TypeOK, EpochInv, LocalInv, [Next]_vars
  PROVE  LocalInv'
<1>1. CASE FetchNext \/ FetchFence
  BY <1>1 DEF FetchNext, FetchFence, LocalInv, HeldIsCurrent
<1>2. CASE Stage1
  <2>1. UNCHANGED <<rg_fence, rg_delayed_redirect, epochs>>
    BY <1>2 DEF Stage1, HandOn, DropWord, HoldUpper, PassHeld, JoinHalves, PassUpper,
           PassWord, PassLower, Unchanged0, stage0Vars
  <2>2. HeldIsCurrent' => rg_receiving_upper'
    <3>1. CASE DropWord \/ HoldUpper \/ PassHeld \/ PassUpper \/ PassWord
      BY <3>1 DEF DropWord, HoldUpper, PassHeld, PassUpper, PassWord, HeldIsCurrent
    <3>2. CASE JoinHalves
      BY <3>2 DEF JoinHalves, HeldIsCurrent
    <3>3. CASE PassLower
      BY <3>3 DEF PassLower, HeldIsCurrent
    <3> QED
      BY <1>2, <3>1, <3>2, <3>3 DEF Stage1, HandOn
  <2> QED
    BY <2>1, <2>2 DEF LocalInv
<1>3. CASE ExeRedirect
  <2>1. rg_prev.ep = epochs /\ epochs \in Epoch /\ epochs' # epochs
    BY <1>3 DEF ExeRedirect, Redirect, EpochInv, TypeOK, Epoch
  <2> QED
    BY <1>3, <2>1 DEF ExeRedirect, Redirect, LocalInv, HeldIsCurrent
<1>4. CASE WriteBackRedirect
  <2>1. rg_prev.ep[2] = epochs[2] /\ epochs' = <<epochs[1], 1 - epochs[2]>>
    BY <1>4 DEF WriteBackRedirect, Redirect, EpochInv, TypeOK
  <2>2. rg_prev.ep # epochs'
    BY <2>1 DEF TypeOK, Epoch
  <2> QED
    BY <1>4, <2>2 DEF WriteBackRedirect, Redirect, LocalInv, HeldIsCurrent
<1>5. CASE UNCHANGED vars
  BY <1>5 DEF vars, stage0Vars, LocalInv, HeldIsCurrent
<1> QED
  BY <1>1, <1>2, <1>3, <1>4, <1>5 DEF Next, Stage0

-----------------------------------------------------------------------------
(* The epochs: what may redirect is of the path that is fetched, or no     *)
(* word of that path is in flight.                                         *)

LEMMA EpochStep ==
  ASSUME TypeOK, EpochInv, PathInv, [Next]_vars
  PROVE  EpochInv'
<1>1. pipe0 \in Seq(Word) /\ DOMAIN pipe0 = 1 .. Len(pipe0) /\ Len(pipe0) \in Nat
  BY DEF TypeOK
<1>2. PICK f \in 1 .. Len(pipe0) + 1 :
      \E del \in [1 .. Len(pipe0) + 1 -> Address] :
        Chain(f, del) /\ (HeldIsCurrent => f = 1)
  BY DEF PathInv
<1>3. /\ Current <=> pipe0 # <<>> /\ f = 1
      /\ f = 1 => \A i \in DOMAIN pipe0 : pipe0[i].ep = epochs
  BY <1>2, CurrentIsFirst
<1>4. ASSUME Deq, pipe0 # <<>>
      PROVE  /\ DOMAIN pipe0' = 1 .. Len(pipe0) - 1
             /\ \A i \in DOMAIN pipe0' : pipe0'[i] = pipe0[i + 1] /\ i + 1 \in DOMAIN pipe0
  <2>1. /\ Len(pipe0') = Len(pipe0) - 1 /\ DOMAIN pipe0' = 1 .. Len(pipe0')
        /\ \A i \in 1 .. Len(pipe0) - 1 : pipe0'[i] = pipe0[i + 1]
    BY <1>1, <1>4 DEF Deq
  <2> QED
    BY <1>1, <2>1
<1>5. CASE FetchNext
  <2>1. PICK x : x.ep = epochs /\ pipe0' = Append(pipe0, x)
    BY <1>5 DEF FetchNext
  <2>2. \A i \in DOMAIN pipe0' :
          (i \in DOMAIN pipe0 /\ pipe0'[i] = pipe0[i]) \/ pipe0'[i] = x
    BY <1>1, <2>1
  <2>3. UNCHANGED <<epochs, inflight, rg_prev>>
    BY <1>5 DEF FetchNext
  <2> QED
    BY <2>1, <2>2, <2>3 DEF EpochInv
<1>6. CASE FetchFence
  BY <1>6 DEF FetchFence, EpochInv
<1>7. CASE DropWord
  BY <1>4, <1>7 DEF DropWord, EpochInv, Unchanged0
<1>8. CASE HoldUpper \/ HandOn
  <2>1. /\ epochs' = epochs /\ Current
        /\ pipe0' = pipe0 \/ Deq
        /\ rg_prev'.ep = epochs
    <3>1. CASE HoldUpper \/ JoinHalves \/ PassLower
      <4>1. \E half, b : Hold(half, b)
        BY <3>1, Zenon DEF HoldUpper, JoinHalves, PassLower
      <4>2. rg_prev'.ep = epochs
        BY <4>1 DEF Hold
      <4>3. epochs' = epochs /\ Current /\ Deq
        BY <3>1, Zenon DEF HoldUpper, JoinHalves, PassLower, EntersUpper, EntersLower, Unchanged0
      <4> QED
        BY <4>2, <4>3
    <3>2. CASE PassUpper \/ PassWord
      <4>1. /\ epochs' = epochs /\ Current /\ Deq
            /\ rg_prev' = [rg_prev EXCEPT !.ep = epochs]
        BY <3>2 DEF PassUpper, PassWord, EntersUpper, EntersLower, Unchanged0
      <4>2. rg_prev'.ep = epochs
        BY <4>1 DEF TypeOK
      <4> QED
        BY <4>1, <4>2
    <3>3. CASE PassHeld
      BY <3>3 DEF PassHeld, Unchanged0, HeldIsCurrent
    <3> QED
      BY <1>8, <3>1, <3>2, <3>3 DEF HandOn
  <2>2. pipe0 # <<>> /\ \A i \in DOMAIN pipe0 : pipe0[i].ep = epochs
    BY <1>3, <2>1
  <2>3. \A i \in DOMAIN pipe0' : pipe0'[i].ep = epochs
    BY <1>4, <2>1, <2>2
  <2> QED
    BY <2>1, <2>3 DEF EpochInv
<1>9. CASE ExeRedirect
  <2>1. /\ epochs' = <<1 - epochs[1], epochs[2]>> /\ inflight = "current"
        /\ inflight' = "older" /\ UNCHANGED <<pipe0, rg_prev>>
    BY <1>9 DEF ExeRedirect, Redirect
  <2> QED
    BY <2>1 DEF EpochInv
<1>10. CASE WriteBackRedirect
  BY <1>10 DEF WriteBackRedirect, EpochInv
<1>11. CASE UNCHANGED vars
  BY <1>11 DEF vars, EpochInv
<1> QED
  BY <1>5, <1>6, <1>7, <1>8, <1>9, <1>10, <1>11 DEF Next, Stage0, Stage1

(* No word of the path before has the epochs after a redirection.          *)
LEMMA RedirectDrops ==
  ASSUME TypeOK, EpochInv, ExeRedirect \/ WriteBackRedirect
  PROVE  /\ \A i \in DOMAIN pipe0 : pipe0[i].ep # epochs'
         /\ rg_prev.ep # epochs'
         /\ UNCHANGED <<pipe0, rg_action, rg_prev, rg_receiving_upper>>
         /\ rg_delayed_redirect' = NoPC /\ spoiled' = FALSE
         /\ rg_pc' \in Start
         /\ pipe0 # <<>>
         /\ sent' = [kind |-> "redirect", at |-> <<rg_pc'>>, taken |-> FALSE]
<1>1. CASE ExeRedirect
  <2>1. /\ epochs' = <<1 - epochs[1], epochs[2]>> /\ inflight = "current"
        /\ epochs' # epochs
    BY <1>1 DEF ExeRedirect, Redirect, TypeOK, Epoch
  <2> QED
    BY <1>1, <2>1 DEF EpochInv, ExeRedirect, Redirect
<1>2. CASE WriteBackRedirect
  <2>1. /\ epochs' = <<epochs[1], 1 - epochs[2]>> /\ epochs[2] \in {0, 1}
        /\ inflight \in {"current", "older"}
    BY <1>2 DEF WriteBackRedirect, Redirect, TypeOK, Epoch
  <2>2. /\ \A i \in DOMAIN pipe0 : pipe0[i].ep[2] = epochs[2]
        /\ rg_prev.ep[2] = epochs[2]
    BY <2>1 DEF EpochInv
  <2>3. epochs'[2] # epochs[2]
    BY <2>1
  <2> QED
    BY <1>2, <2>2, <2>3 DEF WriteBackRedirect, Redirect
<1> QED
  BY <1>1, <1>2

-----------------------------------------------------------------------------
(* The path: where it continues before and after a step.                   *)

ContinuesFrom(e) ==
  IF spoiled THEN NoPC ELSE IF HeldIsCurrent THEN rg_prev.half.at ELSE e

LEMMA ContinuesAt ==
  \A f \in Nat : \A del :
    TypeOK /\ f \in 1 .. Len(pipe0) + 1 /\ Chain(f, del) => Continues = ContinuesFrom(Entry(f))
<1> SUFFICES ASSUME NEW f \in Nat, NEW del, TypeOK, f \in 1 .. Len(pipe0) + 1, Chain(f, del)
             PROVE  Continues = ContinuesFrom(Entry(f))
  OBVIOUS
<1>1. Len(pipe0) \in Nat /\ Live = f .. Len(pipe0) /\ spoiled \in BOOLEAN
  BY DEF TypeOK, Chain
<1>2. CASE spoiled \/ HeldIsCurrent
  BY <1>1, <1>2 DEF Continues, ContinuesFrom
<1>3. CASE ~spoiled /\ ~HeldIsCurrent
  <2>1. Continues = IF Live = {} THEN rg_pc
                    ELSE Enters(pipe0[CHOOSE i \in Live : \A j \in Live : i <= j])
    BY <1>3 DEF Continues
  <2>2. CASE Live = {}
    <3>1. f = Len(pipe0) + 1
      BY <1>1, <2>2
    <3> QED
      BY <1>1, <1>3, <2>1, <2>2, <3>1 DEF ContinuesFrom, Entry
  <2>3. CASE Live # {}
    <3>1. f \in Live /\ f <= Len(pipe0) /\ \A i \in Live : i >= f /\ i \in Nat
      BY <1>1, <2>3
    <3>2. \A i \in Live : (\A j \in Live : i <= j) <=> i = f
      BY <3>1
    <3>3. (CHOOSE i \in Live : \A j \in Live : i <= j) = f
      BY <3>1, <3>2
    <3> QED
      BY <1>3, <2>1, <2>3, <3>1, <3>3 DEF ContinuesFrom, Entry
  <2> QED
    BY <2>2, <2>3
<1> QED
  BY <1>1, <1>2, <1>3

LEMMA ContinuesAtNext ==
  \A f \in Nat : \A del :
    TypeOK' /\ f \in 1 .. Len(pipe0') + 1 /\ Chain(f, del)' =>
      Continues' = ContinuesFrom(Entry(f))'
<1>1. (\A f \in Nat : \A del :
         TypeOK /\ f \in 1 .. Len(pipe0) + 1 /\ Chain(f, del) =>
           Continues = ContinuesFrom(Entry(f)))'
  BY ContinuesAt, PTL
<1> QED
  BY <1>1

(* That the path goes on at e, redirection d waiting, after the step.      *)
CursorNext(e, d) ==
  spoiled' \/ IF HeldIsCurrent' THEN HeldLeadsTo(rg_prev'.half, rg_prev'.btb, e, d)
              ELSE e \in Start /\ d = NoPC

ContinuesNext(e) ==
  Continues' = IF spoiled' THEN NoPC ELSE IF HeldIsCurrent' THEN rg_prev'.half.at ELSE e

LEMMA PathNext ==
  ASSUME TypeOK', NEW f \in 1 .. Len(pipe0') + 1,
         NEW s \in [1 .. Len(pipe0') + 1 -> Address], Chain(f, s)',
         NEW e, e = Entry(f)', CursorNext(e, s[f]), HeldIsCurrent' => f = 1
  PROVE  PathInv' /\ ContinuesNext(e)
<1>1. f \in Nat /\ Len(pipe0') \in Nat
  BY DEF TypeOK
<1>2. Continues' = ContinuesFrom(Entry(f))'
  BY <1>1, ContinuesAtNext
<1>3. ContinuesNext(e)
  BY <1>2 DEF ContinuesNext, ContinuesFrom
<1>4. (~spoiled => Cursor(Entry(f), s[f]))'
  BY DEF CursorNext, Cursor, HeldLeadsTo
<1>5. PathInv'
  BY <1>4 DEF PathInv
<1> QED
  BY <1>3, <1>5

(* A step that takes the word at the head.                                 *)
LEMMA TakeWord ==
  ASSUME TypeOK, TypeOK', PathInv, Current, Deq, UNCHANGED <<stage0Vars, epochs>>
  PROVE  \E d :
           /\ x0.btb \in Responses(Enters(x0))
           /\ ~spoiled => Cursor(Enters(x0), d)
           /\ Continues = ContinuesFrom(Enters(x0))
           /\ CursorNext(NextPC(x0, d), NextDelayed(x0, d))
                => PathInv' /\ ContinuesNext(NextPC(x0, d))
<1>1. PICK f \in 1 .. Len(pipe0) + 1, del \in [1 .. Len(pipe0) + 1 -> Address] :
        /\ Chain(f, del)
        /\ ~spoiled => Cursor(Entry(f), del[f])
        /\ HeldIsCurrent => f = 1
  BY DEF PathInv
<1>2. pipe0 # <<>> /\ f = 1
  BY <1>1, CurrentIsFirst DEF Current
<1>3. x0 = pipe0[1] /\ x0 \in Word /\ 1 <= Len(pipe0) /\ Len(pipe0) \in Nat
  BY <1>2, HeadFacts
<1>4. Entry(1) = Enters(x0)
  BY <1>3 DEF Entry
<1>5. /\ x0.btb \in Responses(Enters(x0))
      /\ Entry(2) = NextPC(x0, del[1]) /\ del[2] = NextDelayed(x0, del[1])
  BY <1>1, <1>2, <1>3 DEF Chain
<1>6. Continues = ContinuesFrom(Enters(x0))
  BY <1>1, <1>2, <1>3, <1>4, ContinuesAt
<1>7. PICK s \in [1 .. Len(pipe0') + 1 -> Address] :
        /\ Chain(1, s)' /\ s[1] = del[1 + 1] /\ Entry(1)' = Entry(1 + 1)
        /\ 1 \in 1 .. Len(pipe0') + 1
  BY <1>1, <1>2, <1>3, ChainDeq
<1>8. s[1] = NextDelayed(x0, del[1]) /\ Entry(1)' = NextPC(x0, del[1])
  BY <1>5, <1>7
<1>9. CursorNext(NextPC(x0, del[1]), NextDelayed(x0, del[1]))
        => PathInv' /\ ContinuesNext(NextPC(x0, del[1]))
  BY <1>7, <1>8, PathNext
<1> QED
  BY <1>1, <1>2, <1>4, <1>5, <1>6, <1>9

(* A step that leaves the words and stage0 alone.                          *)
LEMMA KeepWords ==
  ASSUME TypeOK, TypeOK', PathInv, UNCHANGED <<pipe0, rg_pc, rg_delayed_redirect, epochs>>,
         HeldIsCurrent' => HeldIsCurrent
  PROVE  \E e, d :
           /\ ~spoiled => Cursor(e, d)
           /\ Continues = ContinuesFrom(e)
           /\ CursorNext(e, d) => PathInv' /\ ContinuesNext(e)
<1>1. PICK f \in 1 .. Len(pipe0) + 1, del \in [1 .. Len(pipe0) + 1 -> Address] :
        /\ Chain(f, del)
        /\ ~spoiled => Cursor(Entry(f), del[f])
        /\ HeldIsCurrent => f = 1
  BY DEF PathInv
<1>2. f \in Nat
  BY DEF TypeOK
<1>3. Continues = ContinuesFrom(Entry(f))
  BY <1>1, <1>2, ContinuesAt
<1>4. Chain(f, del)' /\ Entry(f)' = Entry(f)
  BY <1>1 DEF Chain, Live, Entry
<1>5. CursorNext(Entry(f), del[f]) => PathInv' /\ ContinuesNext(Entry(f))
  BY <1>1, <1>4, PathNext
<1> QED
  BY <1>1, <1>3, <1>5

-----------------------------------------------------------------------------
(* What an instruction that is handed on shows.                            *)

LEMMA SendOne ==
  ASSUME TypeOK, NEW half \in HalfWord, NEW b \in BTB, NEW w, NEW trap \in BOOLEAN,
         Send(<<half>>, b, w, trap),
         ~spoiled => (~trap /\ b.of # NoPC => b.of = half.at)
  PROVE  /\ HitIsOwn'
         /\ sent'.kind = "instr" /\ sent'.at = <<half.at>> /\ (sent'.taken <=> b.taken)
<1>1. sent' = [kind |-> "instr", at |-> <<half.at>>, taken |-> b.taken, of |-> b.of,
               bad |-> <<half.bad>>, trap |-> trap,
               upper_err |-> rg_receiving_upper /\ w.trap,
               clean |-> ~spoiled, behind |-> trapped]
  <2>1. /\ [i \in DOMAIN <<half>> |-> <<half>>[i].at] = <<half.at>>
        /\ [i \in DOMAIN <<half>> |-> <<half>>[i].bad] = <<half.bad>>
    OBVIOUS
  <2> QED
    BY <2>1 DEF Send
<1>2. /\ sent'.kind = "instr" /\ sent'.at = <<half.at>> /\ sent'.bad = <<half.bad>>
      /\ sent'.of = b.of
      /\ sent'.taken <=> b.taken
      /\ sent'.trap <=> trap
      /\ sent'.clean <=> ~spoiled
  BY <1>1
<1>3. HitIsOwn'
  BY <1>2 DEF HitIsOwn, Handed
<1> QED
  BY <1>2, <1>3

LEMMA SendTwo ==
  ASSUME TypeOK, NEW p \in HalfWord, NEW q \in HalfWord, NEW b \in BTB, NEW w,
         w.trap \in BOOLEAN, Send(<<p, q>>, b, w, w.trap),
         ~spoiled => (~w.trap /\ b.of # NoPC => b.of = p.at)
  PROVE  /\ HitIsOwn'
         /\ sent'.kind = "instr" /\ sent'.at = <<p.at, q.at>> /\ (sent'.taken <=> b.taken)
<1>1. sent' = [kind |-> "instr", at |-> <<p.at, q.at>>, taken |-> b.taken, of |-> b.of,
               bad |-> <<p.bad, q.bad>>, trap |-> w.trap,
               upper_err |-> rg_receiving_upper /\ w.trap,
               clean |-> ~spoiled, behind |-> trapped]
  <2>1. /\ [i \in DOMAIN <<p, q>> |-> <<p, q>>[i].at] = <<p.at, q.at>>
        /\ [i \in DOMAIN <<p, q>> |-> <<p, q>>[i].bad] = <<p.bad, q.bad>>
    OBVIOUS
  <2> QED
    BY <2>1 DEF Send
<1>2. /\ sent'.kind = "instr" /\ sent'.at = <<p.at, q.at>> /\ sent'.bad = <<p.bad, q.bad>>
      /\ sent'.of = b.of
      /\ sent'.taken <=> b.taken
      /\ sent'.trap <=> w.trap
      /\ sent'.upper_err <=> rg_receiving_upper /\ w.trap
      /\ sent'.clean <=> ~spoiled
  BY <1>1
<1>3. HitIsOwn'
  BY <1>2 DEF HitIsOwn, Handed
<1> QED
  BY <1>2, <1>3

(* The steps of FetchStream.                                               *)
LEMMA StreamHandOn ==
  ASSUME NEW h \in Start, Continues = h, sent'.kind = "instr",
         sent'.at = IF Long[h] THEN <<h, plus(h, 1)>> ELSE <<h>>,
         Continues' \in IF sent'.taken THEN Targets[h] ELSE {plus(h, Size(h))}
  PROVE  Stream!Next
<1>1. h # NoPC
  BY CodeAssumption DEF NoPC, Half
<1>2. Len(sent'.at) = Size(h)
  BY DEF Size
<1>3. Stream!HandOn
  BY <1>1, <1>2 DEF Stream!HandOn, Stream!HalvesOf, Stream!plus, Stream!NoPC, plus, NoPC
<1> QED
  BY <1>3 DEF Stream!Next

LEMMA StreamFault ==
  ASSUME Continues' = NoPC,
         \/ sent' = sent
         \/ sent'.kind = "instr" /\ (Continues # NoPC => sent'.at[1] = Continues)
  PROVE  Stream!Next
<1>1. Stream!Fault
  BY DEF Stream!Fault, Stream!NoPC, NoPC
<1> QED
  BY <1>1 DEF Stream!Next

LEMMA StreamStays ==
  ASSUME Continues' = Continues, sent' = sent
  PROVE  UNCHANGED Stream!vars
BY DEF Stream!vars

-----------------------------------------------------------------------------
(* The rules of stage1, one after the other.                               *)

StepIsRight == PathInv' /\ HitIsOwn' /\ [Stream!Next]_(Stream!vars)

LEMMA ClearedType ==
  ASSUME NEW b \in BTB, NEW clear \in BOOLEAN
  PROVE  /\ Cleared(b, clear) \in BTB
         /\ Cleared(b, clear).taken <=> ~clear /\ b.taken
         /\ Cleared(b, clear).of = IF clear THEN NoPC ELSE b.of
BY DEF Cleared, BTB

(* Behind a word that faulted the path has no continuation.                *)
LEMMA FaultStep ==
  ASSUME PathInv', HitIsOwn', spoiled', NEW e, ContinuesNext(e),
         \/ sent' = sent
         \/ sent'.kind = "instr" /\ (Continues # NoPC => sent'.at[1] = Continues)
  PROVE  StepIsRight
<1>1. Continues' = NoPC
  BY DEF ContinuesNext
<1>2. Stream!Next
  BY <1>1, StreamFault
<1> QED
  BY <1>2 DEF StepIsRight

LEMMA PassHeldStep ==
  ASSUME TypeOK, TypeOK', PathInv, PassHeld
  PROVE  StepIsRight
<1> DEFINE half == rg_prev.half
           c == Cleared(rg_prev.btb, ~rg_prev.btb.hi)
<1>1. half \in HalfWord /\ rg_prev.btb \in BTB /\ spoiled \in BOOLEAN
  BY DEF TypeOK
<1>2. c \in BTB
  <2>1. rg_prev.btb.hi \in BOOLEAN
    BY <1>1 DEF BTB
  <2> QED
    BY <1>1, <2>1, ClearedType
<1>3. PICK w : Send(<<half>>, c, w, FALSE)
  BY DEF PassHeld
<1>4. /\ HeldIsCurrent /\ ~HeldIsCurrent' /\ ~half.long /\ spoiled' = spoiled
      /\ UNCHANGED <<pipe0, rg_pc, rg_delayed_redirect, epochs>>
  BY DEF PassHeld, HeldIsCurrent, Unchanged0, stage0Vars
<1>5. PICK e, d :
        /\ ~spoiled => Cursor(e, d)
        /\ Continues = ContinuesFrom(e)
        /\ CursorNext(e, d) => PathInv' /\ ContinuesNext(e)
  BY <1>4, KeepWords
<1>6. CASE spoiled
  <2>1. PathInv' /\ ContinuesNext(e) /\ Continues = NoPC
    BY <1>4, <1>5, <1>6 DEF CursorNext, ContinuesFrom
  <2>2. HitIsOwn' /\ sent'.kind = "instr"
    BY <1>1, <1>2, <1>3, <1>6, SendOne
  <2> QED
    BY <1>4, <1>6, <2>1, <2>2, FaultStep
<1>7. CASE ~spoiled
  <2>1. HeldLeadsTo(half, rg_prev.btb, e, d)
    BY <1>4, <1>5, <1>7 DEF Cursor
  <2>2. /\ e \in Start /\ d = NoPC
        /\ e \in IF c.taken THEN Targets[half.at] ELSE {plus(half.at, 1)}
        /\ c.of # NoPC => c.of = half.at
    BY <1>1, <1>4, <2>1, ShortLeadsTo
  <2>3. half.at \in Start /\ ~Long[half.at] /\ ~half.bad
    BY <1>4, <2>1 DEF HeldLeadsTo
  <2>4. PathInv' /\ Continues' = e /\ Continues = half.at
    BY <1>4, <1>5, <1>7, <2>2 DEF CursorNext, ContinuesNext, ContinuesFrom
  <2>5. /\ HitIsOwn'
        /\ sent'.kind = "instr" /\ sent'.at = <<half.at>> /\ (sent'.taken <=> c.taken)
    <3> HIDE DEF c, half
    <3> QED
      BY <1>1, <1>2, <1>3, <2>2, <2>3, SendOne
  <2>6. Stream!Next
    <3>1. Continues' \in IF sent'.taken THEN Targets[half.at]
                         ELSE {plus(half.at, Size(half.at))}
      BY <2>2, <2>3, <2>4, <2>5 DEF Size
    <3> QED
      BY <2>3, <2>4, <2>5, <3>1, StreamHandOn
  <2> QED
    BY <2>4, <2>5, <2>6 DEF StepIsRight
<1> QED
  BY <1>6, <1>7

LEMMA HoldUpperStep ==
  ASSUME TypeOK, TypeOK', PathInv, HitIsOwn, HoldUpper
  PROVE  StepIsRight
<1>1. PICK w \in Answers : w.hi.long /\ Hold(w.hi, x0.btb) /\ spoiled' = (spoiled \/ w.trap)
  BY DEF HoldUpper
<1>2. /\ Current /\ ~HeldIsCurrent /\ x0.discard /\ Deq /\ sent' = sent
      /\ UNCHANGED <<stage0Vars, epochs>>
  BY DEF HoldUpper, EntersUpper, Unchanged0
<1>3. PICK d :
        /\ x0.btb \in Responses(Enters(x0))
        /\ ~spoiled => Cursor(Enters(x0), d)
        /\ Continues = ContinuesFrom(Enters(x0))
        /\ CursorNext(NextPC(x0, d), NextDelayed(x0, d))
             => PathInv' /\ ContinuesNext(NextPC(x0, d))
  BY <1>2, TakeWord
<1>4. /\ x0 \in Word /\ Enters(x0) = plus(x0.address, 1) /\ Enters(x0) \in Half
      /\ spoiled \in BOOLEAN /\ x0.address % 2 = 0
  BY <1>2, HeadFacts, EntersHalf DEF Current, TypeOK
<1>5. /\ w.trap \in BOOLEAN
      /\ w.hi.at = Enters(x0) /\ w.hi \in HalfWord /\ (w.hi.bad <=> w.trap)
      /\ ~w.trap => w.hi.long = Long[w.hi.at]
  BY <1>2, <1>4, AnswerFacts DEF Current
<1>6. HitIsOwn'
  BY <1>2 DEF HitIsOwn, Handed
<1>7. CASE spoiled'
  BY <1>2, <1>3, <1>6, <1>7, FaultStep DEF CursorNext
<1>8. CASE ~spoiled'
  <2>1. ~spoiled /\ ~w.trap
    BY <1>1, <1>4, <1>5, <1>8
  <2>2. Enters(x0) \in Start /\ d = NoPC
    BY <1>2, <1>3, <2>1 DEF Cursor
  <2>3. x0.btb.taken => x0.btb.of = Enters(x0)
    BY <1>2, <1>3, <1>4, HitHalf
  <2>4. HeldLeadsTo([at |-> Enters(x0), long |-> Long[Enters(x0)], bad |-> FALSE],
                    x0.btb, NextPC(x0, NoPC), NextDelayed(x0, NoPC))
    BY <1>3, <1>4, <2>2, <2>3, UpperLeadsTo
  <2>5. w.hi = [at |-> Enters(x0), long |-> Long[Enters(x0)], bad |-> FALSE]
    BY <1>5, <2>1 DEF HalfWord
  <2>6. /\ rg_prev'.half = w.hi /\ rg_prev'.btb = x0.btb /\ HeldIsCurrent'
    BY <1>1, <1>2 DEF Hold, HoldUpper, HeldIsCurrent
  <2>7. PathInv' /\ Continues' = Enters(x0) /\ Continues = Enters(x0)
    BY <1>2, <1>3, <1>5, <1>8, <2>1, <2>2, <2>4, <2>5, <2>6
       DEF CursorNext, ContinuesNext, ContinuesFrom
  <2> QED
    BY <1>2, <1>6, <2>7, StreamStays DEF StepIsRight
<1> QED
  BY <1>7, <1>8

LEMMA PassUpperStep ==
  ASSUME TypeOK, TypeOK', PathInv, PassUpper
  PROVE  StepIsRight
<1> DEFINE b == x0.btb
           c == Cleared(b, ~b.hi)
           e == Enters(x0)
<1>1. PICK w \in Answers : /\ ~w.hi.long /\ Send(<<w.hi>>, c, w, w.trap)
                           /\ spoiled' = (spoiled \/ w.trap)
  BY DEF PassUpper
<1>2. /\ Current /\ ~HeldIsCurrent /\ ~HeldIsCurrent' /\ x0.discard /\ Deq
      /\ UNCHANGED <<stage0Vars, epochs>>
  BY DEF PassUpper, EntersUpper, Unchanged0, HeldIsCurrent
<1>3. PICK d :
        /\ b \in Responses(e)
        /\ ~spoiled => Cursor(e, d)
        /\ Continues = ContinuesFrom(e)
        /\ CursorNext(NextPC(x0, d), NextDelayed(x0, d))
             => PathInv' /\ ContinuesNext(NextPC(x0, d))
  BY <1>2, TakeWord
<1>4. /\ x0 \in Word /\ e = plus(x0.address, 1) /\ e \in Half
      /\ spoiled \in BOOLEAN /\ b \in BTB /\ b.hi \in BOOLEAN /\ c \in BTB
  <2>1. x0 \in Word /\ spoiled \in BOOLEAN
    BY <1>2, HeadFacts DEF Current, TypeOK
  <2>2. b \in BTB /\ b.hi \in BOOLEAN
    BY <2>1 DEF Word, BTB
  <2> QED
    BY <1>2, <2>1, <2>2, EntersHalf, ClearedType
<1>5. /\ w.trap \in BOOLEAN
      /\ w.hi.at = e /\ w.hi \in HalfWord /\ (w.hi.bad <=> w.trap)
      /\ ~w.trap => ~Long[e]
  BY <1>1, <1>2, <1>4, AnswerFacts DEF Current
<1>6. ASSUME ~spoiled
      PROVE  /\ e \in Start /\ d = NoPC /\ Continues = e
             /\ ~Long[e] => /\ NextPC(x0, d) \in Start /\ NextDelayed(x0, d) = NoPC
                            /\ NextPC(x0, d) \in IF c.taken THEN Targets[e] ELSE {plus(e, 1)}
             /\ c.of # NoPC => c.of = e
  <2>1. e \in Start /\ d = NoPC /\ Continues = e
    BY <1>2, <1>3, <1>6 DEF Cursor, ContinuesFrom
  <2>2. b.taken => b.of = e
    BY <1>2, <1>3, <1>4, HitHalf
  <2> DEFINE half == [at |-> e, long |-> Long[e], bad |-> FALSE]
  <2>3. HeldLeadsTo(half, b, NextPC(x0, NoPC), NextDelayed(x0, NoPC))
    BY <1>3, <1>4, <2>1, <2>2, UpperLeadsTo
  <2>4. half \in HalfWord /\ half.at = e /\ half.long = Long[e]
    BY <1>4, CodeAssumption DEF HalfWord
  <2>5. ~Long[e] => /\ NextPC(x0, d) \in Start /\ NextDelayed(x0, d) = NoPC
                    /\ NextPC(x0, d) \in IF c.taken THEN Targets[e] ELSE {plus(e, 1)}
    <3> HIDE DEF half, b, e
    <3> QED
      BY <1>4, <2>1, <2>3, <2>4, ShortLeadsTo DEF c
  <2>6. c.of # NoPC => c.of = e
    BY <1>3, <1>4, HitHalf, ClearedType
  <2> QED
    BY <2>1, <2>5, <2>6
<1>7. /\ HitIsOwn'
      /\ sent'.kind = "instr" /\ sent'.at = <<e>> /\ (sent'.taken <=> c.taken)
  <2> HIDE DEF b, c, e
  <2> QED
    BY <1>1, <1>4, <1>5, <1>6, SendOne
<1>8. CASE spoiled'
  <2>1. PathInv' /\ ContinuesNext(NextPC(x0, d))
    BY <1>3, <1>8 DEF CursorNext
  <2>2. Continues # NoPC => sent'.at[1] = Continues
    BY <1>2, <1>3, <1>7 DEF ContinuesFrom
  <2> QED
    BY <1>7, <1>8, <2>1, <2>2, FaultStep
<1>9. CASE ~spoiled'
  <2>1. ~spoiled /\ ~Long[e]
    BY <1>1, <1>4, <1>5, <1>9
  <2>2. PathInv' /\ Continues' = NextPC(x0, d)
    BY <1>2, <1>3, <1>6, <1>9, <2>1 DEF CursorNext, ContinuesNext
  <2>3. Stream!Next
    <3>1. Continues' \in IF sent'.taken THEN Targets[e] ELSE {plus(e, Size(e))}
      BY <1>6, <1>7, <2>1, <2>2 DEF Size
    <3> QED
      BY <1>6, <1>7, <2>1, <3>1, StreamHandOn
  <2> QED
    BY <1>7, <2>2, <2>3 DEF StepIsRight
<1> QED
  BY <1>8, <1>9

LEMMA PassWordStep ==
  ASSUME TypeOK, TypeOK', PathInv, PassWord
  PROVE  StepIsRight
<1> DEFINE b == x0.btb
           e == x0.address
<1>1. PICK w \in Answers : /\ w.lo.long /\ Send(<<w.lo, w.hi>>, b, w, w.trap)
                           /\ spoiled' = (spoiled \/ w.trap)
  BY DEF PassWord
<1>2. /\ Current /\ ~HeldIsCurrent /\ ~HeldIsCurrent' /\ ~x0.discard /\ Deq
      /\ UNCHANGED <<stage0Vars, epochs>>
  BY DEF PassWord, EntersLower, Unchanged0, HeldIsCurrent
<1>3. /\ x0 \in Word /\ Enters(x0) = e /\ e \in Half /\ plus(plus(e, 1), 1) = plus(e, 2)
      /\ spoiled \in BOOLEAN /\ b \in BTB
  BY <1>2, HeadFacts, EntersHalf, Halves DEF Current, TypeOK
<1>4. PICK d :
        /\ b \in Responses(Enters(x0))
        /\ ~spoiled => Cursor(e, d)
        /\ Continues = ContinuesFrom(e)
        /\ CursorNext(NextPC(x0, d), NextDelayed(x0, d))
             => PathInv' /\ ContinuesNext(NextPC(x0, d))
  BY <1>2, <1>3, TakeWord
<1>5. /\ w.trap \in BOOLEAN
      /\ w.lo.at = e /\ w.lo \in HalfWord /\ (w.lo.bad <=> w.trap)
      /\ w.hi.at = plus(e, 1) /\ w.hi \in HalfWord /\ (w.hi.bad <=> w.trap)
      /\ ~w.trap => Long[e]
  BY <1>1, <1>2, AnswerFacts DEF Current
<1>6. ASSUME ~spoiled
      PROVE  /\ e \in Start /\ d = NoPC /\ Continues = e
             /\ Long[e] => /\ NextPC(x0, d) \in Start /\ NextDelayed(x0, d) = NoPC
                           /\ NextPC(x0, d) \in IF b.taken THEN Targets[e] ELSE {plus(e, 2)}
                           /\ b.of # NoPC => b.of = e
  <2>1. e \in Start /\ d = NoPC /\ Continues = e
    BY <1>2, <1>4, <1>6 DEF Cursor, ContinuesFrom
  <2> QED
    BY <1>2, <1>3, <1>4, <2>1, WordLeadsTo
<1>7. /\ HitIsOwn'
      /\ sent'.kind = "instr" /\ sent'.at = <<e, plus(e, 1)>> /\ (sent'.taken <=> b.taken)
  <2> HIDE DEF b, e
  <2> QED
    BY <1>1, <1>3, <1>5, <1>6, SendTwo
<1>8. CASE spoiled'
  <2>1. PathInv' /\ ContinuesNext(NextPC(x0, d))
    BY <1>4, <1>8 DEF CursorNext
  <2>2. Continues # NoPC => sent'.at[1] = Continues
    BY <1>2, <1>4, <1>7 DEF ContinuesFrom
  <2> QED
    BY <1>7, <1>8, <2>1, <2>2, FaultStep
<1>9. CASE ~spoiled'
  <2>1. ~spoiled /\ Long[e]
    BY <1>1, <1>3, <1>5, <1>9
  <2>2. PathInv' /\ Continues' = NextPC(x0, d)
    BY <1>2, <1>4, <1>6, <1>9, <2>1 DEF CursorNext, ContinuesNext
  <2>3. Stream!Next
    <3>1. Continues' \in IF sent'.taken THEN Targets[e] ELSE {plus(e, Size(e))}
      BY <1>6, <1>7, <2>1, <2>2 DEF Size
    <3> QED
      BY <1>6, <1>7, <2>1, <3>1, StreamHandOn
  <2> QED
    BY <1>7, <2>2, <2>3 DEF StepIsRight
<1> QED
  BY <1>8, <1>9

LEMMA PassLowerStep ==
  ASSUME TypeOK, TypeOK', PathInv, PassLower
  PROVE  StepIsRight
<1> DEFINE b == x0.btb
           c == Cleared(b, b.hi)
           e == x0.address
<1>1. PICK w \in Answers : /\ ~w.lo.long /\ Send(<<w.lo>>, c, w, w.trap)
                           /\ Hold(w.hi, b)
                           /\ rg_action' = IF ~b.hi /\ b.taken THEN "None" ELSE "CheckPrev"
                           /\ spoiled' = (spoiled \/ w.trap)
  BY DEF PassLower
<1>2. /\ Current /\ ~HeldIsCurrent /\ ~x0.discard /\ Deq
      /\ UNCHANGED <<stage0Vars, epochs>>
  BY DEF PassLower, EntersLower, Unchanged0
<1>3. /\ x0 \in Word /\ Enters(x0) = e /\ e \in Half /\ plus(e, 1) \in Half
      /\ spoiled \in BOOLEAN /\ b \in BTB /\ b.hi \in BOOLEAN /\ c \in BTB
  <2>1. x0 \in Word /\ spoiled \in BOOLEAN /\ e \in Half
    BY <1>2, HeadFacts DEF Current, TypeOK
  <2>2. b \in BTB /\ b.hi \in BOOLEAN
    BY <2>1 DEF Word, BTB
  <2> QED
    BY <1>2, <2>1, <2>2, EntersHalf, Halves, ClearedType
<1>4. PICK d :
        /\ b \in Responses(Enters(x0))
        /\ ~spoiled => Cursor(e, d)
        /\ Continues = ContinuesFrom(e)
        /\ CursorNext(NextPC(x0, d), NextDelayed(x0, d))
             => PathInv' /\ ContinuesNext(NextPC(x0, d))
  BY <1>2, <1>3, TakeWord
<1>5. /\ w.trap \in BOOLEAN
      /\ w.lo.at = e /\ w.lo \in HalfWord /\ (w.lo.bad <=> w.trap)
      /\ w.hi.at = plus(e, 1) /\ w.hi \in HalfWord /\ (w.hi.bad <=> w.trap)
      /\ ~w.trap => ~Long[e] /\ w.hi.long = Long[plus(e, 1)]
  BY <1>1, <1>2, AnswerFacts DEF Current
<1>6. ASSUME ~spoiled
      PROVE  /\ e \in Start /\ d = NoPC /\ Continues = e
             /\ c.of # NoPC => c.of = e
             /\ c.taken <=> ~b.hi /\ b.taken
             /\ ~Long[e] =>
                  /\ plus(e, 1) \in Start
                  /\ c.taken => /\ NextPC(x0, d) \in Targets[e] /\ NextPC(x0, d) \in Start
                                /\ NextDelayed(x0, d) = NoPC
                  /\ ~c.taken => HeldLeadsTo([at |-> plus(e, 1), long |-> Long[plus(e, 1)],
                                              bad |-> FALSE],
                                             b, NextPC(x0, d), NextDelayed(x0, d))
  <2>1. e \in Start /\ d = NoPC /\ Continues = e
    BY <1>2, <1>4, <1>6 DEF Cursor, ContinuesFrom
  <2>2. (c.taken <=> ~b.hi /\ b.taken) /\ (c.of # NoPC => c.of = e)
    BY <1>3, <1>4, HitHalf, ClearedType
  <2>3. ASSUME ~Long[e]
        PROVE  /\ plus(e, 1) \in Start
               /\ c.taken => /\ NextPC(x0, d) \in Targets[e] /\ NextPC(x0, d) \in Start
                             /\ NextDelayed(x0, d) = NoPC
               /\ ~c.taken /\ b.taken => b.of = plus(e, 1)
    BY <1>2, <1>3, <1>4, <2>1, <2>3, LowerLeadsTo
  <2>4. ASSUME ~Long[e], ~c.taken
        PROVE  HeldLeadsTo([at |-> plus(e, 1), long |-> Long[plus(e, 1)], bad |-> FALSE],
                           b, NextPC(x0, d), NextDelayed(x0, d))
    BY <1>3, <1>4, <2>1, <2>3, <2>4, UpperLeadsTo
  <2> QED
    BY <2>1, <2>2, <2>3, <2>4
<1>7. /\ HitIsOwn'
      /\ sent'.kind = "instr" /\ sent'.at = <<e>> /\ (sent'.taken <=> c.taken)
  <2> HIDE DEF b, c, e
  <2> QED
    BY <1>1, <1>3, <1>5, <1>6, SendOne
<1>8. CASE spoiled'
  <2>1. PathInv' /\ ContinuesNext(NextPC(x0, d))
    BY <1>4, <1>8 DEF CursorNext
  <2>2. Continues # NoPC => sent'.at[1] = Continues
    BY <1>2, <1>4, <1>7 DEF ContinuesFrom
  <2> QED
    BY <1>7, <1>8, <2>1, <2>2, FaultStep
<1>9. CASE ~spoiled'
  <2>1. ~spoiled /\ ~Long[e] /\ ~w.trap
    BY <1>1, <1>3, <1>5, <1>9
  <2>2. /\ rg_prev'.half = w.hi /\ rg_prev'.btb = b /\ rg_prev'.ep = epochs'
        /\ HeldIsCurrent' <=> ~c.taken
    BY <1>1, <1>2, <1>6, <2>1 DEF Hold, HeldIsCurrent
  <2>3. w.hi = [at |-> plus(e, 1), long |-> Long[plus(e, 1)], bad |-> FALSE]
    BY <1>5, <2>1 DEF HalfWord
  <2>4. CursorNext(NextPC(x0, d), NextDelayed(x0, d))
    <3> HIDE DEF b, c, e
    <3> QED
      BY <1>6, <2>1, <2>2, <2>3 DEF CursorNext
  <2>5. PathInv' /\ Continues' = IF c.taken THEN NextPC(x0, d) ELSE plus(e, 1)
    BY <1>4, <1>5, <1>9, <2>2, <2>4 DEF ContinuesNext
  <2>6. Stream!Next
    <3>1. Continues' \in IF sent'.taken THEN Targets[e] ELSE {plus(e, Size(e))}
      BY <1>6, <1>7, <2>1, <2>5 DEF Size
    <3> QED
      BY <1>6, <1>7, <2>1, <3>1, StreamHandOn
  <2> QED
    BY <1>7, <2>5, <2>6 DEF StepIsRight
<1> QED
  BY <1>8, <1>9

LEMMA JoinHalvesStep ==
  ASSUME TypeOK, TypeOK', LocalInv, PathInv, JoinHalves
  PROVE  StepIsRight
<1> DEFINE half == rg_prev.half
           p == rg_prev.btb
           c == Cleared(p, ~p.hi)
           e == x0.address
           g == half.at
           x == x0
<1>1. PICK w \in Answers : /\ Send(<<half, w.lo>>, c, w, w.trap)
                           /\ Hold(w.hi, x.btb)
                           /\ rg_action' = IF c.taken THEN "None" ELSE rg_action
                           /\ spoiled' = (spoiled \/ w.trap)
  BY DEF JoinHalves
<1>2. /\ Current /\ HeldIsCurrent /\ half.long /\ Deq /\ rg_receiving_upper
      /\ UNCHANGED <<stage0Vars, epochs>>
  BY DEF JoinHalves, Unchanged0, LocalInv
<1>3. /\ x \in Word /\ e \in Half /\ e % 2 = 0 /\ Enters(x) \in Half
      /\ spoiled \in BOOLEAN /\ half \in HalfWord /\ p \in BTB /\ p.hi \in BOOLEAN /\ c \in BTB
  <2>1. x \in Word /\ spoiled \in BOOLEAN /\ e \in Half /\ e % 2 = 0
    BY <1>2, HeadFacts DEF Current, TypeOK
  <2>2. half \in HalfWord /\ p \in BTB /\ p.hi \in BOOLEAN
    BY DEF TypeOK, BTB
  <2> QED
    BY <2>1, <2>2, EntersHalf, ClearedType
<1>4. PICK d :
        /\ x.btb \in Responses(Enters(x))
        /\ ~spoiled => Cursor(Enters(x), d)
        /\ Continues = ContinuesFrom(Enters(x))
        /\ CursorNext(NextPC(x, d), NextDelayed(x, d))
             => PathInv' /\ ContinuesNext(NextPC(x, d))
  BY <1>2, TakeWord
<1>5. /\ w.trap \in BOOLEAN
      /\ w.lo.at = e /\ w.lo \in HalfWord /\ (w.lo.bad <=> w.trap)
      /\ w.hi.at = plus(e, 1) /\ w.hi \in HalfWord
      /\ ~w.trap => w.hi.long = Long[plus(e, 1)] /\ (w.hi.bad <=> FALSE)
  BY <1>2, AnswerFacts DEF Current
<1>6. Continues = IF spoiled THEN NoPC ELSE g
  BY <1>2, <1>4 DEF ContinuesFrom
<1> HIDE DEF x
<1>7. ASSUME ~spoiled
      PROVE  /\ g \in Start /\ Long[g] /\ ~half.bad
             /\ e = plus(g, 1) /\ plus(e, 1) = plus(g, 2) /\ plus(g, 2) \in Start
             /\ c.of # NoPC => c.of = g
             /\ c.taken <=> p.taken
             /\ c.taken => /\ NextPC(x, d) \in Targets[g] /\ NextPC(x, d) \in Start
                           /\ NextDelayed(x, d) = NoPC
             /\ ~c.taken => HeldLeadsTo([at |-> plus(e, 1), long |-> Long[plus(e, 1)],
                                         bad |-> FALSE],
                                        x.btb, NextPC(x, d), NextDelayed(x, d))
  <2>1. HeldLeadsTo(half, p, Enters(x), d)
    BY <1>2, <1>4, <1>7 DEF Cursor
  <2>2. /\ g \in Start /\ g \in Half /\ g % 2 = 1 /\ Long[g] /\ ~half.bad
        /\ p.of # NoPC /\ p.hi => p.of = g
        /\ p.taken => p.hi /\ p.of = g /\ p.target \in Targets[g]
        /\ Enters(x) = plus(g, 1)
        /\ d = IF p.taken THEN p.target ELSE NoPC
    BY <1>2, <2>1, CodeAssumption DEF HeldLeadsTo
  <2>3. /\ plus(g, 2) \in Start /\ plus(g, 1) \notin Start /\ Targets[g] \subseteq Start
        /\ plus(g, 1) % 2 = 0 /\ plus(plus(g, 1), 1) = plus(g, 2)
    BY <2>2, Halves, CodeAssumption DEF Size
  <2>4. e = plus(g, 1)
    <3>1. x.discard => Enters(x) % 2 = 1
      BY <1>3, EntersHalf, Halves DEF x
    <3>2. ~x.discard
      BY <2>2, <2>3, <3>1
    <3> QED
      BY <1>3, <2>2, <3>2, EntersHalf DEF x
  <2>5. (c.taken <=> p.taken) /\ (c.of # NoPC => c.of = g)
    BY <1>3, <2>2, ClearedType
  <2>6. ASSUME c.taken
        PROVE  /\ NextPC(x, d) \in Targets[g] /\ NextPC(x, d) \in Start
               /\ NextDelayed(x, d) = NoPC
    <3>1. d \in Targets[g] /\ d \in Start /\ d # NoPC
      BY <2>2, <2>3, <2>5, <2>6, CodeAssumption DEF NoPC, Half
    <3> QED
      BY <3>1 DEF NextPC, NextDelayed
  <2>7. ASSUME ~c.taken
        PROVE  HeldLeadsTo([at |-> plus(e, 1), long |-> Long[plus(e, 1)], bad |-> FALSE],
                           x.btb, NextPC(x, d), NextDelayed(x, d))
    <3>1. x.btb.taken => x.btb.of = plus(e, 1)
      BY <1>3, <1>4, <2>3, <2>4, HitHalf DEF x
    <3>2. d = NoPC /\ plus(e, 1) \in Start
      BY <2>2, <2>3, <2>4, <2>5, <2>7
    <3> QED
      BY <1>3, <1>4, <3>1, <3>2, UpperLeadsTo DEF x
  <2> QED
    BY <2>2, <2>3, <2>4, <2>5, <2>6, <2>7
<1>8. /\ HitIsOwn'
      /\ sent'.kind = "instr" /\ sent'.at = <<g, e>> /\ (sent'.taken <=> c.taken)
  <2> HIDE DEF c, e, half
  <2>1. ~spoiled => ~half.bad /\ (c.of # NoPC => c.of = half.at)
    BY <1>7
  <2> QED
    BY <1>1, <1>2, <1>3, <1>5, <2>1, SendTwo
<1>9. CASE spoiled'
  <2>1. PathInv' /\ ContinuesNext(NextPC(x, d))
    BY <1>4, <1>9 DEF CursorNext
  <2> QED
    BY <1>6, <1>8, <1>9, <2>1, FaultStep
<1>10. CASE ~spoiled'
  <2>1. ~spoiled /\ ~w.trap
    BY <1>1, <1>3, <1>5, <1>10
  <2>2. /\ rg_prev'.half = w.hi /\ rg_prev'.btb = x.btb /\ rg_prev'.ep = epochs'
        /\ HeldIsCurrent' <=> ~c.taken
    BY <1>1, <1>2 DEF Hold, HeldIsCurrent
  <2>3. w.hi = [at |-> plus(e, 1), long |-> Long[plus(e, 1)], bad |-> FALSE]
    BY <1>5, <2>1 DEF HalfWord
  <2>4. CursorNext(NextPC(x, d), NextDelayed(x, d))
    <3> HIDE DEF c, e, g
    <3> QED
      BY <1>7, <2>1, <2>2, <2>3 DEF CursorNext
  <2>5. PathInv' /\ Continues' = IF c.taken THEN NextPC(x, d) ELSE plus(e, 1)
    BY <1>4, <1>5, <1>10, <2>2, <2>4 DEF ContinuesNext
  <2>6. Stream!Next
    <3>1. Continues' \in IF sent'.taken THEN Targets[g] ELSE {plus(g, Size(g))}
      BY <1>7, <1>8, <2>1, <2>5 DEF Size
    <3> QED
      BY <1>6, <1>7, <1>8, <2>1, <3>1, StreamHandOn
  <2> QED
    BY <1>8, <2>5, <2>6 DEF StepIsRight
<1> QED
  BY <1>9, <1>10

(* A word of an older path: the path continues where it did.               *)
LEMMA DropWordStep ==
  ASSUME TypeOK, TypeOK', PathInv, HitIsOwn, DropWord
  PROVE  StepIsRight
<1>1. PICK f \in 1 .. Len(pipe0) + 1, del \in [1 .. Len(pipe0) + 1 -> Address] :
        /\ Chain(f, del)
        /\ ~spoiled => Cursor(Entry(f), del[f])
        /\ HeldIsCurrent => f = 1
  BY DEF PathInv
<1>2. /\ pipe0 # <<>> /\ ~Current /\ Deq /\ ~HeldIsCurrent'
      /\ UNCHANGED <<stage0Vars, epochs, sent, spoiled>>
  BY DEF DropWord, Current, HeldIsCurrent, Unchanged0
<1>3. f # 1 /\ ~HeldIsCurrent /\ Len(pipe0) \in Nat
  BY <1>1, <1>2, CurrentIsFirst DEF TypeOK
<1>4. PICK g \in 1 .. Len(pipe0) : f = g + 1
  <2>1. f - 1 \in 1 .. Len(pipe0) /\ f = (f - 1) + 1
    BY <1>3
  <2> QED
    BY <2>1
<1>5. PICK s \in [1 .. Len(pipe0') + 1 -> Address] :
        /\ Chain(g, s)' /\ s[g] = del[g + 1] /\ Entry(g)' = Entry(g + 1)
        /\ g \in 1 .. Len(pipe0') + 1
  BY <1>1, <1>2, <1>4, ChainDeq
<1>6. CursorNext(Entry(f), s[g])
  BY <1>1, <1>2, <1>3, <1>4, <1>5 DEF CursorNext, Cursor
<1>7. PathInv' /\ ContinuesNext(Entry(f))
  BY <1>2, <1>4, <1>5, <1>6, PathNext
<1>8. Continues = ContinuesFrom(Entry(f))
  <2>1. f \in Nat
    BY <1>3
  <2> QED
    BY <1>1, <2>1, ContinuesAt
<1>9. Continues' = Continues
  BY <1>2, <1>3, <1>7, <1>8 DEF ContinuesNext, ContinuesFrom
<1>10. HitIsOwn'
  BY <1>2 DEF HitIsOwn, Handed
<1> QED
  BY <1>2, <1>7, <1>9, <1>10, StreamStays DEF StepIsRight

-----------------------------------------------------------------------------
(* stage0 and the redirections.                                            *)

LEMMA FetchNextStep ==
  ASSUME TypeOK, TypeOK', PathInv, HitIsOwn, FetchNext
  PROVE  StepIsRight
<1>1. PICK f \in 1 .. Len(pipe0) + 1, del \in [1 .. Len(pipe0) + 1 -> Address] :
        /\ Chain(f, del)
        /\ ~spoiled => Cursor(Entry(f), del[f])
        /\ HeldIsCurrent => f = 1
  BY DEF PathInv
<1>2. PICK s \in [1 .. Len(pipe0') + 1 -> Address] :
        /\ Chain(f, s)' /\ s[f] = del[f] /\ Entry(f)' = Entry(f)
        /\ f \in 1 .. Len(pipe0') + 1
  BY <1>1, ChainFetch
<1>3. /\ UNCHANGED <<epochs, rg_action, rg_prev, sent, spoiled>>
      /\ HeldIsCurrent' <=> HeldIsCurrent
  BY DEF FetchNext, HeldIsCurrent
<1>4. CursorNext(Entry(f), s[f])
  BY <1>1, <1>2, <1>3 DEF CursorNext, Cursor
<1>5. PathInv' /\ ContinuesNext(Entry(f))
  BY <1>1, <1>2, <1>3, <1>4, PathNext
<1>6. Continues = ContinuesFrom(Entry(f))
  <2>1. f \in Nat
    BY DEF TypeOK
  <2> QED
    BY <1>1, <2>1, ContinuesAt
<1>7. Continues' = Continues
  BY <1>3, <1>5, <1>6 DEF ContinuesNext, ContinuesFrom
<1>8. HitIsOwn'
  BY <1>3 DEF HitIsOwn, Handed
<1> QED
  BY <1>3, <1>5, <1>7, <1>8, StreamStays DEF StepIsRight

LEMMA QuietStep ==
  ASSUME TypeOK, TypeOK', LocalInv, PathInv, HitIsOwn,
         FetchFence \/ UNCHANGED vars
  PROVE  StepIsRight
<1>1. /\ UNCHANGED <<pipe0, rg_pc, rg_delayed_redirect, epochs, rg_action, rg_prev, sent, spoiled>>
      /\ HeldIsCurrent' <=> HeldIsCurrent
  BY DEF FetchFence, vars, stage0Vars, LocalInv, HeldIsCurrent
<1>2. PICK e, d :
        /\ ~spoiled => Cursor(e, d)
        /\ Continues = ContinuesFrom(e)
        /\ CursorNext(e, d) => PathInv' /\ ContinuesNext(e)
  BY <1>1, KeepWords
<1>3. CursorNext(e, d)
  BY <1>1, <1>2 DEF CursorNext, Cursor
<1>4. Continues' = Continues
  BY <1>1, <1>2, <1>3 DEF ContinuesNext, ContinuesFrom
<1>5. HitIsOwn'
  BY <1>1 DEF HitIsOwn, Handed
<1> QED
  BY <1>1, <1>2, <1>3, <1>4, <1>5, StreamStays DEF StepIsRight

LEMMA RedirectStep ==
  ASSUME TypeOK, TypeOK', EpochInv, ExeRedirect \/ WriteBackRedirect
  PROVE  StepIsRight
<1>1. /\ \A i \in DOMAIN pipe0 : pipe0[i].ep # epochs'
      /\ rg_prev.ep # epochs'
      /\ UNCHANGED <<pipe0, rg_prev>>
      /\ rg_delayed_redirect' = NoPC /\ spoiled' = FALSE /\ rg_pc' \in Start
      /\ sent' = [kind |-> "redirect", at |-> <<rg_pc'>>, taken |-> FALSE]
  BY RedirectDrops
<1>2. ~HeldIsCurrent'
  BY <1>1 DEF HeldIsCurrent
<1>3. PICK f \in 1 .. Len(pipe0') + 1, s \in [1 .. Len(pipe0') + 1 -> Address] :
        Chain(f, s)' /\ s[f] = NoPC /\ Entry(f)' = rg_pc'
  BY <1>1, ChainRedirect
<1>4. CursorNext(rg_pc', s[f])
  BY <1>1, <1>2, <1>3 DEF CursorNext
<1>5. PathInv' /\ ContinuesNext(rg_pc')
  BY <1>2, <1>3, <1>4, PathNext
<1>6. Continues' = rg_pc'
  BY <1>1, <1>2, <1>5 DEF ContinuesNext
<1>7. Stream!Redirect
  BY <1>1, <1>6 DEF Stream!Redirect
<1>8. HitIsOwn'
  BY <1>1 DEF HitIsOwn, Handed
<1> QED
  BY <1>5, <1>7, <1>8 DEF StepIsRight, Stream!Next

LEMMA StepRight ==
  ASSUME IInv, [Next]_vars
  PROVE  IInv' /\ [Stream!Next]_(Stream!vars)
<1>1. TypeOK /\ EpochInv /\ LocalInv /\ PathInv /\ HitIsOwn
  BY DEF IInv
<1>2. TypeOK' /\ EpochInv' /\ LocalInv'
  BY <1>1, TypeStep, EpochStep, LocalStep
<1>3. StepIsRight
  <2>1. CASE FetchNext
    BY <1>1, <1>2, <2>1, FetchNextStep
  <2>2. CASE FetchFence \/ UNCHANGED vars
    BY <1>1, <1>2, <2>2, QuietStep
  <2>3. CASE DropWord
    BY <1>1, <1>2, <2>3, DropWordStep
  <2>4. CASE HoldUpper
    BY <1>1, <1>2, <2>4, HoldUpperStep
  <2>5. CASE PassHeld
    BY <1>1, <1>2, <2>5, PassHeldStep
  <2>6. CASE JoinHalves
    BY <1>1, <1>2, <2>6, JoinHalvesStep
  <2>7. CASE PassUpper
    BY <1>1, <1>2, <2>7, PassUpperStep
  <2>8. CASE PassWord
    BY <1>1, <1>2, <2>8, PassWordStep
  <2>9. CASE PassLower
    BY <1>1, <1>2, <2>9, PassLowerStep
  <2>10. CASE ExeRedirect \/ WriteBackRedirect
    BY <1>1, <1>2, <2>10, RedirectStep
  <2> QED
    BY <2>1, <2>2, <2>3, <2>4, <2>5, <2>6, <2>7, <2>8, <2>9, <2>10
       DEF Next, Stage0, Stage1, HandOn
<1> QED
  BY <1>2, <1>3 DEF IInv, StepIsRight

LEMMA Invariant == Spec => []IInv
<1>1. IInv /\ [Next]_vars => IInv'
  BY StepRight
<1> QED
  BY InitInv, <1>1, PTL DEF Spec

-----------------------------------------------------------------------------
(* No word in the buffer between the stages, half in stage1 or waiting     *)
(* redirection falls outside its type, and the buffer never overflows.     *)
THEOREM TypeCorrect == Spec => []TypeOK
<1>1. IInv => TypeOK
  BY DEF IInv
<1> QED
  BY Invariant, <1>1, PTL

(* The BTB has one entry for a word, which may be of either half, and the  *)
(* halves of a word may go on at different times: the hit that stage1      *)
(* gives to an instruction is always the one of its own entry.             *)
THEOREM OwnHit == Spec => []HitIsOwn
<1>1. IInv => HitIsOwn
  BY DEF IInv
<1> QED
  BY Invariant, <1>1, PTL

(* What the mark of a second half and the kept half are while stage1 waits *)
(* for a word: the mark is of the kept half, or the word at the head is of *)
(* an older path and clears it; a kept half is an upper one, and if it     *)
(* faulted and is an instruction of its own, then the instruction in the   *)
(* lower half of its word went on with that fault.                         *)
MarkInv ==
  /\ rg_receiving_upper => HeldIsCurrent \/ (pipe0 # <<>> /\ pipe0[1].ep # epochs)
  /\ HeldIsCurrent => /\ rg_prev.half.at % 2 = 1
                      /\ rg_prev.half.bad /\ ~rg_prev.half.long => trapped

LEMMA MarkInit == Init => MarkInv
BY DEF Init, MarkInv, HeldIsCurrent

(* A word whose upper half is kept.                                        *)
LEMMA MarkHold ==
  ASSUME TypeOK, pipe0 # <<>>, NEW w \in Answers, Hold(w.hi, x0.btb), epochs' = epochs,
         rg_receiving_upper' => rg_action' = "CheckPrev",
         w.trap /\ ~w.hi.long => trapped'
  PROVE  MarkInv'
<1>1. x0.address \in Half /\ x0.address % 2 = 0 /\ w.hi.at = plus(x0.address, 1)
      /\ (w.hi.bad <=> w.trap)
  BY HeadFacts, AnswerFacts
<1>2. w.hi.at % 2 = 1
  BY <1>1, Halves
<1>3. rg_prev'.half = w.hi /\ rg_prev'.ep = epochs'
  BY DEF Hold
<1>4. HeldIsCurrent' <=> rg_action' = "CheckPrev"
  BY <1>3 DEF HeldIsCurrent
<1> QED
  BY <1>1, <1>2, <1>3, <1>4 DEF MarkInv

LEMMA MarkStep ==
  ASSUME IInv, MarkInv, [Next]_vars
  PROVE  MarkInv'
<1>1. TypeOK /\ EpochInv /\ LocalInv
  BY DEF IInv
<1>2. ASSUME Current, ~HeldIsCurrent
      PROVE  ~rg_receiving_upper
  BY <1>1, <1>2, HeadFacts DEF Current, MarkInv
<1>3. CASE FetchNext
  <2>1. PICK x : pipe0' = Append(pipe0, x)
    BY <1>3 DEF FetchNext
  <2>2. pipe0 # <<>> => pipe0' # <<>> /\ pipe0'[1] = pipe0[1]
    BY <1>1, <2>1 DEF TypeOK
  <2>3. UNCHANGED <<epochs, rg_action, rg_prev, rg_receiving_upper, trapped>>
    BY <1>3 DEF FetchNext
  <2> QED
    BY <2>2, <2>3 DEF MarkInv, HeldIsCurrent
<1>4. CASE FetchFence \/ UNCHANGED vars
  BY <1>4 DEF FetchFence, vars, MarkInv, HeldIsCurrent
<1>5. CASE DropWord \/ PassHeld
  BY <1>5 DEF DropWord, PassHeld, MarkInv, HeldIsCurrent
<1>6. CASE PassUpper \/ PassWord
  BY <1>2, <1>6 DEF PassUpper, PassWord, EntersUpper, EntersLower, MarkInv, HeldIsCurrent
<1>7. CASE HoldUpper
  <2>1. PICK w \in Answers : w.hi.long /\ Hold(w.hi, x0.btb)
    BY <1>7 DEF HoldUpper
  <2>2. pipe0 # <<>> /\ epochs' = epochs /\ rg_action' = "CheckPrev"
    BY <1>7 DEF HoldUpper, EntersUpper, Current, Unchanged0
  <2> QED
    BY <1>1, <2>1, <2>2, MarkHold
<1>8. CASE PassLower
  <2>1. PICK w \in Answers :
          /\ Send(<<w.lo>>, Cleared(x0.btb, x0.btb.hi), w, w.trap)
          /\ Hold(w.hi, x0.btb)
          /\ rg_action' = IF ~x0.btb.hi /\ x0.btb.taken THEN "None" ELSE "CheckPrev"
          /\ rg_receiving_upper' = ~(~x0.btb.hi /\ x0.btb.taken)
    BY <1>8 DEF PassLower
  <2>2. pipe0 # <<>> /\ epochs' = epochs /\ (w.trap => trapped')
    BY <1>8, <2>1 DEF PassLower, EntersLower, Current, Unchanged0, Send
  <2> QED
    BY <1>1, <2>1, <2>2, MarkHold
<1>9. CASE JoinHalves
  <2> DEFINE b == Cleared(rg_prev.btb, ~rg_prev.btb.hi)
  <2>1. PICK w \in Answers :
          /\ Send(<<rg_prev.half, w.lo>>, b, w, w.trap)
          /\ Hold(w.hi, x0.btb)
          /\ rg_action' = IF b.taken THEN "None" ELSE rg_action
          /\ rg_receiving_upper' = ~b.taken
    BY <1>9 DEF JoinHalves
  <2>2. pipe0 # <<>> /\ epochs' = epochs /\ rg_action = "CheckPrev" /\ (w.trap => trapped')
    BY <1>9, <2>1 DEF JoinHalves, HeldIsCurrent, Current, Unchanged0, Send
  <2> QED
    BY <1>1, <2>1, <2>2, MarkHold
<1>10. CASE ExeRedirect \/ WriteBackRedirect
  <2>1. /\ \A i \in DOMAIN pipe0 : pipe0[i].ep # epochs'
        /\ rg_prev.ep # epochs' /\ pipe0 # <<>>
        /\ UNCHANGED <<pipe0, rg_prev>>
    BY <1>1, <1>10, RedirectDrops
  <2>2. 1 \in DOMAIN pipe0
    BY <1>1, <2>1, HeadFacts DEF TypeOK
  <2> QED
    BY <2>1, <2>2 DEF MarkInv, HeldIsCurrent
<1> QED
  BY <1>3, <1>4, <1>5, <1>6, <1>7, <1>8, <1>9, <1>10 DEF Next, Stage0, Stage1, HandOn

(* An instruction that is handed on in one piece, and one that is not.     *)
LEMMA FaultOne ==
  ASSUME NEW half, NEW b, NEW w, NEW trap \in BOOLEAN, Send(<<half>>, b, w, trap),
         ~trapped => (trap <=> half.bad) /\ (trap => ~(rg_receiving_upper /\ w.trap))
  PROVE  FaultsReported'
<1>1. /\ sent'.bad = <<half.bad>> /\ sent'.at = <<half.at>>
      /\ sent'.behind = trapped /\ sent'.trap = trap
      /\ sent'.upper_err = (rg_receiving_upper /\ w.trap)
  BY DEF Send
<1>2. Len(sent'.bad) = 1 /\ Len(sent'.at) = 1 /\ sent'.bad[1] = half.bad
  BY <1>1
<1>3. ~AcrossWords'
  BY <1>2 DEF AcrossWords
<1>4. ASSUME ~sent'.behind
      PROVE  (sent'.trap <=> sent'.bad[Len(sent'.bad)]) /\ (sent'.trap => ~sent'.upper_err)
  BY <1>1, <1>2, <1>4
<1> QED
  BY <1>3, <1>4 DEF FaultsReported, Counts

LEMMA FaultTwo ==
  ASSUME NEW p, NEW q, NEW b, NEW w, Send(<<p, q>>, b, w, w.trap),
         w.trap <=> q.bad,
         w.trap => (rg_receiving_upper <=> p.at % 2 = 1)
  PROVE  FaultsReported'
<1>1. /\ sent'.bad = <<p.bad, q.bad>> /\ sent'.at = <<p.at, q.at>>
      /\ sent'.trap = w.trap
      /\ sent'.upper_err = (rg_receiving_upper /\ w.trap)
  BY DEF Send
<1>2. /\ Len(sent'.bad) = 2 /\ Len(sent'.at) = 2
      /\ sent'.bad[2] = q.bad /\ sent'.at[1] = p.at
  BY <1>1
<1> QED
  BY <1>1, <1>2 DEF FaultsReported, Counts, AcrossWords

LEMMA FaultsStep ==
  ASSUME IInv, MarkInv, FaultsReported, [Next]_vars
  PROVE  FaultsReported'
<1>1. TypeOK /\ LocalInv
  BY DEF IInv
<1>2. ASSUME Current
      PROVE  /\ pipe0 # <<>> /\ x0.address % 2 = 0
             /\ ~HeldIsCurrent => ~rg_receiving_upper
  BY <1>1, <1>2, HeadFacts DEF Current, MarkInv
<1>3. CASE FetchNext \/ FetchFence \/ DropWord \/ HoldUpper \/ UNCHANGED vars
  BY <1>3 DEF FetchNext, FetchFence, DropWord, HoldUpper, vars, FaultsReported, Counts,
              AcrossWords
<1>4. CASE PassHeld
  <2>1. PICK w \in Answers :
          Send(<<rg_prev.half>>, Cleared(rg_prev.btb, ~rg_prev.btb.hi), w, FALSE)
    BY <1>4 DEF PassHeld
  <2>2. ~trapped => ~rg_prev.half.bad
    BY <1>4 DEF PassHeld, MarkInv
  <2>3. rg_prev.half.bad \in BOOLEAN
    BY <1>1 DEF TypeOK, HalfWord
  <2> QED
    BY <2>1, <2>2, <2>3, FaultOne
<1>5. CASE PassUpper
  <2>1. PICK w \in Answers :
          Send(<<w.hi>>, Cleared(x0.btb, ~x0.btb.hi), w, w.trap)
    BY <1>5 DEF PassUpper
  <2>2. Current /\ ~HeldIsCurrent
    BY <1>5 DEF PassUpper, EntersUpper
  <2>3. ~rg_receiving_upper /\ (w.hi.bad <=> w.trap) /\ w.trap \in BOOLEAN
    BY <1>1, <1>2, <2>2, AnswerFacts
  <2> QED
    BY <2>1, <2>3, FaultOne
<1>6. CASE PassLower
  <2>1. PICK w \in Answers :
          Send(<<w.lo>>, Cleared(x0.btb, x0.btb.hi), w, w.trap)
    BY <1>6 DEF PassLower
  <2>2. Current /\ ~HeldIsCurrent
    BY <1>6 DEF PassLower, EntersLower
  <2>3. ~rg_receiving_upper /\ (w.lo.bad <=> w.trap) /\ w.trap \in BOOLEAN
    BY <1>1, <1>2, <2>2, AnswerFacts
  <2> QED
    BY <2>1, <2>3, FaultOne
<1>7. CASE PassWord
  <2>1. PICK w \in Answers : Send(<<w.lo, w.hi>>, x0.btb, w, w.trap)
    BY <1>7 DEF PassWord
  <2>2. Current /\ ~HeldIsCurrent
    BY <1>7 DEF PassWord, EntersLower
  <2>3. ~rg_receiving_upper /\ w.lo.at % 2 = 0 /\ (w.hi.bad <=> w.trap)
    BY <1>1, <1>2, <2>2, AnswerFacts
  <2> QED
    BY <2>1, <2>3, FaultTwo
<1>8. CASE JoinHalves
  <2>1. PICK w \in Answers :
          Send(<<rg_prev.half, w.lo>>, Cleared(rg_prev.btb, ~rg_prev.btb.hi), w, w.trap)
    BY <1>8 DEF JoinHalves
  <2>2. Current /\ HeldIsCurrent
    BY <1>8 DEF JoinHalves
  <2>3. rg_receiving_upper /\ rg_prev.half.at % 2 = 1 /\ (w.lo.bad <=> w.trap)
    BY <1>1, <1>2, <2>2, AnswerFacts DEF LocalInv, MarkInv
  <2> QED
    BY <2>1, <2>3, FaultTwo
<1>9. CASE ExeRedirect \/ WriteBackRedirect
  <2>1. sent'.kind = "redirect"
    BY <1>9 DEF ExeRedirect, WriteBackRedirect, Redirect
  <2> QED
    BY <2>1 DEF FaultsReported, Counts
<1> QED
  BY <1>3, <1>4, <1>5, <1>6, <1>7, <1>8, <1>9 DEF Next, Stage0, Stage1, HandOn

(* An instruction that is not behind a fault already carries one exactly   *)
(* if the word that completes it has faulted, and then the mark of a fault *)
(* behind its first half exactly if it lies across two words: no half that *)
(* was kept for a path that was left marks an instruction of the next one, *)
(* and no fault of a later word is taken for that of a half kept before.   *)
THEOREM FaultsKept == Spec => []FaultsReported
<1>1. Init => FaultsReported
  BY DEF Init, FaultsReported, Counts
<1>2. IInv /\ MarkInv /\ FaultsReported /\ [Next]_vars => MarkInv' /\ FaultsReported'
  BY MarkStep, FaultsStep
<1> QED
  BY Invariant, MarkInit, <1>1, <1>2, PTL DEF Spec

(* Words, kept halves, delayed redirections and epochs together hand on    *)
(* exactly the instructions of the predicted path, in order, for any code  *)
(* and any predictions.                                                    *)
THEOREM Refinement == Spec => ImplementsStream
<1>1. Init => Stream!Init
  <2> SUFFICES ASSUME Init PROVE Stream!Init
    OBVIOUS
  <2>1. ~HeldIsCurrent /\ ~spoiled /\ rg_pc \in Start /\ Live = {}
    BY DEF Init, HeldIsCurrent, Live
  <2>2. Continues = rg_pc
    BY <2>1 DEF Continues
  <2>3. sent.kind = "redirect" /\ sent.at = <<rg_pc>> /\ sent.taken = FALSE
    BY DEF Init
  <2> QED
    BY <2>1, <2>2, <2>3 DEF Stream!Init
<1>2. IInv /\ [Next]_vars => [Stream!Next]_(Stream!vars)
  BY StepRight
<1> QED
  BY Invariant, <1>1, <1>2, PTL DEF Spec, ImplementsStream, Stream!Spec
=============================================================================
