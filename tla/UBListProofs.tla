---------------------------- MODULE UBListProofs ----------------------------
(***************************************************************************)
(* Facts about the list of unsequenced blocks, for any list, block and     *)
(* limits.                                                                 *)
(***************************************************************************)
EXTENDS UBList, SequenceTheorems, WellFoundedInduction, TLAPS

\* Min of a set of natural numbers that is not empty is its least element.
LEMMA MinOfNats ==
    ASSUME NEW S \in SUBSET Nat, S # {}
    PROVE  Min(S) \in S /\ \A y \in S : Min(S) <= y
<1> DEFINE R == {ss \in Nat \X Nat : ss[1] < ss[2]}
<1>1. \A x, y \in Nat : << y, x >> \in R <=> y < x
  OBVIOUS
<1>2. IsWellFoundedOn(R, Nat)
  BY NatLessThanWellFounded DEF OpToRel
<1> HIDE DEF R
<1>3. \E x \in S : \A y \in S : ~ (<< y, x >> \in R)
  BY <1>2, WFMin
<1>4. PICK x \in S : \A y \in S : ~ (<< y, x >> \in R)
  BY <1>3
<1>5. \A y \in S : x <= y
  <2> SUFFICES ASSUME NEW y \in S PROVE x <= y
    OBVIOUS
  <2>1. ~(y < x)
    BY <1>1, <1>4
  <2> QED
    BY <2>1
<1> QED
  BY <1>5 DEF Min

\* Min of two numbers, whichever is the smaller.
LEMMA MinOfTwo ==
    ASSUME NEW a \in Int, NEW b \in Int
    PROVE  Min({a, b}) = IF a <= b THEN a ELSE b
<1>1. \E x \in {a, b} : \A y \in {a, b} : x <= y
  OBVIOUS
<1> QED
  BY <1>1 DEF Min

\* InsertAt puts an element before element i.
LEMMA InsertedAt ==
    ASSUME NEW B, NEW l \in Seq(B), NEW i \in 1 .. Len(l), NEW b \in B
    PROVE  /\ InsertAt(l, i, b) \in Seq(B)
           /\ Len(InsertAt(l, i, b)) = Len(l) + 1
           /\ \A j \in 1 .. (Len(l) + 1) : InsertAt(l, i, b)[j] =
                 IF j < i THEN l[j] ELSE IF j = i THEN b ELSE l[j - 1]
<1> DEFINE p == SubSeq(l, 1, i - 1)
           q == SubSeq(l, i, Len(l))
           o == p \o << b >>
<1>l. Len(l) \in Nat /\ \A j \in 1 .. Len(l) : l[j] \in B
  BY LenProperties, ElementOfSeq
<1>1. /\ p \in Seq(B) /\ Len(p) = i - 1
      /\ \A j \in 1 .. (i - 1) : p[j] = l[j]
  BY <1>l, SubSeqProperties
<1>2. /\ q \in Seq(B) /\ Len(q) = Len(l) - i + 1
      /\ \A j \in 1 .. (Len(l) - i + 1) : q[j] = l[i + j - 1]
  BY <1>l, SubSeqProperties
<1> HIDE DEF p, q
<1>b. << b >> \in Seq(B) /\ Len(<< b >>) = 1 /\ << b >>[1] = b
  OBVIOUS
<1>3. /\ o \in Seq(B) /\ Len(o) = i
      /\ \A j \in 1 .. i : o[j] = IF j <= i - 1 THEN p[j] ELSE << b >>[j - (i - 1)]
  BY <1>1, <1>b, ConcatProperties
<1> HIDE DEF o
<1>4. /\ o \o q \in Seq(B) /\ Len(o \o q) = Len(l) + 1
      /\ \A j \in 1 .. (Len(l) + 1) : (o \o q)[j] = IF j <= i THEN o[j] ELSE q[j - i]
  <2>1. /\ o \o q \in Seq(B) /\ Len(o \o q) = Len(o) + Len(q)
        /\ \A j \in 1 .. Len(o) + Len(q) : (o \o q)[j] = IF j <= Len(o) THEN o[j] ELSE q[j - Len(o)]
    BY <1>2, <1>3, ConcatProperties
  <2>2. Len(o) = i /\ Len(o) + Len(q) = Len(l) + 1
    BY <1>l, <1>2, <1>3
  <2> QED
    BY <2>1, <2>2
<1>5. InsertAt(l, i, b) = o \o q
  BY DEF InsertAt, o, p, q
<1>6. \A j \in 1 .. (Len(l) + 1) : j < i => (o \o q)[j] = l[j]
  BY <1>l, <1>1, <1>3, <1>4
<1>7. (o \o q)[i] = b
  BY <1>l, <1>b, <1>3, <1>4
<1>8. ASSUME NEW j \in 1 .. (Len(l) + 1), j > i PROVE (o \o q)[j] = l[j - 1]
  <2>1. (o \o q)[j] = q[j - i]
    BY <1>l, <1>4, <1>8
  <2>2. q[j - i] = l[i + (j - i) - 1]
    BY <1>l, <1>2, <1>8
  <2>3. i + (j - i) - 1 = j - 1
    OBVIOUS
  <2> QED
    BY <2>1, <2>2, <2>3
<1>9. \A j \in 1 .. (Len(l) + 1) : j < i \/ j = i \/ j > i
  BY <1>l
<1> QED
  BY <1>4, <1>5, <1>6, <1>7, <1>8, <1>9

\* RemoveAt closes the place of element i.
LEMMA RemovedAt ==
    ASSUME NEW B, NEW l \in Seq(B), NEW i \in 1 .. Len(l)
    PROVE  /\ RemoveAt(l, i) \in Seq(B)
           /\ Len(RemoveAt(l, i)) = Len(l) - 1
           /\ \A j \in 1 .. (Len(l) - 1) : RemoveAt(l, i)[j] = IF j < i THEN l[j] ELSE l[j + 1]
<1> DEFINE p == SubSeq(l, 1, i - 1)
           q == SubSeq(l, i + 1, Len(l))
<1>l. Len(l) \in Nat /\ \A j \in 1 .. Len(l) : l[j] \in B
  BY LenProperties, ElementOfSeq
<1>1. /\ p \in Seq(B) /\ Len(p) = i - 1
      /\ \A j \in 1 .. (i - 1) : p[j] = l[j]
  BY <1>l, SubSeqProperties
<1>2. /\ q \in Seq(B) /\ Len(q) = Len(l) - i
      /\ \A j \in 1 .. (Len(l) - i) : q[j] = l[i + j]
  BY <1>l, SubSeqProperties
<1> HIDE DEF p, q
<1>3. /\ p \o q \in Seq(B) /\ Len(p \o q) = Len(l) - 1
      /\ \A j \in 1 .. (Len(l) - 1) : (p \o q)[j] = IF j <= i - 1 THEN p[j] ELSE q[j - (i - 1)]
  <2>1. /\ p \o q \in Seq(B) /\ Len(p \o q) = Len(p) + Len(q)
        /\ \A j \in 1 .. Len(p) + Len(q) : (p \o q)[j] = IF j <= Len(p) THEN p[j] ELSE q[j - Len(p)]
    BY <1>1, <1>2, ConcatProperties
  <2>2. Len(p) = i - 1 /\ Len(p) + Len(q) = Len(l) - 1
    BY <1>l, <1>1, <1>2
  <2> QED
    BY <2>1, <2>2
<1>4. RemoveAt(l, i) = p \o q
  BY DEF RemoveAt, p, q
<1>5. \A j \in 1 .. (Len(l) - 1) : j < i => (p \o q)[j] = l[j]
  BY <1>l, <1>1, <1>3
<1>6. ASSUME NEW j \in 1 .. (Len(l) - 1), j >= i PROVE (p \o q)[j] = l[j + 1]
  <2>1. (p \o q)[j] = q[j - (i - 1)]
    BY <1>l, <1>3, <1>6
  <2>2. q[j - (i - 1)] = l[i + (j - (i - 1))]
    BY <1>l, <1>2, <1>6
  <2>3. i + (j - (i - 1)) = j + 1
    OBVIOUS
  <2> QED
    BY <2>1, <2>2, <2>3
<1>7. \A j \in 1 .. (Len(l) - 1) : j < i \/ j >= i
  BY <1>l
<1> QED
  BY <1>3, <1>4, <1>5, <1>6, <1>7

-----------------------------------------------------------------------------
(* What altusUBCheck leaves behind.                                        *)

\* A set of blocks that is closed under joining two blocks which meet.
Joinable(B) ==
    /\ B \subseteq [head : Int, tail : Int]
    /\ \A x, y \in B : x.tail = y.head => [head |-> x.head, tail |-> y.tail] \in B

\* The block is refused: altusUBCheck returns an error.
Fails(r) == r.code \in {"FULL", "MALICIOUS_INPUT"}

\* No sequence number comes after itself.
LEMMA NotAfterItself == \A a, b \in Int : After(a, b) => a # b
  BY SeqSpaceAssumption DEF After, Minus

\* What is true of every list that results from a list l of blocks of B: it is a
\* list of blocks of B again, within the limit, and untouched by a refusal.
Kept(B, l, r) ==
    /\ r.list \in Seq(B)
    /\ Len(l) <= MaxUB => Len(r.list) <= MaxUB
    /\ Fails(r) => r.list = l
    /\ ~Fails(r) => r.list # << >>

\* A block put before an entry.
LEMMA KeptByPutBefore ==
    ASSUME NEW B, Joinable(B), NEW l \in Seq(B), NEW i \in 1 .. Len(l), NEW b \in B
    PROVE  Kept(B, l, PutBefore(l, i, b))
<1> USE MaxUBAssumption DEF Kept, Fails, Result
<1>t. /\ l[i].head \in Int /\ b.tail \in Int /\ l[i] \in B
      /\ b.head \in Int /\ l[i] \in [head : Int, tail : Int]
  BY ElementOfSeq DEF Joinable
<1>l. Len(l) \in Nat
  BY LenProperties
<1>1. CASE After(l[i].head, b.tail) /\ Len(l) < MaxUB
  <2> DEFINE p == SubSeq(l, 1, i - 1)
             q == SubSeq(l, i, Len(l))
  <2>1. p \in Seq(B) /\ Len(p) = i - 1
    BY SubSeqProperties, LenProperties
  <2>2. q \in Seq(B) /\ Len(q) = Len(l) - i + 1
    BY SubSeqProperties, LenProperties
  <2> HIDE DEF p, q
  <2>3. p \o << b >> \in Seq(B) /\ Len(p \o << b >>) = i
    BY <2>1, ConcatProperties
  <2>4. (p \o << b >>) \o q \in Seq(B) /\ Len((p \o << b >>) \o q) = Len(l) + 1
    <3> DEFINE o == p \o << b >>
    <3> HIDE DEF o
    <3>1. o \in Seq(B) /\ Len(o) = i
      BY <2>3 DEF o
    <3>2. o \o q \in Seq(B) /\ Len(o \o q) = Len(o) + Len(q)
      BY <3>1, <2>2, ConcatProperties
    <3>3. Len(o) + Len(q) = Len(l) + 1
      BY <1>l, <3>1, <2>2
    <3> QED
      BY <3>2, <3>3 DEF o
  <2>5. PutBefore(l, i, b) = [code |-> "NEW_UB_ADDED", list |-> (p \o << b >>) \o q]
    BY <1>1, <1>t, NotAfterItself DEF PutBefore, InsertAt, p, q
  <2> QED
    BY <1>l, <1>1, <2>4, <2>5, EmptySeq
<1>2. CASE After(l[i].head, b.tail) /\ ~(Len(l) < MaxUB)
  <2>1. PutBefore(l, i, b) = Result("FULL", l)
    BY <1>2, <1>t, NotAfterItself DEF PutBefore
  <2> QED
    BY <2>1
<1>3. CASE ~After(l[i].head, b.tail) /\ b.tail = l[i].head
  <2> DEFINE e == [l[i] EXCEPT !.head = b.head]
  <2>1. e = [head |-> b.head, tail |-> l[i].tail]
    BY <1>t
  <2>2. e \in B
    BY <1>3, <2>1, <1>t DEF Joinable
  <2> HIDE DEF e
  <2>3. [l EXCEPT ![i] = e] \in Seq(B) /\ Len([l EXCEPT ![i] = e]) = Len(l)
    BY <2>2, ExceptSeq
  <2>4. PutBefore(l, i, b) = [code |-> "UB_EXTENDED", list |-> [l EXCEPT ![i] = e]]
    BY <1>3 DEF PutBefore, ReplaceAt, e
  <2> QED
    BY <2>3, <2>4, EmptySeq, LenProperties
<1>4. CASE ~After(l[i].head, b.tail) /\ b.tail # l[i].head
  BY <1>4 DEF PutBefore
<1> QED
  BY <1>1, <1>2, <1>3, <1>4

\* A block put behind an entry.
LEMMA KeptByPutBehind ==
    ASSUME NEW B, Joinable(B), NEW l \in Seq(B), NEW i \in 1 .. Len(l), NEW b \in B,
           b.head = l[i].tail
    PROVE  Kept(B, l, PutBehind(l, i, b))
<1> USE DEF Kept, Fails, Result
<1>l. Len(l) \in Nat
  BY LenProperties
<1>1. CASE i = Len(l) \/ After(l[i+1].head, b.tail)
  <2> DEFINE e == [l[i] EXCEPT !.tail = b.tail]
  <2>1. e = [head |-> l[i].head, tail |-> b.tail]
    BY ElementOfSeq DEF Joinable
  <2>2. e \in B
    BY <2>1, ElementOfSeq DEF Joinable
  <2> HIDE DEF e
  <2>3. [l EXCEPT ![i] = e] \in Seq(B) /\ Len([l EXCEPT ![i] = e]) = Len(l)
    BY <2>2, ExceptSeq
  <2>4. PutBehind(l, i, b) = [code |-> "UB_EXTENDED", list |-> [l EXCEPT ![i] = e]]
    BY <1>1 DEF PutBehind, ReplaceAt, e
  <2> QED
    BY <2>3, <2>4, EmptySeq, LenProperties
<1>2. CASE ~(i = Len(l) \/ After(l[i+1].head, b.tail)) /\ b.tail = l[i+1].head
  <2> DEFINE e == [l[i] EXCEPT !.tail = l[i+1].tail]
             t == [l EXCEPT ![i] = e]
             p == SubSeq(t, 1, i)
             q == SubSeq(t, i + 2, Len(t))
  <2>1. i + 1 \in 1 .. Len(l) /\ l[i] \in B /\ l[i+1] \in B
    BY <1>2, ElementOfSeq, LenProperties
  <2>2. [head |-> l[i].head, tail |-> b.tail] \in B
    BY <2>1 DEF Joinable
  <2>3. e = [head |-> l[i].head, tail |-> l[i+1].tail]
    <3>1. l[i] \in [head : Int, tail : Int]
      BY <2>1 DEF Joinable
    <3> QED
      BY <3>1
  <2>4. e \in B
    BY <1>2, <2>1, <2>2, <2>3 DEF Joinable
  <2> HIDE DEF e
  <2>5. t \in Seq(B) /\ Len(t) = Len(l)
    BY <2>4, ExceptSeq
  <2> HIDE DEF t
  <2>6. p \in Seq(B) /\ Len(p) = i
    BY <2>5, SubSeqProperties, LenProperties
  <2>7. q \in Seq(B) /\ Len(q) = Len(l) - i - 1
    BY <2>1, <2>5, SubSeqProperties, LenProperties
  <2>8. PutBehind(l, i, b) = [code |-> "UB_EXTENDED", list |-> p \o q]
    <3>1. (i + 1) - 1 = i /\ (i + 1) + 1 = i + 2
      BY <1>l
    <3>2. RemoveAt(t, i + 1) = p \o q
      BY <3>1 DEF RemoveAt
    <3> QED
      BY <1>2, <3>2 DEF PutBehind, ReplaceAt, e, t
  <2> HIDE DEF p, q
  <2>9. p \o q \in Seq(B) /\ Len(p \o q) = Len(l) - 1
    <3>1. p \o q \in Seq(B) /\ Len(p \o q) = Len(p) + Len(q)
      BY <2>6, <2>7, ConcatProperties
    <3>2. Len(p) + Len(q) = Len(l) - 1
      BY <1>l, <2>6, <2>7
    <3> QED
      BY <3>1, <3>2
  <2> QED
    BY <2>1, <2>8, <2>9, EmptySeq, LenProperties, MaxUBAssumption
<1>3. CASE ~(i = Len(l) \/ After(l[i+1].head, b.tail)) /\ b.tail # l[i+1].head
  BY <1>3 DEF PutBehind
<1> QED
  BY <1>1, <1>2, <1>3

\* altusUBCheck keeps every property of blocks that joining blocks keeps, never
\* exceeds ALTUS_MAX_UNSEQ_BLOCK_COUNT entries, and leaves the list as it was
\* when it returns an error.
THEOREM altusUBCheckKeeps ==
    ASSUME NEW B, Joinable(B), NEW l \in Seq(B), NEW seq \in Int, NEW length \in Int,
           [head |-> seq, tail |-> Plus(seq, length)] \in B
    PROVE  Kept(B, l, altusUBCheck(l, seq, length))
<1> DEFINE b == [head |-> seq, tail |-> Plus(seq, length)]
           stops == {i \in DOMAIN l : Stops(l, i, seq)}
           r == altusUBCheck(l, seq, length)
<1> HIDE DEF b
<1>b. b \in B /\ b.head = seq
  BY DEF b
<1>1. CASE l = << >>
  <2>1. r = Result("NEW_UB_ADDED", << b >>)
    BY <1>1 DEF altusUBCheck, b
  <2> QED
    BY <2>1, <1>b, <1>1, MaxUBAssumption DEF Kept, Fails, Result
<1>2. CASE l # << >> /\ stops = {}
  <2>1. r = Result("MALICIOUS_INPUT", l)
    BY <1>2 DEF altusUBCheck
  <2> QED
    BY <2>1 DEF Kept, Fails, Result
<1>3. CASE l # << >> /\ stops # {}
  <2> DEFINE i == Min(stops)
  <2>1. stops \subseteq 1 .. Len(l)
    BY LenProperties
  <2>2. i \in 1 .. Len(l)
    <3>1. stops \in SUBSET Nat
      BY <2>1
    <3> HIDE DEF stops
    <3> QED
      BY <1>3, <2>1, <3>1, MinOfNats
  <2>3. r = IF After(l[i].head, seq) THEN PutBefore(l, i, b)
            ELSE IF After(l[i].tail, seq) THEN Result("MALICIOUS_INPUT", l)
            ELSE IF seq = l[i].tail THEN PutBehind(l, i, b)
            ELSE PutLast(l, b)
    BY <1>3 DEF altusUBCheck, b
  <2> HIDE DEF i, r
  <2>4. Kept(B, l, PutBefore(l, i, b))
    BY <1>b, <2>2, KeptByPutBefore
  <2>5. seq = l[i].tail => Kept(B, l, PutBehind(l, i, b))
    BY <1>b, <2>2, KeptByPutBehind
  <2>6. Kept(B, l, PutLast(l, b))
    BY <1>b, AppendProperties, LenProperties, MaxUBAssumption DEF PutLast, Kept, Fails, Result
  <2>7. Kept(B, l, Result("MALICIOUS_INPUT", l))
    BY DEF Kept, Fails, Result
  <2> QED
    BY <2>3, <2>4, <2>5, <2>6, <2>7 DEF r
<1> QED
  BY <1>1, <1>2, <1>3
=============================================================================
