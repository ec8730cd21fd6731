------------------------ MODULE WindowedQueueLemmas ------------------------
(***************************************************************************)
(* The inductive invariant of the windowed queue, and what the functions   *)
(* of windowedqueue.c compute, said in stream positions: for any windows,  *)
(* nodes, sizes and blocks, across the wrap-round of the numbers.          *)
(***************************************************************************)
EXTENDS WindowedQueue, UBListProofs, FiniteSetTheorems

-----------------------------------------------------------------------------
(* The inductive invariant.                                                *)

\* The stream position a sequence number stands for, seen from position L.
Up(L, s) == L + Minus(s, L % SeqSpace)

\* Position p lies in a block of the list l.
Covered(l, L, p) ==
    \E i \in 1 .. Len(l) : Up(L, l[i].head) <= p /\ p < Up(L, l[i].tail)

\* the place of the node of position p in a window
Place(h, p) == 1 + (p \div NodeSize) - (h.read \div NodeSize)

\* where the next node begins
Border(L) == ((L \div NodeSize) + 1) * NodeSize

\* The numbers of a window agree with the positions of its reader and its end.
Numbers(W, h) ==
    /\ h.read <= h.last
    /\ W.lastSeq = h.last % SeqSpace
    /\ W.headDataOffset = h.read % NodeSize
    /\ W.safe = Place(h, h.last) /\ W.safe_len = W.safe
    /\ W.safe <= WindowSize

\* Nodes before safe_tail are full, safe_tail is filled up to lastSeq, when count
\* is validBlockCount.
Filled(W, h, count) ==
    /\ \A i \in 1 .. (W.safe - 1) : count[W.nodes[i]] = NodeSize
    /\ count[W.nodes[W.safe]] = h.last % NodeSize

\* blocks of a list: in order, with gaps between them
Apart(l, L) ==
    /\ \A i \in 1 .. Len(l) : Up(L, l[i].head) <= Up(L, l[i].tail)
    /\ \A i, j \in 1 .. Len(l) : i < j => Up(L, l[i].tail) < Up(L, l[j].head)

\* They lie ahead of lastSeq and within the window.
Listed(W, h) ==
    /\ Len(W.ub_list) <= MaxUB
    /\ Apart(W.ub_list, h.last)
    /\ \A i \in 1 .. Len(W.ub_list) :
          /\ h.last < Up(h.last, W.ub_list[i].head)
          /\ Place(h, Up(h.last, W.ub_list[i].tail)) <= WindowSize

\* The number of nodes.  Blocks begin in the node of safe_tail or at its end;
\* E is the end of the last block, and there is a node for every position up
\* to E and at most one more.
Fits(l, len, h, E, more) ==
    /\ h.last <= E
    /\ \A p \in Nat : Covered(l, h.last, p) => p < E
    /\ E = h.last \/ Covered(l, h.last, E - 1)
    /\ \A p, r \in Nat :
          Covered(l, h.last, p) /\ Border(h.last) <= r /\ r <= p => Covered(l, h.last, r)
    /\ len = Place(h, E) + more
    /\ Place(h, E) <= WindowSize
    /\ /\ Covered(l, h.last, Border(h.last))
       /\ ~Covered(l, h.last, Border(h.last) - 1)
       => more = 0

\* A window has the nodes its blocks need.
Sized(W, h) ==
    \E E \in Nat : \E more \in {0, 1} : Fits(W.ub_list, Len(W.nodes), h, E, more)

\* The window holds the byte at position p and has not handed it out.
Holds(W, h, p) == (h.read <= p /\ p < h.last) \/ Covered(W.ub_list, h.last, p)

\* Every byte is in its place, when data is what the nodes contain.
Bytes(W, h, data) ==
    \A p \in Nat : Holds(W, h, p) => data[W.nodes[Place(h, p)]][p % NodeSize] = p

\* What is true of a window W with history h.
SoundIn(W, h, count, data) ==
    /\ Numbers(W, h) /\ Listed(W, h) /\ Sized(W, h)
    /\ Filled(W, h, count) /\ Bytes(W, h, data)

\* What is true of it now.
Sound(W, h) == SoundIn(W, h, valid, mem)

\* All windows are sound.
WindowInv == \A w \in DOMAIN win : Sound(win[w], hist[w])

-----------------------------------------------------------------------------
(* Sizes, numbers and positions.                                           *)

\* SizesAssumption, NodesAssumption and SeqSpaceAssumption, for use in proofs.
LEMMA Sizes ==
    /\ NodeSize \in Nat \ {0} /\ WindowSize \in Nat \ {0}
    /\ MaxLen \in Nat /\ MaxPos \in Nat
    /\ Nodes \subseteq Nat /\ Nodes # {} /\ IsFiniteSet(Nodes)
    /\ Windows # {} /\ "pool" \notin Windows
    /\ SeqSpace \in Nat /\ SeqSpace > 2 /\ MaxUB \in Nat \ {0}
  BY SizesAssumption, NodesAssumption, SeqSpaceAssumption, MaxUBAssumption

\* half of the sequence space: After compares numbers at most so far apart
Half == SeqSpace \div 2

\* Half of the numbers are enough for a window and for a block.
LEMMA HalfFits ==
    /\ Half \in Nat \ {0} /\ SeqSpace = 2 * Half
    /\ WindowSize * NodeSize \in Nat /\ WindowSize * NodeSize <= Half
    /\ MaxLen <= Half
<1>1. Half \in Nat \ {0} /\ SeqSpace = 2 * Half
  BY SeqSpaceAssumption DEF Half
<1>2. WindowSize * NodeSize \in Nat
  BY Sizes
<1>3. 2 * WindowSize * NodeSize = 2 * (WindowSize * NodeSize)
  BY Sizes
<1> QED
  BY <1>1, <1>2, <1>3, SizesAssumption

\* A position is its node and its place in it.
LEMMA DivMod ==
    ASSUME NEW a \in Nat, NEW d \in Nat \ {0}
    PROVE  /\ a \div d \in Nat /\ a % d \in 0 .. (d - 1)
           /\ a = d * (a \div d) + (a % d)
  OBVIOUS

\* Division and remainder are determined by the sum.
LEMMA DivUnique ==
    ASSUME NEW q \in Nat, NEW d \in Nat \ {0}, NEW r \in 0 .. (d - 1)
    PROVE  (d * q + r) \div d = q /\ (d * q + r) % d = r
<1>1. d * q + r \in Nat
  OBVIOUS
<1> QED
  BY <1>1

\* Multiples keep the order.
LEMMA TimesMonotonic ==
    ASSUME NEW a \in Nat, NEW b \in Nat, NEW d \in Nat, a <= b
    PROVE  d * a <= d * b
  OBVIOUS

\* Division keeps the order.
LEMMA DivMonotonic ==
    ASSUME NEW a \in Nat, NEW b \in Nat, NEW d \in Nat \ {0}, a <= b
    PROVE  a \div d <= b \div d
<1>1. /\ a \div d \in Nat /\ b \div d \in Nat
      /\ a = d * (a \div d) + (a % d) /\ a % d \in 0 .. (d - 1)
      /\ b = d * (b \div d) + (b % d) /\ b % d \in 0 .. (d - 1)
  BY DivMod
<1> SUFFICES ASSUME (b \div d) + 1 <= a \div d PROVE FALSE
  BY <1>1
<1>2. d * ((b \div d) + 1) <= d * (a \div d)
  BY <1>1, TimesMonotonic
<1>3. d * ((b \div d) + 1) = d * (b \div d) + d
  BY <1>1
<1> QED
  BY <1>1, <1>2, <1>3

\* The number of a position ahead of L stands for that position.
LEMMA UpOfNumber ==
    ASSUME NEW L \in Nat, NEW p \in Nat, L <= p, p < L + SeqSpace
    PROVE  p % SeqSpace \in Seqs /\ Up(L, p % SeqSpace) = p
<1> DEFINE S == SeqSpace
           a == p \div S
           b == L \div S
           r == p % S
           c == L % S
<1>s. S \in Nat \ {0}
  BY Sizes
<1>1. /\ a \in Nat /\ r \in 0 .. (S - 1) /\ p = S * a + r
      /\ b \in Nat /\ c \in 0 .. (S - 1) /\ L = S * b + c
  BY <1>s, DivMod
<1>2. b <= a
  BY <1>s, DivMonotonic
<1> HIDE DEF S, a, b, r, c
<1>3. a <= b + 1
  <2> SUFFICES ASSUME b + 2 <= a PROVE FALSE
    BY <1>1
  <2>1. S * (b + 2) <= S * a
    BY <1>1, <1>s, TimesMonotonic
  <2>2. S * (b + 2) = S * b + 2 * S /\ S * b \in Nat /\ S * a \in Nat
    BY <1>1, <1>s
  <2>3. p < L + S
    BY DEF S
  <2> QED
    BY <1>1, <1>s, <2>1, <2>2, <2>3
<1>4. (r - c) % S = p - L
  <2>1. CASE a = b
    BY <1>1, <1>s, <2>1
  <2>2. CASE a = b + 1
    <3>1. S * a = S * b + S /\ S * b \in Nat
      BY <1>1, <1>s, <2>2
    <3>2. r - c = p - L - S /\ p < L + S
      BY <1>1, <1>s, <3>1 DEF S
    <3>3. (r - c) % S = r - c + S
      BY <1>1, <1>s, <3>2
    <3> QED
      BY <1>1, <1>s, <3>2, <3>3
  <2> QED
    BY <1>1, <1>2, <1>3, <2>1, <2>2
<1> QED
  BY <1>1, <1>4 DEF Up, Minus, Seqs, S, r, c

\* Up is a position less than SeqSpace ahead.
LEMMA UpRange ==
    ASSUME NEW L \in Nat, NEW s \in Seqs
    PROVE  /\ Up(L, s) \in Nat /\ L <= Up(L, s) /\ Up(L, s) < L + SeqSpace
           /\ L % SeqSpace \in Seqs
           /\ \/ Up(L, s) = L + s - (L % SeqSpace)
              \/ Up(L, s) = L + s - (L % SeqSpace) + SeqSpace
<1>1. L % SeqSpace \in 0 .. (SeqSpace - 1)
  BY Sizes, DivMod
<1>2. PICK c : c = L % SeqSpace
  OBVIOUS
<1>3. c \in 0 .. (SeqSpace - 1) /\ s \in 0 .. (SeqSpace - 1)
  BY <1>1, <1>2 DEF Seqs
<1>4. CASE s >= c
  <2>1. (s - c) % SeqSpace = s - c
    BY <1>3, <1>4, Sizes
  <2> QED
    BY <1>1, <1>2, <1>3, <1>4, <2>1, Sizes DEF Up, Minus, Seqs
<1>5. CASE s < c
  <2>1. (s - c) % SeqSpace = s - c + SeqSpace
    BY <1>3, <1>5, Sizes
  <2> QED
    BY <1>1, <1>2, <1>3, <1>5, <2>1, Sizes DEF Up, Minus, Seqs
<1> QED
  BY <1>3, <1>4, <1>5

\* Within half of the numbers After is the order of the positions.
LEMMA UpOrder ==
    ASSUME NEW L \in Nat, NEW s \in Seqs, NEW t \in Seqs,
           Up(L, s) < L + Half, Up(L, t) < L + Half
    PROVE  /\ After(s, t) <=> Up(L, s) > Up(L, t)
           /\ s = t <=> Up(L, s) = Up(L, t)
           /\ Up(L, t) <= Up(L, s) => Minus(s, t) = Up(L, s) - Up(L, t)
<1>1. PICK c, x, y : c = L % SeqSpace /\ x = Up(L, s) /\ y = Up(L, t)
  OBVIOUS
<1>2. /\ x \in Nat /\ y \in Nat /\ L <= x /\ L <= y /\ c \in 0 .. (SeqSpace - 1)
      /\ x = L + s - c \/ x = L + s - c + SeqSpace
      /\ y = L + t - c \/ y = L + t - c + SeqSpace
      /\ s \in 0 .. (SeqSpace - 1) /\ t \in 0 .. (SeqSpace - 1)
  BY <1>1, UpRange DEF Seqs
<1>3. x < L + Half /\ y < L + Half /\ SeqSpace = 2 * Half /\ Half \in Nat \ {0}
  BY <1>1, HalfFits
<1>4. s - t = x - y \/ s - t = x - y + SeqSpace \/ s - t = x - y - SeqSpace
  BY <1>2, <1>3
<1>5. CASE x >= y
  <2>1. (s - t) % SeqSpace = x - y
    <3>1. CASE s - t = x - y
      BY <1>2, <1>3, <1>5, <3>1
    <3>2. CASE s - t = x - y - SeqSpace
      BY <1>2, <1>3, <1>5, <3>2
    <3>3. CASE s - t = x - y + SeqSpace
      BY <1>2, <1>3, <1>5, <3>3
    <3> QED
      BY <1>4, <3>1, <3>2, <3>3
  <2>2. Minus(s, t) = x - y
    BY <2>1 DEF Minus
  <2>3. After(s, t) <=> x - y \in 1 .. (Half - 1)
    BY <2>2 DEF After, Half
  <2>4. After(s, t) <=> x > y
    BY <1>2, <1>3, <1>5, <2>3
  <2>5. s = t <=> x = y
    BY <1>2, <1>3, <1>4, <1>5
  <2> QED
    BY <1>1, <2>2, <2>4, <2>5
<1>6. CASE x < y
  <2>1. (s - t) % SeqSpace = x - y + SeqSpace
    <3>1. CASE s - t = x - y
      BY <1>2, <1>3, <1>6, <3>1
    <3>2. CASE s - t = x - y - SeqSpace
      BY <1>2, <1>3, <1>6, <3>2
    <3>3. CASE s - t = x - y + SeqSpace
      BY <1>2, <1>3, <1>6, <3>3
    <3> QED
      BY <1>4, <3>1, <3>2, <3>3
  <2>2. Minus(s, t) = x - y + SeqSpace
    BY <2>1 DEF Minus
  <2>3. After(s, t) <=> x - y + SeqSpace \in 1 .. (Half - 1)
    BY <2>2 DEF After, Half
  <2>4. ~After(s, t)
    BY <1>2, <1>3, <1>6, <2>3
  <2>5. s # t
    BY <1>2, <1>3, <1>4, <1>6
  <2> QED
    BY <1>1, <1>2, <1>6, <2>4, <2>5
<1> QED
  BY <1>2, <1>5, <1>6

-----------------------------------------------------------------------------
(* A block is put into the list.                                           *)

\* The list m is the list l with the block from pos to e: no byte of the block
\* was there before, ends of blocks are old ones or ends of the new block.
Spliced(l, L, pos, e, m) ==
    /\ Apart(m, L)
    /\ \A p \in Nat : Covered(m, L, p) <=> Covered(l, L, p) \/ (pos <= p /\ p < e)
    /\ \A p \in Nat : pos <= p /\ p < e => ~Covered(l, L, p)
    /\ \A k \in 1 .. Len(m) :
          /\ \/ Up(L, m[k].head) = pos
             \/ \E j \in 1 .. Len(l) : Up(L, m[k].head) = Up(L, l[j].head)
          /\ \/ Up(L, m[k].tail) = e
             \/ \E j \in 1 .. Len(l) : Up(L, m[k].tail) = Up(L, l[j].tail)
    /\ Len(m) >= 1 /\ Up(L, m[1].head) <= pos

\* The ends of the blocks of a list are numbers and stand for positions.
LEMMA BlockPositions ==
    ASSUME NEW L \in Nat, NEW l \in Seq(Block), NEW j \in 1 .. Len(l)
    PROVE  /\ l[j] \in Block /\ l[j].head \in Seqs /\ l[j].tail \in Seqs
           /\ Up(L, l[j].head) \in Nat /\ L <= Up(L, l[j].head)
           /\ Up(L, l[j].tail) \in Nat /\ L <= Up(L, l[j].tail)
<1>1. l[j] \in Block
  BY ElementOfSeq
<1>2. l[j].head \in Seqs /\ l[j].tail \in Seqs
  BY <1>1 DEF Block
<1> QED
  BY <1>1, <1>2, UpRange

\* The first a blocks are kept, block x takes the place of those up to number
\* c - 1, which it covers together with the new bytes, and the others follow.
Replaces(l, L, pos, e, m, a, c, x) ==
    /\ a \in 0 .. Len(l) /\ c \in Nat /\ a < c /\ c <= Len(l) + 1
    /\ Len(m) = Len(l) + a + 2 - c
    /\ \A k \in 1 .. Len(m) :
          m[k] = IF k <= a THEN l[k] ELSE IF k = a + 1 THEN x ELSE l[k + c - a - 2]
    /\ \A j \in 1 .. a : Up(L, l[j].tail) < Up(L, x.head)
    /\ \A j \in c .. Len(l) : Up(L, x.tail) < Up(L, l[j].head)
    /\ Up(L, x.head) <= pos /\ e <= Up(L, x.tail)
    /\ \A p \in Nat : (Up(L, x.head) <= p /\ p < Up(L, x.tail)) <=>
          \/ pos <= p /\ p < e
          \/ \E j \in (a + 1) .. (c - 1) : Up(L, l[j].head) <= p /\ p < Up(L, l[j].tail)
    /\ \A j \in (a + 1) .. (c - 1) : Up(L, l[j].tail) <= pos \/ e <= Up(L, l[j].head)
    /\ Up(L, x.head) = pos \/ \E j \in 1 .. Len(l) : Up(L, x.head) = Up(L, l[j].head)
    /\ Up(L, x.tail) = e \/ \E j \in 1 .. Len(l) : Up(L, x.tail) = Up(L, l[j].tail)

\* A list that Replaces blocks is the list with the new block.
LEMMA Splice ==
    ASSUME NEW L \in Nat, NEW l \in Seq(Block), NEW m \in Seq(Block), Apart(l, L),
           NEW pos \in Nat, NEW e \in Nat, pos <= e, NEW a \in Nat, NEW c \in Nat, NEW x \in Block,
           Replaces(l, L, pos, e, m, a, c, x)
    PROVE  Spliced(l, L, pos, e, m)
<1> DEFINE H(j) == Up(L, l[j].head)
           T(j) == Up(L, l[j].tail)
           G(k) == Up(L, m[k].head)
           U(k) == Up(L, m[k].tail)
           hx == Up(L, x.head)
           tx == Up(L, x.tail)
<1>l. /\ Len(l) \in Nat /\ Len(m) \in Nat /\ Len(m) = Len(l) + a + 2 - c
      /\ a \in 0 .. Len(l) /\ c \in Nat /\ a < c /\ c <= Len(l) + 1
  BY LenProperties DEF Replaces
<1>1. \A j \in 1 .. Len(l) : H(j) \in Nat /\ T(j) \in Nat
  BY BlockPositions
<1>2. hx \in Nat /\ tx \in Nat
  BY UpRange DEF Block
<1>3. \A k \in 1 .. Len(m) :
        /\ k <= a => G(k) = H(k) /\ U(k) = T(k)
        /\ k = a + 1 => G(k) = hx /\ U(k) = tx
        /\ k > a + 1 => G(k) = H(k + c - a - 2) /\ U(k) = T(k + c - a - 2)
  BY <1>l, SMTT(40) DEF Replaces
<1>4. \A j \in 1 .. Len(l) : H(j) <= T(j)
  BY DEF Apart
<1>5. \A i, j \in 1 .. Len(l) : i < j => T(i) < H(j)
  BY DEF Apart
<1>6. /\ \A j \in 1 .. a : T(j) < hx
      /\ \A j \in c .. Len(l) : tx < H(j)
      /\ hx <= pos /\ e <= tx
      /\ \A j \in (a + 1) .. (c - 1) : T(j) <= pos \/ e <= H(j)
      /\ hx = pos \/ \E j \in 1 .. Len(l) : hx = H(j)
      /\ tx = e \/ \E j \in 1 .. Len(l) : tx = T(j)
      /\ \A p \in Nat : (hx <= p /\ p < tx) <=>
              \/ pos <= p /\ p < e
              \/ \E j \in (a + 1) .. (c - 1) : H(j) <= p /\ p < T(j)
  BY DEF Replaces
<1>c. \A p : /\ Covered(l, L, p) <=> \E i \in 1 .. Len(l) : H(i) <= p /\ p < T(i)
             /\ Covered(m, L, p) <=> \E k \in 1 .. Len(m) : G(k) <= p /\ p < U(k)
  BY DEF Covered
<1>d. /\ Apart(m, L) <=> /\ \A k \in 1 .. Len(m) : G(k) <= U(k)
                         /\ \A i, k \in 1 .. Len(m) : i < k => U(i) < G(k)
  BY DEF Apart
<1>e. Spliced(l, L, pos, e, m) <=>
        /\ Apart(m, L)
        /\ \A p \in Nat : Covered(m, L, p) <=> Covered(l, L, p) \/ (pos <= p /\ p < e)
        /\ \A p \in Nat : pos <= p /\ p < e => ~Covered(l, L, p)
        /\ \A k \in 1 .. Len(m) : G(k) = pos \/ \E j \in 1 .. Len(l) : G(k) = H(j)
        /\ \A k \in 1 .. Len(m) : U(k) = e \/ \E j \in 1 .. Len(l) : U(k) = T(j)
        /\ Len(m) >= 1 /\ G(1) <= pos
  BY DEF Spliced
<1> HIDE DEF H, T, G, U, hx, tx
<1>a. Apart(m, L)
  <2>1. ASSUME NEW k \in 1 .. Len(m) PROVE G(k) <= U(k)
    <3>1. CASE k <= a
      <4>1. k \in 1 .. Len(l)
        BY <1>l, <3>1
      <4> QED
        BY <1>3, <1>4, <2>1, <3>1, <4>1
    <3>2. CASE k = a + 1
      BY <1>2, <1>3, <1>6, <2>1, <3>2
    <3>3. CASE k > a + 1
      <4>1. k + c - a - 2 \in 1 .. Len(l)
        BY <1>l, <2>1, <3>3
      <4> QED
        BY <1>3, <1>4, <2>1, <3>3, <4>1
    <3> QED
      BY <1>l, <2>1, <3>1, <3>2, <3>3
  <2>2. ASSUME NEW i \in 1 .. Len(m), NEW k \in 1 .. Len(m), i < k PROVE U(i) < G(k)
    <3>1. CASE i <= a /\ k <= a
      <4>1. i \in 1 .. Len(l) /\ k \in 1 .. Len(l)
        BY <1>l, <3>1
      <4> QED
        BY <1>3, <1>5, <2>2, <3>1, <4>1
    <3>2. CASE i <= a /\ k = a + 1
      BY <1>l, <1>3, <1>6, <2>2, <3>2
    <3>3. CASE i <= a /\ k > a + 1
      <4>1. /\ i \in 1 .. Len(l) /\ k + c - a - 2 \in 1 .. Len(l)
            /\ i < k + c - a - 2
        BY <1>l, <3>3
      <4> QED
        BY <1>3, <1>5, <3>3, <4>1
    <3>4. CASE i = a + 1
      <4>1. k + c - a - 2 \in c .. Len(l)
        BY <1>l, <2>2, <3>4
      <4> QED
        BY <1>3, <1>6, <2>2, <3>4, <4>1
    <3>5. CASE i > a + 1
      <4>1. /\ i + c - a - 2 \in 1 .. Len(l) /\ k + c - a - 2 \in 1 .. Len(l)
            /\ i + c - a - 2 < k + c - a - 2 /\ k > a + 1
        BY <1>l, <2>2, <3>5
      <4> QED
        BY <1>3, <1>5, <3>5, <4>1
    <3> QED
      BY <3>1, <3>2, <3>3, <3>4, <3>5
  <2> QED
    BY <1>d, <2>1, <2>2
<1>b. ASSUME NEW p \in Nat PROVE Covered(m, L, p) <=> Covered(l, L, p) \/ (pos <= p /\ p < e)
  <2>1. ASSUME NEW k \in 1 .. Len(m), G(k) <= p, p < U(k)
        PROVE  Covered(l, L, p) \/ (pos <= p /\ p < e)
    <3>1. CASE k <= a
      <4>1. k \in 1 .. Len(l)
        BY <1>l, <3>1
      <4> QED
        BY <1>3, <1>c, <2>1, <3>1, <4>1
    <3>2. CASE k = a + 1
      <4>1. hx <= p /\ p < tx
        BY <1>3, <2>1, <3>2
      <4>2. (a + 1) .. (c - 1) \subseteq 1 .. Len(l)
        BY <1>l
      <4> QED
        BY <1>6, <1>c, <4>1, <4>2
    <3>3. CASE k > a + 1
      <4>1. k + c - a - 2 \in 1 .. Len(l)
        BY <1>l, <3>3
      <4> QED
        BY <1>3, <1>c, <2>1, <3>3, <4>1
    <3> QED
      BY <1>l, <3>1, <3>2, <3>3
  <2>x. ASSUME hx <= p, p < tx PROVE Covered(m, L, p)
    <3>1. a + 1 \in 1 .. Len(m)
      BY <1>l
    <3> QED
      BY <1>3, <1>c, <2>x, <3>1
  <2>2. ASSUME NEW j \in 1 .. Len(l), H(j) <= p, p < T(j) PROVE Covered(m, L, p)
    <3>1. CASE j <= a
      <4>1. j \in 1 .. Len(m)
        BY <1>l, <3>1
      <4> QED
        BY <1>3, <1>c, <2>2, <3>1, <4>1
    <3>2. CASE j >= c
      <4>1. j - c + a + 2 \in 1 .. Len(m) /\ j - c + a + 2 > a + 1
        BY <1>l, <3>2
      <4>2. (j - c + a + 2) + c - a - 2 = j
        OBVIOUS
      <4>3. G(j - c + a + 2) = H(j) /\ U(j - c + a + 2) = T(j)
        BY <1>3, <4>1, <4>2
      <4> QED
        BY <1>c, <2>2, <4>1, <4>3
    <3>3. CASE j > a /\ j < c
      <4>1. j \in (a + 1) .. (c - 1)
        BY <3>3
      <4> QED
        BY <1>6, <2>2, <2>x, <4>1
    <3> QED
      BY <3>1, <3>2, <3>3
  <2> QED
    BY <1>6, <1>c, <2>1, <2>x, <2>2
<1>f. ASSUME NEW p \in Nat, pos <= p, p < e PROVE ~Covered(l, L, p)
  <2> SUFFICES ASSUME NEW j \in 1 .. Len(l), H(j) <= p, p < T(j) PROVE FALSE
    BY <1>c
  <2>1. CASE j <= a
    BY <1>1, <1>2, <1>6, <1>f, <2>1
  <2>2. CASE j >= c
    <3>1. j \in c .. Len(l)
      BY <2>2
    <3> QED
      BY <1>1, <1>2, <1>6, <1>f, <3>1
  <2>3. CASE j > a /\ j < c
    <3>1. j \in (a + 1) .. (c - 1)
      BY <2>3
    <3>2. T(j) <= pos \/ e <= H(j)
      BY <1>6, <3>1
    <3>3. H(j) \in Nat /\ T(j) \in Nat
      BY <1>1
    <3> QED
      BY <1>f, <3>2, <3>3
  <2> QED
    BY <2>1, <2>2, <2>3
<1>g. ASSUME NEW k \in 1 .. Len(m)
      PROVE  /\ G(k) = pos \/ \E j \in 1 .. Len(l) : G(k) = H(j)
             /\ U(k) = e \/ \E j \in 1 .. Len(l) : U(k) = T(j)
  <2>1. CASE k <= a
    BY <1>l, <1>3, <2>1
  <2>2. CASE k = a + 1
    BY <1>3, <1>6, <2>2
  <2>3. CASE k > a + 1
    <3>1. k + c - a - 2 \in 1 .. Len(l)
      BY <1>l, <2>3
    <3> QED
      BY <1>3, <2>3, <3>1
  <2> QED
    BY <1>l, <2>1, <2>2, <2>3
<1>h. Len(m) >= 1 /\ G(1) <= pos
  <2>1. 1 \in 1 .. Len(m)
    BY <1>l
  <2>2. CASE a = 0
    BY <1>3, <1>6, <2>1, <2>2
  <2>3. CASE a >= 1
    <3>1. 1 \in 1 .. a /\ 1 \in 1 .. Len(l)
      BY <1>l, <2>3
    <3>2. G(1) = H(1) /\ H(1) <= T(1) /\ T(1) < hx /\ H(1) \in Nat /\ T(1) \in Nat
      BY <1>1, <1>3, <1>4, <1>6, <2>1, <2>3, <3>1
    <3> QED
      BY <1>2, <1>6, <2>1, <3>2
  <2> QED
    BY <1>l, <2>1, <2>2, <2>3
<1> QED
  BY <1>a, <1>b, <1>e, <1>f, <1>g, <1>h

\* What PutBefore does, when it does not fail, to a block that begins before
\* entry i and behind the entries before it.
LEMMA BeforeSplices ==
    ASSUME NEW L \in Nat, NEW l \in Seq(Block), Apart(l, L), NEW b \in Block,
           \A j \in 1 .. Len(l) : Up(L, l[j].head) < L + Half,
           Up(L, b.head) <= Up(L, b.tail), Up(L, b.tail) < L + Half,
           NEW i \in 1 .. Len(l), Up(L, b.head) < Up(L, l[i].head),
           \A j \in 1 .. (i - 1) : Up(L, l[j].tail) < Up(L, b.head),
           ~Fails(PutBefore(l, i, b))
    PROVE  Spliced(l, L, Up(L, b.head), Up(L, b.tail), PutBefore(l, i, b).list)
<1> DEFINE H(j) == Up(L, l[j].head)
           T(j) == Up(L, l[j].tail)
           pos == Up(L, b.head)
           e == Up(L, b.tail)
<1>l. Len(l) \in Nat
  BY LenProperties
<1>1. \A j \in 1 .. Len(l) : H(j) \in Nat /\ T(j) \in Nat /\ l[j] \in Block
  BY BlockPositions
<1>2. pos \in Nat /\ e \in Nat /\ b.head \in Seqs /\ b.tail \in Seqs
  BY UpRange DEF Block
<1>3. /\ \A j \in 1 .. Len(l) : H(j) <= T(j)
      /\ \A j, k \in 1 .. Len(l) : j < k => T(j) < H(k)
  BY DEF Apart
<1>4. /\ After(l[i].head, b.tail) <=> H(i) > e
      /\ l[i].head = b.tail <=> H(i) = e
  BY <1>2, BlockPositions, UpOrder
<1>5. \A j \in (i + 1) .. Len(l) : H(i) < H(j)
  <2> SUFFICES ASSUME NEW j \in (i + 1) .. Len(l) PROVE H(i) < H(j)
    OBVIOUS
  <2>1. j \in 1 .. Len(l) /\ i < j
    BY <1>l
  <2>2. H(i) <= T(i) /\ T(i) < H(j)
    BY <1>3, <2>1
  <2>3. H(i) \in Nat /\ T(i) \in Nat /\ H(j) \in Nat
    BY <1>1, <2>1
  <2> QED
    BY <2>2, <2>3
<1>6. CASE H(i) > e
  <2> DEFINE m == InsertAt(l, i, b)
  <2>1. PutBefore(l, i, b).list = m
    BY <1>4, <1>6, <1>2 DEF PutBefore, Result, Fails
  <2>2. /\ m \in Seq(Block) /\ Len(m) = Len(l) + 1
        /\ \A j \in 1 .. (Len(l) + 1) : m[j] =
              IF j < i THEN l[j] ELSE IF j = i THEN b ELSE l[j - 1]
    <3> HIDE DEF m
    <3>1. \A B : \A q \in Seq(B), y \in B : \A k \in 1 .. Len(q) :
            /\ InsertAt(q, k, y) \in Seq(B) /\ Len(InsertAt(q, k, y)) = Len(q) + 1
            /\ \A j \in 1 .. (Len(q) + 1) : InsertAt(q, k, y)[j] =
                  IF j < k THEN q[j] ELSE IF j = k THEN y ELSE q[j - 1]
      BY InsertedAt
    <3> QED
      BY <3>1 DEF m
  <2> HIDE DEF m
  <2>3. /\ i - 1 \in 0 .. Len(l) /\ i \in Nat /\ i - 1 < i /\ i <= Len(l) + 1
        /\ Len(m) = Len(l) + (i - 1) + 2 - i
    BY <1>l, <2>2
  <2>4. \A k \in 1 .. Len(m) : m[k] = IF k <= i - 1 THEN l[k] ELSE IF k = (i - 1) + 1 THEN b
                                      ELSE l[k + i - (i - 1) - 2]
    <3> SUFFICES ASSUME NEW k \in 1 .. Len(m)
                 PROVE  m[k] = IF k <= i - 1 THEN l[k] ELSE IF k = (i - 1) + 1 THEN b
                               ELSE l[k + i - (i - 1) - 2]
      OBVIOUS
    <3>1. k + i - (i - 1) - 2 = k - 1 /\ (k <= i - 1 <=> k < i) /\ (i - 1) + 1 = i
      BY <1>l, <2>2
    <3>2. k \in 1 .. (Len(l) + 1)
      BY <2>2
    <3> QED
      BY <2>2, <3>1, <3>2
  <2>5. \A j \in i .. Len(l) : e < H(j)
    BY <1>l, <1>1, <1>2, <1>5, <1>6
  <2>6. ((i - 1) + 1) .. (i - 1) = {}
    BY <1>l
  <2>7. Replaces(l, L, pos, e, m, i - 1, i, b)
    BY <1>2, <2>3, <2>4, <2>5, <2>6 DEF Replaces
  <2> QED
    BY <1>2, <2>1, <2>2, <2>3, <2>7, Splice
<1>7. CASE H(i) = e
  <2> DEFINE x == [l[i] EXCEPT !.head = b.head]
             m == [l EXCEPT ![i] = x]
  <2>1. x \in Block /\ x.head = b.head /\ x.tail = l[i].tail
    BY <1>1, <1>2 DEF Block
  <2>2. PutBefore(l, i, b).list = m
    BY <1>4, <1>7, <1>2, <1>1 DEF PutBefore, Result, ReplaceAt
  <2> HIDE DEF x
  <2>3. /\ m \in Seq(Block) /\ Len(m) = Len(l)
        /\ \A j \in 1 .. Len(l) : m[j] = IF j = i THEN x ELSE l[j]
    BY <2>1, ExceptSeq
  <2> HIDE DEF m
  <2>4. /\ i - 1 \in 0 .. Len(l) /\ i + 1 \in Nat /\ i - 1 < i + 1 /\ i + 1 <= Len(l) + 1
        /\ Len(m) = Len(l) + (i - 1) + 2 - (i + 1)
    BY <1>l, <2>3
  <2>5. \A k \in 1 .. Len(m) : m[k] = IF k <= i - 1 THEN l[k] ELSE IF k = (i - 1) + 1 THEN x
                                      ELSE l[k + (i + 1) - (i - 1) - 2]
    <3> SUFFICES ASSUME NEW k \in 1 .. Len(m)
                 PROVE  m[k] = IF k <= i - 1 THEN l[k] ELSE IF k = (i - 1) + 1 THEN x
                               ELSE l[k + (i + 1) - (i - 1) - 2]
      OBVIOUS
    <3>1. k + (i + 1) - (i - 1) - 2 = k /\ (k <= i - 1 => k # i) /\ (i - 1) + 1 = i
      BY <1>l, <2>3
    <3> QED
      BY <2>3, <3>1
  <2>6. Up(L, x.head) = pos /\ Up(L, x.tail) = T(i)
    BY <2>1
  <2>7. \A j \in (i + 1) .. Len(l) : Up(L, x.tail) < H(j)
    BY <1>l, <1>3, <2>6
  <2>8. ((i - 1) + 1) .. ((i + 1) - 1) = {i}
    BY <1>l
  <2>9. \A p \in Nat : (Up(L, x.head) <= p /\ p < Up(L, x.tail)) <=>
          \/ pos <= p /\ p < e
          \/ \E j \in ((i - 1) + 1) .. ((i + 1) - 1) : H(j) <= p /\ p < T(j)
    BY <1>1, <1>2, <1>3, <1>7, <2>6, <2>8
  <2>10. \A j \in ((i - 1) + 1) .. ((i + 1) - 1) : T(j) <= pos \/ e <= H(j)
    BY <1>7, <1>1, <1>2, <2>8
  <2>11. e <= Up(L, x.tail)
    BY <1>3, <1>7, <2>6
  <2>12. \A j \in 1 .. (i - 1) : Up(L, l[j].tail) < Up(L, x.head)
    BY <2>6
  <2>13. Up(L, x.head) <= pos
    BY <1>2, <2>6
  <2>14. Replaces(l, L, pos, e, m, i - 1, i + 1, x)
    BY <2>4, <2>5, <2>6, <2>7, <2>9, <2>10, <2>11, <2>12, <2>13 DEF Replaces
  <2>15. Spliced(l, L, pos, e, m)
    <3>1. i - 1 \in Nat /\ i + 1 \in Nat /\ x \in Block /\ m \in Seq(Block)
      BY <1>l, <2>1, <2>3
    <3>2. L \in Nat /\ l \in Seq(Block) /\ Apart(l, L) /\ pos \in Nat /\ e \in Nat /\ pos <= e
      BY <1>2
    <3> QED
      BY ONLY <2>14, <3>1, <3>2, Splice
  <2> QED
    BY <2>2, <2>3, <2>15
<1>8. CASE H(i) < e
  <2>1. PutBefore(l, i, b) = Result("MALICIOUS_INPUT", l)
    BY <1>1, <1>2, <1>4, <1>8 DEF PutBefore
  <2> QED
    BY <2>1 DEF Fails, Result
<1> QED
  BY <1>1, <1>2, <1>6, <1>7, <1>8

\* What PutBehind does, when it does not fail, to a block that begins where
\* entry i ends.
LEMMA BehindSplices ==
    ASSUME NEW L \in Nat, NEW l \in Seq(Block), Apart(l, L), NEW b \in Block,
           \A j \in 1 .. Len(l) : Up(L, l[j].head) < L + Half,
           Up(L, b.head) <= Up(L, b.tail), Up(L, b.tail) < L + Half,
           NEW i \in 1 .. Len(l), Up(L, b.head) = Up(L, l[i].tail),
           ~Fails(PutBehind(l, i, b))
    PROVE  Spliced(l, L, Up(L, b.head), Up(L, b.tail), PutBehind(l, i, b).list)
<1> DEFINE H(j) == Up(L, l[j].head)
           T(j) == Up(L, l[j].tail)
           pos == Up(L, b.head)
           e == Up(L, b.tail)
<1>l. Len(l) \in Nat
  BY LenProperties
<1>1. \A j \in 1 .. Len(l) : H(j) \in Nat /\ T(j) \in Nat /\ l[j] \in Block
  BY BlockPositions
<1>2. pos \in Nat /\ e \in Nat /\ b.head \in Seqs /\ b.tail \in Seqs
  BY UpRange DEF Block
<1>3. /\ \A j \in 1 .. Len(l) : H(j) <= T(j)
      /\ \A j, k \in 1 .. Len(l) : j < k => T(j) < H(k)
  BY DEF Apart
<1>4. i + 1 \in 1 .. Len(l) => /\ After(l[i+1].head, b.tail) <=> H(i+1) > e
                               /\ l[i+1].head = b.tail <=> H(i+1) = e
  <2> SUFFICES ASSUME i + 1 \in 1 .. Len(l)
               PROVE  /\ After(l[i+1].head, b.tail) <=> H(i+1) > e
                      /\ l[i+1].head = b.tail <=> H(i+1) = e
    OBVIOUS
  <2>1. l[i+1].head \in Seqs /\ H(i+1) < L + Half
    BY BlockPositions
  <2> QED
    BY <1>2, <2>1, UpOrder
<1>5. \A j \in 1 .. (i - 1) : T(j) < H(i)
  <2> SUFFICES ASSUME NEW j \in 1 .. (i - 1) PROVE T(j) < H(i)
    OBVIOUS
  <2>1. j \in 1 .. Len(l) /\ j < i
    BY <1>l
  <2> QED
    BY <1>3, <2>1
<1>6. CASE i = Len(l) \/ H(i+1) > e
  <2> DEFINE x == [l[i] EXCEPT !.tail = b.tail]
             m == [l EXCEPT ![i] = x]
  <2>1. x \in Block /\ x.head = l[i].head /\ x.tail = b.tail
    BY <1>1, <1>2 DEF Block
  <2>2. PutBehind(l, i, b).list = m
    <3>1. i = Len(l) \/ After(l[i+1].head, b.tail)
      BY <1>l, <1>4, <1>6
    <3> QED
      BY <3>1 DEF PutBehind, Result, ReplaceAt
  <2> HIDE DEF x
  <2>3. /\ m \in Seq(Block) /\ Len(m) = Len(l)
        /\ \A j \in 1 .. Len(l) : m[j] = IF j = i THEN x ELSE l[j]
    BY <2>1, ExceptSeq
  <2> HIDE DEF m
  <2>4. /\ i - 1 \in 0 .. Len(l) /\ i + 1 \in Nat /\ i - 1 < i + 1 /\ i + 1 <= Len(l) + 1
        /\ Len(m) = Len(l) + (i - 1) + 2 - (i + 1)
    BY <1>l, <2>3
  <2>5. \A k \in 1 .. Len(m) : m[k] = IF k <= i - 1 THEN l[k] ELSE IF k = (i - 1) + 1 THEN x
                                      ELSE l[k + (i + 1) - (i - 1) - 2]
    <3> SUFFICES ASSUME NEW k \in 1 .. Len(m)
                 PROVE  m[k] = IF k <= i - 1 THEN l[k] ELSE IF k = (i - 1) + 1 THEN x
                               ELSE l[k + (i + 1) - (i - 1) - 2]
      OBVIOUS
    <3>1. k + (i + 1) - (i - 1) - 2 = k /\ (k <= i - 1 => k # i) /\ (i - 1) + 1 = i
      BY <1>l, <2>3
    <3> QED
      BY <2>3, <3>1
  <2>6. Up(L, x.head) = H(i) /\ Up(L, x.tail) = e
    BY <2>1
  <2>7. ASSUME NEW j \in (i + 1) .. Len(l) PROVE Up(L, x.tail) < H(j)
    <3>1. j \in 1 .. Len(l) /\ i + 1 \in 1 .. Len(l) /\ i # Len(l) /\ (j = i + 1 \/ i + 1 < j)
      BY <1>l, <2>7
    <3>2. e < H(i+1) /\ (i + 1 < j => T(i+1) < H(j)) /\ H(i+1) <= T(i+1)
      BY <1>3, <1>6, <3>1
    <3>3. H(i+1) \in Nat /\ T(i+1) \in Nat /\ H(j) \in Nat
      BY <1>1, <3>1
    <3>4. CASE j = i + 1
      BY <2>6, <3>2, <3>4
    <3>5. CASE i + 1 < j
      BY <1>2, <2>6, <3>2, <3>3, <3>5
    <3> QED
      BY <3>1, <3>4, <3>5
  <2>8. ((i - 1) + 1) .. ((i + 1) - 1) = {i}
    BY <1>l
  <2>9. \A p \in Nat : (Up(L, x.head) <= p /\ p < Up(L, x.tail)) <=>
          \/ pos <= p /\ p < e
          \/ \E j \in ((i - 1) + 1) .. ((i + 1) - 1) : H(j) <= p /\ p < T(j)
    <3>1. H(i) \in Nat /\ T(i) \in Nat /\ H(i) <= T(i) /\ pos = T(i) /\ pos <= e
      BY <1>1, <1>3
    <3> QED
      BY <1>2, <2>6, <2>8, <3>1
  <2>10. \A j \in ((i - 1) + 1) .. ((i + 1) - 1) : T(j) <= pos \/ e <= H(j)
    BY <1>1, <1>2, <2>8
  <2>11. e <= Up(L, x.tail)
    BY <1>2, <2>6
  <2>12. \A j \in 1 .. (i - 1) : Up(L, l[j].tail) < Up(L, x.head)
    BY <1>5, <2>6
  <2>13. Up(L, x.head) <= pos
    BY <1>3, <2>6
  <2>14. Replaces(l, L, pos, e, m, i - 1, i + 1, x)
    BY <2>4, <2>5, <2>6, <2>7, <2>9, <2>10, <2>11, <2>12, <2>13 DEF Replaces
  <2> QED
    BY <1>2, <2>1, <2>2, <2>3, <2>4, <2>14, Splice
<1>7. CASE i # Len(l) /\ H(i+1) = e
  <2> DEFINE x == [l[i] EXCEPT !.tail = l[i+1].tail]
             r == [l EXCEPT ![i] = x]
             m == RemoveAt(r, i + 1)
  <2>i. i + 1 \in 1 .. Len(l) /\ i < i + 1
    BY <1>l, <1>7
  <2>1. x \in Block /\ x.head = l[i].head /\ x.tail = l[i+1].tail
    BY <1>1, <2>i DEF Block
  <2>2. PutBehind(l, i, b).list = m
    <3>1. ~(i = Len(l) \/ After(l[i+1].head, b.tail)) /\ b.tail = l[i+1].head
      BY <1>1, <1>2, <1>4, <1>7, <2>i
    <3> QED
      BY <3>1 DEF PutBehind, Result, ReplaceAt
  <2> HIDE DEF x
  <2>r. /\ r \in Seq(Block) /\ Len(r) = Len(l)
        /\ \A j \in 1 .. Len(l) : r[j] = IF j = i THEN x ELSE l[j]
    BY <2>1, ExceptSeq
  <2> HIDE DEF r
  <2>3. /\ m \in Seq(Block) /\ Len(m) = Len(l) - 1
        /\ \A j \in 1 .. (Len(l) - 1) : m[j] = IF j < i + 1 THEN r[j] ELSE r[j + 1]
    <3> HIDE DEF m
    <3>1. \A B : \A q \in Seq(B) : \A k \in 1 .. Len(q) :
            /\ RemoveAt(q, k) \in Seq(B) /\ Len(RemoveAt(q, k)) = Len(q) - 1
            /\ \A j \in 1 .. (Len(q) - 1) : RemoveAt(q, k)[j] = IF j < k THEN q[j] ELSE q[j + 1]
      BY RemovedAt
    <3> QED
      BY <2>i, <2>r, <3>1 DEF m
  <2> HIDE DEF m
  <2>4. /\ i - 1 \in 0 .. Len(l) /\ i + 2 \in Nat /\ i - 1 < i + 2 /\ i + 2 <= Len(l) + 1
        /\ Len(m) = Len(l) + (i - 1) + 2 - (i + 2)
    BY <1>l, <2>i, <2>3
  <2>5. \A k \in 1 .. Len(m) : m[k] = IF k <= i - 1 THEN l[k] ELSE IF k = (i - 1) + 1 THEN x
                                      ELSE l[k + (i + 2) - (i - 1) - 2]
    <3> SUFFICES ASSUME NEW k \in 1 .. Len(m)
                 PROVE  m[k] = IF k <= i - 1 THEN l[k] ELSE IF k = (i - 1) + 1 THEN x
                               ELSE l[k + (i + 2) - (i - 1) - 2]
      OBVIOUS
    <3>1. /\ k + (i + 2) - (i - 1) - 2 = k + 1 /\ (i - 1) + 1 = i
          /\ (k <= i - 1 => k # i /\ k < i + 1) /\ k \in 1 .. Len(l) /\ k + 1 \in 1 .. Len(l)
          /\ k \in 1 .. (Len(l) - 1) /\ i < i + 1
          /\ (~(k <= i - 1) /\ k # i => ~(k < i + 1) /\ k + 1 # i)
      BY <1>l, <2>3
    <3> QED
      BY <2>r, <2>3, <3>1
  <2>6. Up(L, x.head) = H(i) /\ Up(L, x.tail) = T(i+1)
    BY <2>1
  <2>7. ASSUME NEW j \in (i + 2) .. Len(l) PROVE Up(L, x.tail) < H(j)
    <3>1. j \in 1 .. Len(l) /\ i + 1 < j
      BY <1>l, <2>7
    <3> QED
      BY <1>3, <2>i, <2>6, <3>1
  <2>8. ((i - 1) + 1) .. ((i + 2) - 1) = {i, i + 1}
    BY <1>l
  <2>n. /\ H(i) \in Nat /\ T(i) \in Nat /\ H(i+1) \in Nat /\ T(i+1) \in Nat
        /\ H(i) <= T(i) /\ pos = T(i) /\ pos <= e /\ e = H(i+1) /\ H(i+1) <= T(i+1)
    BY <1>1, <1>3, <1>7, <2>i
  <2>9. \A p \in Nat : (Up(L, x.head) <= p /\ p < Up(L, x.tail)) <=>
          \/ pos <= p /\ p < e
          \/ \E j \in ((i - 1) + 1) .. ((i + 2) - 1) : H(j) <= p /\ p < T(j)
    <3> HIDE DEF H, T, pos, e
    <3> SUFFICES ASSUME NEW p \in Nat
                 PROVE  (H(i) <= p /\ p < T(i+1)) <=>
                          \/ pos <= p /\ p < e
                          \/ H(i) <= p /\ p < T(i)
                          \/ H(i+1) <= p /\ p < T(i+1)
      BY <2>6, <2>8
    <3> QED
      BY <1>2, <2>n
  <2>10. \A j \in ((i - 1) + 1) .. ((i + 2) - 1) : T(j) <= pos \/ e <= H(j)
    BY <1>2, <2>8, <2>n
  <2>11. e <= Up(L, x.tail) /\ Up(L, x.head) <= pos
    BY <1>2, <2>6, <2>n
  <2>12. \A j \in 1 .. (i - 1) : Up(L, l[j].tail) < Up(L, x.head)
    BY <1>5, <2>6
  <2>13. /\ \E j \in 1 .. Len(l) : Up(L, x.head) = Up(L, l[j].head)
         /\ \E j \in 1 .. Len(l) : Up(L, x.tail) = Up(L, l[j].tail)
    BY <2>i, <2>6
  <2>14. Replaces(l, L, pos, e, m, i - 1, i + 2, x)
    BY <2>4, <2>5, <2>7, <2>9, <2>10, <2>11, <2>12, <2>13 DEF Replaces
  <2> HIDE DEF pos, e
  <2>15. pos <= e /\ i - 1 \in Nat
    BY <2>n
  <2>16. Spliced(l, L, pos, e, m)
    BY <1>2, <2>1, <2>3, <2>4, <2>14, <2>15, Splice
  <2> QED
    BY <2>2, <2>16 DEF pos, e
<1>8. CASE i # Len(l) /\ H(i+1) < e
  <2>1. i + 1 \in 1 .. Len(l)
    BY <1>l, <1>8
  <2>2. PutBehind(l, i, b) = Result("MALICIOUS_INPUT", l)
    BY <1>1, <1>2, <1>4, <1>8, <2>1 DEF PutBehind
  <2> QED
    BY <2>2 DEF Fails, Result
<1>9. i # Len(l) => H(i+1) \in Nat
  <2>1. i # Len(l) => i + 1 \in 1 .. Len(l)
    BY <1>l
  <2> QED
    BY <1>1, <2>1
<1> QED
  BY <1>2, <1>6, <1>7, <1>8, <1>9

\* A block put behind the last entry of a list, or into an empty one.
LEMMA AppendSplices ==
    ASSUME NEW L \in Nat, NEW l \in Seq(Block), Apart(l, L), NEW b \in Block,
           Up(L, b.head) <= Up(L, b.tail),
           \A j \in 1 .. Len(l) : Up(L, l[j].tail) < Up(L, b.head)
    PROVE  Spliced(l, L, Up(L, b.head), Up(L, b.tail), Append(l, b))
<1> DEFINE m == Append(l, b)
           pos == Up(L, b.head)
           e == Up(L, b.tail)
<1>1. pos \in Nat /\ e \in Nat
  BY UpRange DEF Block
<1>2. /\ m \in Seq(Block) /\ Len(m) = Len(l) + 1 /\ Len(l) \in Nat
      /\ \A i \in 1 .. Len(l) : m[i] = l[i]
      /\ m[Len(l) + 1] = b
  BY AppendProperties, LenProperties
<1> HIDE DEF m
<1>3. /\ Len(l) \in 0 .. Len(l) /\ Len(l) + 1 \in Nat /\ Len(l) < Len(l) + 1
      /\ Len(l) + 1 <= Len(l) + 1
      /\ Len(m) = Len(l) + Len(l) + 2 - (Len(l) + 1)
      /\ (Len(l) + 1) .. Len(l) = {} /\ (Len(l) + 1) .. ((Len(l) + 1) - 1) = {}
  BY <1>2
<1>4. ASSUME NEW k \in 1 .. Len(m)
      PROVE  m[k] = IF k <= Len(l) THEN l[k] ELSE IF k = Len(l) + 1 THEN b
                    ELSE l[k + (Len(l) + 1) - Len(l) - 2]
  <2>1. k \in 1 .. Len(l) \/ (k = Len(l) + 1 /\ ~(k <= Len(l)))
    BY <1>2
  <2> QED
    BY <1>2, <2>1
<1>5. Replaces(l, L, pos, e, m, Len(l), Len(l) + 1, b)
  BY <1>1, <1>3, <1>4 DEF Replaces
<1> QED
  BY <1>1, <1>2, <1>3, <1>5, Splice DEF m

\* What altusUBCheck does, when it does not fail, with a block of which it sees
\* the numbers only: it puts the block into the list.
LEMMA CheckSplices ==
    ASSUME NEW L \in Nat, NEW l \in Seq(Block), Apart(l, L),
           \A j \in 1 .. Len(l) : Up(L, l[j].tail) < L + Half,
           NEW s \in Seqs, NEW n \in Int, Plus(s, n) \in Seqs,
           Up(L, s) <= Up(L, Plus(s, n)), Up(L, Plus(s, n)) < L + Half,
           ~Fails(altusUBCheck(l, s, n))
    PROVE  Spliced(l, L, Up(L, s), Up(L, Plus(s, n)), altusUBCheck(l, s, n).list)
<1> DEFINE b == [head |-> s, tail |-> Plus(s, n)]
           H(j) == Up(L, l[j].head)
           T(j) == Up(L, l[j].tail)
           pos == Up(L, s)
           e == Up(L, Plus(s, n))
           stops == {i \in DOMAIN l : Stops(l, i, s)}
           r == altusUBCheck(l, s, n)
<1>l. Len(l) \in Nat /\ DOMAIN l = 1 .. Len(l)
  BY LenProperties
<1>b. b \in Block /\ b.head = s /\ b.tail = Plus(s, n)
  BY DEF Block
<1> HIDE DEF b
<1>1. pos \in Nat /\ e \in Nat /\ pos < L + Half
  <2>1. pos \in Nat /\ e \in Nat
    BY UpRange
  <2> QED
    BY <2>1, HalfFits
<1>2. \A j \in 1 .. Len(l) : /\ H(j) \in Nat /\ T(j) \in Nat /\ H(j) <= T(j)
                             /\ l[j].head \in Seqs /\ l[j].tail \in Seqs
  BY BlockPositions DEF Apart
<1>3. \A j \in 1 .. Len(l) : H(j) < L + Half
  BY <1>2, HalfFits
<1>4. ASSUME NEW j \in 1 .. Len(l)
      PROVE  /\ After(l[j].head, s) <=> H(j) > pos
             /\ After(l[j].tail, s) <=> T(j) > pos
             /\ s = l[j].tail <=> T(j) = pos
             /\ After(s, l[j].tail) <=> pos > T(j)
  <2>1. l[j].head \in Seqs /\ l[j].tail \in Seqs /\ H(j) < L + Half /\ T(j) < L + Half
    BY <1>2, <1>3
  <2> QED
    BY <1>1, <2>1, UpOrder
<1>5. CASE l = << >>
  <2>1. r.list = << b >>
    BY <1>5 DEF altusUBCheck, Result, b
  <2>2. << b >> = Append(l, b) /\ 1 .. Len(l) = {}
    BY <1>5
  <2>3. Spliced(l, L, pos, e, Append(l, b))
    BY <1>b, <2>2, AppendSplices
  <2> QED
    BY <2>1, <2>2, <2>3
<1>6. CASE l # << >> /\ stops = {}
  <2>1. r = Result("MALICIOUS_INPUT", l)
    BY <1>6 DEF altusUBCheck
  <2> QED
    BY <2>1 DEF Fails, Result
<1>7. CASE l # << >> /\ stops # {}
  <2> DEFINE i == Min(stops)
  <2>1. stops \in SUBSET Nat /\ stops \subseteq 1 .. Len(l)
    BY <1>l
  <2>2. i \in stops /\ \A j \in stops : i <= j
    <3> HIDE DEF stops
    <3> QED
      BY <1>7, <2>1, MinOfNats
  <2>3. r = IF After(l[i].head, s) THEN PutBefore(l, i, b)
            ELSE IF After(l[i].tail, s) THEN Result("MALICIOUS_INPUT", l)
            ELSE IF s = l[i].tail THEN PutBehind(l, i, b)
            ELSE PutLast(l, b)
    BY <1>7 DEF altusUBCheck, b
  <2>4. i \in 1 .. Len(l) /\ Stops(l, i, s)
    BY <2>1, <2>2
  <2>5. ASSUME NEW j \in 1 .. (i - 1) PROVE T(j) < pos
    <3> HIDE DEF i
    <3>1. j \in 1 .. Len(l) /\ ~(i <= j)
      BY <1>l, <2>4, <2>5
    <3>2. ~Stops(l, j, s)
      BY <1>l, <2>2, <3>1
    <3>3. T(j) \in Nat /\ ~(T(j) > pos) /\ T(j) # pos
      BY <1>2, <1>4, <3>1, <3>2 DEF Stops
    <3> QED
      BY <1>1, <3>3
  <2> HIDE DEF i, r, stops
  <2>6. CASE H(i) > pos
    <3>1. r = PutBefore(l, i, b)
      BY <1>4, <2>3, <2>4, <2>6
    <3>2. Up(L, b.head) = pos /\ Up(L, b.tail) = e
      BY <1>b
    <3>3. ~Fails(PutBefore(l, i, b)) /\ pos < H(i)
      BY <1>1, <1>2, <2>4, <2>6, <3>1 DEF r
    <3> QED
      BY <1>b, <1>3, <2>4, <2>5, <3>1, <3>2, <3>3, BeforeSplices DEF r
  <2>7. CASE ~(H(i) > pos) /\ T(i) > pos
    <3>1. r = Result("MALICIOUS_INPUT", l)
      BY <1>4, <2>3, <2>4, <2>7
    <3> QED
      BY <3>1 DEF Fails, Result, r
  <2>8. CASE ~(H(i) > pos) /\ T(i) = pos
    <3>1. r = PutBehind(l, i, b)
      BY <1>1, <1>4, <2>3, <2>4, <2>8
    <3>2. Up(L, b.head) = pos /\ Up(L, b.tail) = e
      BY <1>b
    <3>3. ~Fails(PutBehind(l, i, b))
      BY <3>1 DEF r
    <3> QED
      BY <1>b, <1>3, <2>4, <2>8, <3>1, <3>2, <3>3, BehindSplices DEF r
  <2>9. CASE ~(H(i) > pos) /\ ~(T(i) > pos) /\ T(i) # pos
    <3>1. r = PutLast(l, b)
      BY <1>4, <2>3, <2>4, <2>9
    <3>2. i = Len(l) /\ T(i) < pos
      BY <1>4, <2>4, <2>9 DEF Stops
    <3>3. r.list = Append(l, b)
      BY <3>1 DEF PutLast, Fails, Result, r
    <3>4. ASSUME NEW j \in 1 .. Len(l) PROVE T(j) < pos
      <4>0. i = Len(l) /\ i \in Nat
        BY <1>l, <3>2
      <4>1. j \in 1 .. (i - 1) \/ j = i
        BY <4>0
      <4> QED
        BY <2>5, <3>2, <4>1
    <3>5. Up(L, b.head) = pos /\ Up(L, b.tail) = e
      BY <1>b
    <3> QED
      BY <1>b, <3>3, <3>4, <3>5, AppendSplices DEF r
  <2> QED
    BY <1>1, <1>2, <2>4, <2>6, <2>7, <2>8, <2>9
<1> QED
  BY <1>5, <1>6, <1>7

-----------------------------------------------------------------------------
(* Arithmetic of nodes and numbers.                                        *)

\* The number of a position further on.
LEMMA PlusOfNumber ==
    ASSUME NEW p \in Nat, NEW n \in Nat
    PROVE  Plus(p % SeqSpace, n) = (p + n) % SeqSpace
<1> DEFINE S == SeqSpace
           a == p \div S
           r == p % S
           c == (r + n) \div S
           d == (r + n) % S
<1>s. S \in Nat \ {0}
  BY Sizes
<1>1. a \in Nat /\ r \in 0 .. (S - 1) /\ p = S * a + r
  BY <1>s, DivMod
<1>2. r + n \in Nat
  BY <1>1, <1>s
<1>3. c \in Nat /\ d \in 0 .. (S - 1) /\ r + n = S * c + d
  BY <1>2, <1>s, DivMod
<1> HIDE DEF S, a, c, d, r
<1>4. p + n = S * (a + c) + d
  <2>1. S * (a + c) = S * a + S * c
    BY <1>s, <1>1, <1>3
  <2>2. S * a \in Nat /\ S * c \in Nat
    BY <1>s, <1>1, <1>3
  <2> QED
    BY <1>1, <1>3, <1>s, <2>1, <2>2
<1>5. (S * (a + c) + d) % S = d
  <2>1. PICK q \in Nat : q = a + c
    BY <1>1, <1>3
  <2>2. (S * q + d) % S = d
    BY <1>s, <1>3, DivUnique
  <2> QED
    BY <2>1, <2>2
<1> QED
  BY <1>4, <1>5 DEF Plus, S, r, d

\* The number of a position less far on.
LEMMA MinusOfNumber ==
    ASSUME NEW p \in Nat, NEW n \in Nat, n <= p, n < SeqSpace
    PROVE  Minus(p % SeqSpace, n) = (p - n) % SeqSpace
<1> DEFINE S == SeqSpace
           a == p \div S
           r == p % S
<1>s. S \in Nat \ {0} /\ n < S
  BY Sizes
<1>1. a \in Nat /\ r \in 0 .. (S - 1) /\ p = S * a + r
  BY <1>s, DivMod
<1> HIDE DEF S, a, r
<1>2. S * a \in Nat
  BY <1>s, <1>1
<1>3. CASE n <= r
  <2>1. r - n \in 0 .. (S - 1) /\ p - n = S * a + (r - n)
    BY <1>s, <1>1, <1>2, <1>3
  <2>2. (S * a + (r - n)) % S = r - n
    BY ONLY <1>s, <1>1, <2>1, DivUnique
  <2>3. (r - n) % S = r - n
    BY ONLY <1>s, <2>1
  <2> QED
    BY <2>1, <2>2, <2>3 DEF Minus, S, r
<1>4. CASE n > r
  <2>1. a # 0
    <3> SUFFICES ASSUME a = 0 PROVE FALSE
      OBVIOUS
    <3>1. S * a = 0
      BY <1>s
    <3> QED
      BY <1>1, <1>4, <3>1
  <2>2. a - 1 \in Nat /\ S * a = S * (a - 1) + S /\ S * (a - 1) \in Nat
    BY <1>s, <1>1, <2>1
  <2>3. r - n + S \in 0 .. (S - 1) /\ p - n = S * (a - 1) + (r - n + S)
    BY <1>s, <1>1, <1>2, <1>4, <2>2
  <2>4. (S * (a - 1) + (r - n + S)) % S = r - n + S
    <3>1. PICK q \in Nat, d \in 0 .. (S - 1) : q = a - 1 /\ d = r - n + S
      BY <2>2, <2>3
    <3>2. (S * q + d) % S = d
      BY <1>s, DivUnique
    <3> QED
      BY <3>1, <3>2
  <2>5. (r - n) % S = r - n + S
    BY <1>s, <1>1, <1>4
  <2> QED
    BY <2>3, <2>4, <2>5 DEF Minus, S, r
<1> QED
  BY <1>1, <1>3, <1>4

\* The number of the position that a number stands for is that number.
LEMMA NumberOfUp ==
    ASSUME NEW L \in Nat, NEW s \in Seqs
    PROVE  Up(L, s) % SeqSpace = s
<1> DEFINE S == SeqSpace
           a == L \div S
           r == L % S
           u == Up(L, s)
<1>s. S \in Nat \ {0} /\ s \in 0 .. (S - 1)
  BY Sizes DEF Seqs
<1>1. a \in Nat /\ r \in 0 .. (S - 1) /\ L = S * a + r
  BY <1>s, DivMod
<1>2. u = L + s - r \/ u = L + s - r + S
  BY UpRange
<1> HIDE DEF S, a, r, u
<1>3. S * a \in Nat /\ S * (a + 1) = S * a + S
  BY <1>s, <1>1
<1>4. CASE u = L + s - r
  <2>1. u = S * a + s
    BY <1>s, <1>1, <1>3, <1>4
  <2>2. (S * a + s) % S = s
    BY <1>s, <1>1, DivUnique
  <2> QED
    BY <2>1, <2>2 DEF S, u
<1>5. CASE u = L + s - r + S
  <2>1. u = S * (a + 1) + s /\ a + 1 \in Nat
    BY <1>s, <1>1, <1>3, <1>5
  <2>2. PICK q \in Nat : q = a + 1
    BY <2>1
  <2>3. (S * q + s) % S = s
    BY <1>s, DivUnique
  <2> QED
    BY <2>1, <2>2, <2>3 DEF S, u
<1> QED
  BY <1>2, <1>4, <1>5

\* A number stands for the same position, seen from further on.
LEMMA UpShift ==
    ASSUME NEW L \in Nat, NEW M \in Nat, NEW s \in Seqs, L <= M, M <= Up(L, s)
    PROVE  Up(M, s) = Up(L, s)
<1>1. /\ Up(L, s) \in Nat /\ Up(L, s) < L + SeqSpace
  BY UpRange
<1>2. Up(L, s) < M + SeqSpace
  BY <1>1, Sizes
<1> QED
  BY <1>1, <1>2, NumberOfUp, UpOfNumber

\* Distances from the beginning of a node.
LEMMA DivSub ==
    ASSUME NEW a \in Nat, NEW q \in Nat, NodeSize * q <= a
    PROVE  /\ a - NodeSize * q \in Nat
           /\ (a - NodeSize * q) \div NodeSize = (a \div NodeSize) - q
           /\ (a - NodeSize * q) % NodeSize = a % NodeSize
           /\ q <= a \div NodeSize
<1> DEFINE N == NodeSize
           c == a \div N
           r == a % N
<1>s. N \in Nat \ {0}
  BY Sizes
<1>1. c \in Nat /\ r \in 0 .. (N - 1) /\ a = N * c + r
  BY <1>s, DivMod
<1>a. N * q <= a
  OBVIOUS
<1> HIDE DEF N, c, r
<1>2. q <= c
  <2> SUFFICES ASSUME c + 1 <= q PROVE FALSE
    BY <1>1
  <2>1. N * (c + 1) <= N * q
    BY <1>s, <1>1, TimesMonotonic
  <2>2. N * (c + 1) = N * c + N /\ N * c \in Nat /\ N * q \in Nat
    BY <1>s, <1>1
  <2> QED
    BY <1>s, <1>1, <1>a, <2>1, <2>2
<1>3. c - q \in Nat /\ N * (c - q) = N * c - N * q /\ N * c \in Nat /\ N * q \in Nat
  BY <1>s, <1>1, <1>2
<1>4. a - N * q = N * (c - q) + r
  BY <1>s, <1>1, <1>3
<1>5. (N * (c - q) + r) \div N = c - q /\ (N * (c - q) + r) % N = r
  BY <1>s, <1>1, <1>3, DivUnique
<1>6. a - N * q \in Nat
  BY <1>s, <1>1, <1>3, <1>4
<1> QED
  BY <1>2, <1>4, <1>5, <1>6 DEF N, c, r

\* positions of a window: where its end and its reader are
History == [last : Nat, read : Nat]

\* Places of positions, in order.
LEMMA Places ==
    ASSUME NEW h \in History
    PROVE  /\ \A p \in Nat : p \div NodeSize \in Nat /\ p % NodeSize \in Offsets
           /\ \A p \in Nat : Place(h, p) \in Int
           /\ \A p, r \in Nat : p <= r => Place(h, p) <= Place(h, r)
           /\ \A p, r \in Nat : p <= r => p \div NodeSize <= r \div NodeSize
           /\ \A p \in Nat : h.read <= p => Place(h, p) \in Nat /\ 1 <= Place(h, p)
           /\ \A p, r \in Nat : Place(h, p) = Place(h, r) /\ p % NodeSize = r % NodeSize => p = r
<1>0. h.read \in Nat /\ NodeSize \in Nat \ {0}
  BY Sizes DEF History
<1>1. \A p \in Nat : p \div NodeSize \in Nat /\ p % NodeSize \in Offsets
                     /\ p = NodeSize * (p \div NodeSize) + (p % NodeSize)
  BY <1>0, DivMod DEF Offsets
<1>2. \A p, r \in Nat : p <= r => p \div NodeSize <= r \div NodeSize
  BY <1>0, DivMonotonic
<1>3. PICK d : d = h.read \div NodeSize
  OBVIOUS
<1>4. d \in Nat /\ \A p : Place(h, p) = 1 + (p \div NodeSize) - d
  BY <1>0, <1>1, <1>3 DEF Place
<1>5. \A p \in Nat : Place(h, p) \in Int
  BY <1>1, <1>4
<1>6. ASSUME NEW p \in Nat, NEW r \in Nat, p <= r PROVE Place(h, p) <= Place(h, r)
  <2>1. p \div NodeSize \in Nat /\ r \div NodeSize \in Nat /\ p \div NodeSize <= r \div NodeSize
    BY <1>1, <1>2, <1>6
  <2>2. PICK x, y : x = p \div NodeSize /\ y = r \div NodeSize
    OBVIOUS
  <2> QED
    BY <1>4, <2>1, <2>2
<1>7. ASSUME NEW p \in Nat, h.read <= p PROVE Place(h, p) \in Nat /\ 1 <= Place(h, p)
  <2>1. p \div NodeSize \in Nat /\ d <= p \div NodeSize
    BY <1>0, <1>1, <1>2, <1>3, <1>7
  <2>2. PICK x : x = p \div NodeSize
    OBVIOUS
  <2> QED
    BY <1>4, <2>1, <2>2
<1>8. ASSUME NEW p \in Nat, NEW r \in Nat, Place(h, p) = Place(h, r), p % NodeSize = r % NodeSize
      PROVE  p = r
  <2>1. PICK x \in Nat, y \in Nat : x = p \div NodeSize /\ y = r \div NodeSize
    BY <1>1
  <2>2. x = y
    BY <1>4, <1>8, <2>1
  <2> QED
    BY <1>1, <1>8, <2>1, <2>2
<1> QED
  BY <1>1, <1>2, <1>5, <1>6, <1>7, <1>8

\* The beginning of the node of a position and of the next node.
LEMMA Borders ==
    ASSUME NEW L \in Nat
    PROVE  /\ Border(L) \in Nat /\ L < Border(L) /\ Border(L) <= L + NodeSize
           /\ Border(L) \div NodeSize = (L \div NodeSize) + 1
           /\ \A p \in Nat : p < Border(L) <=> p \div NodeSize <= L \div NodeSize
           /\ NodeSize * (L \div NodeSize) \in Nat
           /\ NodeSize * (L \div NodeSize) = L - (L % NodeSize)
           /\ Border(L) = NodeSize * (L \div NodeSize) + NodeSize
<1> DEFINE N == NodeSize
           d == L \div N
           r == L % N
           B == N * d
<1>s. N \in Nat \ {0}
  BY Sizes
<1>1. d \in Nat /\ r \in 0 .. (N - 1) /\ L = B + r
  BY <1>s, DivMod
<1>b. Border(L) = (d + 1) * N
  BY DEF Border
<1> HIDE DEF N, d, r
<1>2. B \in Nat /\ (d + 1) * N = B + N
  BY <1>s, <1>1
<1> HIDE DEF B
<1>3. Border(L) = B + N /\ Border(L) \in Nat /\ L < Border(L) /\ Border(L) <= L + N
  BY <1>s, <1>1, <1>2, <1>b
<1>4. Border(L) \div N = d + 1
  <2>1. PICK q \in Nat : q = d + 1
    BY <1>1
  <2>2. (N * q + 0) \div N = q /\ 0 \in 0 .. (N - 1) /\ N * q \in Nat
    BY <1>s, DivUnique
  <2>3. N * q = (d + 1) * N
    BY <1>s, <2>1
  <2> QED
    BY <1>b, <2>1, <2>2, <2>3
<1>5. ASSUME NEW p \in Nat PROVE p < Border(L) <=> p \div N <= d
  <2>1. PICK x \in Nat, y \in 0 .. (N - 1) : x = p \div N /\ p = N * x + y
    BY <1>s, DivMod
  <2>2. ASSUME x <= d PROVE p < Border(L)
    <3>1. N * x <= N * d /\ N * x \in Nat
      BY <1>s, <1>1, <2>2, TimesMonotonic
    <3> QED
      BY <1>s, <1>2, <1>3, <2>1, <3>1 DEF B
  <2>3. ASSUME d + 1 <= x PROVE ~(p < Border(L))
    <3>1. N * (d + 1) <= N * x /\ N * x \in Nat
      BY <1>s, <1>1, <2>3, TimesMonotonic
    <3>2. N * (d + 1) = (d + 1) * N
      BY <1>s, <1>1
    <3> QED
      BY <1>s, <1>b, <1>3, <2>1, <3>1, <3>2
  <2> QED
    BY <1>1, <2>1, <2>2, <2>3
<1>6. B = L - r
  BY <1>s, <1>1, <1>2
<1> QED
  BY <1>2, <1>3, <1>4, <1>5, <1>6 DEF B, N, d, r

\* What lies within the window is less than half of the numbers ahead.
LEMMA WithinHalf ==
    ASSUME NEW h \in History, h.read <= h.last, NEW p \in Nat, Place(h, p) <= WindowSize
    PROVE  p < h.last + Half
<1> DEFINE N == NodeSize
           d == h.read \div N
           x == p \div N
<1>s. N \in Nat \ {0} /\ WindowSize \in Nat /\ h.read \in Nat /\ h.last \in Nat
  BY Sizes DEF History
<1>1. d \in Nat /\ x \in Nat /\ N * d <= h.read
  <2>1. /\ d \in Nat /\ h.read = N * d + (h.read % N) /\ h.read % N \in 0 .. (N - 1)
        /\ x \in Nat
    BY <1>s, DivMod
  <2>2. N * d \in Nat
    BY <1>s, <2>1
  <2> QED
    BY <1>s, <2>1, <2>2
<1>2. p < N * x + N
  <2>1. p = N * x + (p % N) /\ p % N \in 0 .. (N - 1)
    BY <1>s, DivMod
  <2>2. N * x \in Nat
    BY <1>s, <1>1
  <2> QED
    BY <1>s, <2>1, <2>2
<1>3. 1 + x - d <= WindowSize
  BY DEF Place
<1> HIDE DEF N, d, x
<1>4. N * (x + 1) <= N * (WindowSize + d)
  <2>1. x + 1 \in Nat /\ WindowSize + d \in Nat /\ x + 1 <= WindowSize + d
    BY <1>s, <1>1, <1>3
  <2> QED
    BY <1>s, <2>1, TimesMonotonic
<1>5. N * (x + 1) = N * x + N /\ N * (WindowSize + d) = WindowSize * N + N * d
  BY <1>s, <1>1
<1>6. /\ N * x \in Nat /\ N * d \in Nat /\ WindowSize * N \in Nat
      /\ WindowSize * N <= Half /\ Half \in Nat
  BY <1>s, <1>1, HalfFits DEF N
<1> QED
  BY <1>s, <1>1, <1>2, <1>4, <1>5, <1>6

\* Parts of a node may add up to one more node.
LEMMA DivAdd ==
    ASSUME NEW a \in Nat, NEW b \in Nat
    PROVE  (a + b) \div NodeSize <= (a \div NodeSize) + (b \div NodeSize) + 1
<1> DEFINE N == NodeSize
           c == a + b
<1>s. N \in Nat \ {0} /\ c \in Nat
  BY Sizes
<1>1. PICK x \in Nat, r \in 0 .. (N - 1) : x = a \div N /\ a = N * x + r
  BY <1>s, DivMod
<1>2. PICK y \in Nat, t \in 0 .. (N - 1) : y = b \div N /\ b = N * y + t
  BY <1>s, DivMod
<1>c. c = a + b
  OBVIOUS
<1> HIDE DEF N, c
<1>3. PICK z \in Nat, u \in 0 .. (N - 1) : z = c \div N /\ c = N * z + u
  BY <1>s, DivMod
<1> SUFFICES z <= x + y + 1
  BY <1>1, <1>2, <1>3 DEF N, c
<1> SUFFICES ASSUME x + y + 2 <= z PROVE FALSE
  OBVIOUS
<1>4. N * (x + y + 2) <= N * z
  <2>1. x + y + 2 \in Nat
    OBVIOUS
  <2> QED
    BY <1>s, <2>1, TimesMonotonic
<1>5. N * (x + y + 2) = N * x + N * y + 2 * N
  BY <1>s
<1>6. N * x \in Nat /\ N * y \in Nat /\ N * z \in Nat
  BY <1>s
<1> QED
  BY <1>s, <1>1, <1>2, <1>3, <1>c, <1>4, <1>5, <1>6

\* A block for which altusWQPut returns 0 lies ahead and within the window, and
\* altusUBCheck puts it into the list.
LEMMA Accepts ==
    ASSUME NEW h \in History, NEW W \in Window, Numbers(W, h), Listed(W, h),
           NEW pos \in Nat, NEW n \in 0 .. MaxLen,
           pos - h.last \in (1 - Half) .. (Half - 1),
           PutCode(W, pos % SeqSpace, n) = 0
    PROVE  /\ h.last <= pos /\ pos + n < h.last + Half
           /\ Place(h, pos + n) <= WindowSize
           /\ pos % SeqSpace \in Seqs /\ n \in Nat
           /\ Spliced(W.ub_list, h.last, pos, pos + n,
                      altusUBCheck(W.ub_list, pos % SeqSpace, n).list)
           /\ altusUBCheck(W.ub_list, pos % SeqSpace, n).list \in Seq(Block)
           /\ Len(altusUBCheck(W.ub_list, pos % SeqSpace, n).list) <= MaxUB
<1> DEFINE L == h.last
           e == pos + n
           s == pos % SeqSpace
           l == W.ub_list
           r == altusUBCheck(l, s, n)
<1>h. /\ L \in Nat /\ h.read \in Nat /\ h.read <= L /\ W.lastSeq = L % SeqSpace
      /\ W.safe = Place(h, L) /\ W.safe_len = W.safe
      /\ l \in Seq(Block)
  BY DEF History, Numbers, Window
<1>n. n \in Nat /\ n <= Half /\ e \in Nat /\ SeqSpace = 2 * Half /\ Half \in Nat \ {0}
  BY HalfFits, Sizes
<1>p. L < pos + Half /\ pos < L + Half
  <2>1. pos - L \in (1 - Half) .. (Half - 1)
    OBVIOUS
  <2>2. L \in Nat /\ Half \in Nat
    BY <1>h, <1>n
  <2> HIDE DEF L
  <2> QED
    BY <2>1, <2>2
<1>c. /\ ~After(W.lastSeq, s)
      /\ ~(W.safe_len + ((Minus(Plus(s, n), W.lastSeq) \div NodeSize) + 1) > WindowSize)
      /\ ~Fails(r)
  BY DEF PutCode, Fails
<1>1. L <= pos
  <2> SUFFICES ASSUME pos < L PROVE FALSE
    BY <1>h
  <2>1. L < pos + Half
    BY <1>p
  <2>2. L < pos + SeqSpace
    BY <1>h, <1>n, <2>1
  <2>3. Up(pos, L % SeqSpace) = L
    BY <1>h, <2>2, UpOfNumber
  <2>4. Minus(W.lastSeq, s) \in Int
    BY <1>h, Sizes DEF Minus
  <2>5. Minus(W.lastSeq, s) = L - pos
    BY <1>h, <2>3, <2>4 DEF Up
  <2>6. L - pos \in 1 .. (Half - 1)
    <3>1. L \in Nat /\ pos \in Nat /\ Half \in Nat /\ pos < L
      BY <1>h, <1>n
    <3> HIDE DEF L
    <3> QED
      BY ONLY <2>1, <3>1
  <2> QED
    BY <1>c, <2>5, <2>6 DEF After, Half
<1>2. e < L + SeqSpace /\ L <= e /\ pos < L + SeqSpace
  <2>1. L \in Nat
    BY <1>h
  <2> HIDE DEF L
  <2> QED
    BY <2>1, <1>n, <1>p, <1>1
<1>3. Up(L, s) = pos /\ s \in Seqs
  BY <1>h, <1>1, <1>2, UpOfNumber
<1>4. Plus(s, n) = e % SeqSpace /\ e % SeqSpace \in Seqs /\ Up(L, e % SeqSpace) = e
  BY <1>h, <1>n, <1>2, PlusOfNumber, UpOfNumber
<1>5. Minus(Plus(s, n), W.lastSeq) = e - L
  <2>1. Minus(Plus(s, n), W.lastSeq) \in Int
    <3>1. Plus(s, n) \in Int /\ W.lastSeq \in Int
      BY <1>4 DEF Seqs, Window
    <3>2. SeqSpace \in Nat \ {0}
      BY Sizes
    <3>3. \A a, b \in Int : (a - b) % SeqSpace \in Int
      BY ONLY <3>2
    <3> QED
      BY <3>1, <3>3 DEF Minus
  <2> QED
    BY <1>h, <1>4, <2>1 DEF Up
<1>6. Place(h, e) <= WindowSize
  <2>1. PICK x, y, z, d : /\ x = e \div NodeSize /\ y = L \div NodeSize /\ d = h.read \div NodeSize
                          /\ z = (e - L) \div NodeSize
    OBVIOUS
  <2>2. x \in Nat /\ y \in Nat /\ z \in Nat /\ d \in Nat
    <3>1. e - L \in Nat
      BY <1>h, <1>n, <1>2, SMTT(30)
    <3> HIDE DEF e, L
    <3>2. \A a \in Nat : a \div NodeSize \in Nat
      BY DivMod, Sizes
    <3> QED
      BY <1>h, <1>n, <2>1, <3>1, <3>2
  <2>3. x <= y + z + 1
    <3>1. L + (e - L) = e /\ e - L \in Nat
      BY <1>h, <1>n, <1>2
    <3>2. PICK b \in Nat : b = e - L
      BY <3>1
    <3>3. (L + b) \div NodeSize <= (L \div NodeSize) + (b \div NodeSize) + 1
      BY <1>h, DivAdd
    <3> QED
      BY <2>1, <3>1, <3>2, <3>3
  <2>4. (1 + y - d) + (z + 1) <= WindowSize
    <3>1. W.safe_len = 1 + y - d
      BY <1>h, <2>1 DEF Place
    <3>2. ~((1 + y - d) + (z + 1) > WindowSize)
      BY <1>c, <1>5, <2>1, <3>1
    <3> QED
      BY <2>2, <3>2, Sizes
  <2>5. Place(h, e) = 1 + x - d
    BY <2>1 DEF Place
  <2> QED
    BY <2>2, <2>3, <2>4, <2>5, Sizes
<1>7. e < L + Half
  BY <1>h, <1>n, <1>6, WithinHalf
<1>8. \A j \in 1 .. Len(l) : Up(L, l[j].tail) < L + Half
  <2> SUFFICES ASSUME NEW j \in 1 .. Len(l) PROVE Up(L, l[j].tail) < L + Half
    OBVIOUS
  <2>1. Up(L, l[j].tail) \in Nat
    BY <1>h, BlockPositions
  <2>2. Place(h, Up(L, l[j].tail)) <= WindowSize
    BY DEF Listed
  <2> QED
    BY <1>h, <2>1, <2>2, WithinHalf
<1>9. Spliced(l, L, pos, e, r.list)
  <2>1. Apart(l, L)
    BY DEF Listed
  <2>2. Plus(s, n) \in Seqs /\ Up(L, s) <= Up(L, Plus(s, n)) /\ Up(L, Plus(s, n)) < L + Half
    BY <1>n, <1>3, <1>4, <1>7
  <2> HIDE DEF L, e, s, l
  <2>3. Spliced(l, L, Up(L, s), Up(L, Plus(s, n)), altusUBCheck(l, s, n).list)
    <3>1. L \in Nat /\ l \in Seq(Block) /\ s \in Seqs /\ n \in Int
      BY <1>h, <1>n, <1>3
    <3>2. ~Fails(altusUBCheck(l, s, n))
      BY <1>c
    <3> QED
      BY <1>8, <2>1, <2>2, <3>1, <3>2, CheckSplices
  <2> QED
    BY <1>3, <1>4, <2>3
<1>10. r.list \in Seq(Block) /\ Len(r.list) <= MaxUB
  <2>1. Joinable(Block)
    BY SeqSpaceAssumption DEF Joinable, Block, Seqs
  <2>2. [head |-> s, tail |-> Plus(s, n)] \in Block /\ s \in Int /\ n \in Int
    BY <1>n, <1>3, <1>4, Sizes DEF Block, Seqs
  <2>3. Len(l) <= MaxUB
    BY DEF Listed
  <2> HIDE DEF L, e, s, l, r
  <2>4. Kept(Block, l, r)
    BY <1>h, <2>1, <2>2, altusUBCheckKeeps DEF r
  <2> QED
    BY <2>3, <2>4 DEF Kept
<1> QED
  BY <1>n, <1>1, <1>3, <1>6, <1>7, <1>9, <1>10

\* The calls of altusWQNewNode, in terms of positions, in a window of len nodes.
Calls(len, h, pos, n) ==
    IF n = 0 THEN 0
    ELSE ((pos + n) \div NodeSize) - (pos \div NodeSize)
         + (IF pos = Border(h.last) /\ Place(h, h.last) = len THEN 1 ELSE 0)

\* The count of the nodes is right for the list m when the list is l.
FitsAgain(h, l, m, len, pos, n, E, more) ==
    /\ Calls(len, h, pos, n) \in Nat
    /\ \E E2 \in Nat : \E more2 \in {0, 1} : Fits(m, len + Calls(len, h, pos, n), h, E2, more2)

\* Accepting a block keeps the count of the nodes: altusWQPut calls
\* altusWQNewNode as often as the new end of the window needs, or once more.
LEMMA PutFits ==
    ASSUME NEW h \in History, h.read <= h.last, NEW l, NEW m, NEW len \in Int,
           NEW pos \in Nat, NEW n \in Nat, h.last <= pos, n = 0 \/ pos <= Border(h.last),
           Spliced(l, h.last, pos, pos + n, m), Place(h, pos + n) <= WindowSize,
           NEW E \in Nat, NEW more \in {0, 1}, Fits(l, len, h, E, more)
    PROVE  FitsAgain(h, l, m, len, pos, n, E, more)
<1>0. PICK k : k = Calls(len, h, pos, n)
  OBVIOUS
<1> SUFFICES /\ k \in Nat
             /\ \E E2 \in Nat : \E more2 \in {0, 1} : Fits(m, len + k, h, E2, more2)
  BY <1>0 DEF FitsAgain
<1> DEFINE L == h.last
           e == pos + n
           C(p) == Covered(l, L, p)
           D(p) == Covered(m, L, p)
           B == Border(L)
           N(p) == p \div NodeSize
           d == h.read \div NodeSize
<1>h. L \in Nat /\ e \in Nat /\ h.read \in Nat
  BY DEF History
<1>N. /\ \A p \in Nat : N(p) \in Nat
      /\ \A p, r \in Nat : p <= r => N(p) <= N(r)
      /\ d \in Nat /\ d <= N(L)
  BY <1>h, Places
<1>B. /\ B \in Nat /\ L < B /\ N(B) = N(L) + 1
      /\ \A p \in Nat : p < B <=> N(p) <= N(L)
  BY <1>h, Borders
<1>P. \A p : Place(h, p) = 1 + N(p) - d
  BY DEF Place
<1>S. /\ \A p \in Nat : D(p) <=> C(p) \/ (pos <= p /\ p < e)
      /\ \A p \in Nat : pos <= p /\ p < e => ~C(p)
  BY DEF Spliced
<1>F. /\ L <= E
      /\ \A p \in Nat : C(p) => p < E
      /\ E = L \/ C(E - 1)
      /\ \A p, r \in Nat : C(p) /\ B <= r /\ r <= p => C(r)
      /\ len = 1 + N(E) - d + more
      /\ 1 + N(E) - d <= WindowSize
      /\ C(B) /\ ~C(B - 1) => more = 0
  BY <1>P DEF Fits
<1>k. k = IF n = 0 THEN 0
          ELSE N(e) - N(pos) + (IF pos = B /\ 1 + N(L) - d = len THEN 1 ELSE 0)
  BY <1>0, <1>P DEF Calls
<1>w. 1 + N(e) - d <= WindowSize
  BY <1>P
<1>G. \A E2, more2, j : Fits(m, j, h, E2, more2) <=>
        /\ L <= E2
        /\ \A p \in Nat : D(p) => p < E2
        /\ E2 = L \/ D(E2 - 1)
        /\ \A p, r \in Nat : D(p) /\ B <= r /\ r <= p => D(r)
        /\ j = 1 + N(E2) - d + more2
        /\ 1 + N(E2) - d <= WindowSize
        /\ D(B) /\ ~D(B - 1) => more2 = 0
  BY <1>P DEF Fits
<1>m. L <= pos /\ (n = 0 \/ pos <= B) /\ e = pos + n
  OBVIOUS
<1> HIDE DEF L, C, D, B, N, d, e
<1>1. k \in Nat
  <2>1. N(e) \in Nat /\ N(pos) \in Nat /\ N(pos) <= N(e)
    BY <1>h, <1>N, <1>m
  <2> QED
    BY <1>k, <2>1
<1>2. CASE n = 0
  <2>1. \A p \in Nat : D(p) <=> C(p)
    BY <1>S, <1>h, <1>m, <1>2
  <2>2. E # L => E - 1 \in Nat
    BY <1>F, <1>h
  <2>3. B - 1 \in Nat
    BY <1>B, <1>h
  <2>4. len + k = len
    BY <1>k, <1>2
  <2>5. Fits(m, len + k, h, E, more)
    BY <1>B, <1>F, <1>G, <2>1, <2>2, <2>3, <2>4
  <2> QED
    BY <1>1, <2>5
<1>3. CASE n # 0 /\ E <= pos
  <2>0. pos <= B /\ pos < e /\ N(E) \in Nat /\ N(pos) \in Nat /\ N(e) \in Nat /\ N(L) \in Nat
    BY <1>h, <1>m, <1>N, <1>3
  <2>1. \E more2 \in {0, 1} : /\ len + k = 1 + N(e) - d + more2
                              /\ D(B) /\ ~D(B - 1) => more2 = 0
    <3>1. CASE pos < B
      <4>1. N(E) = N(L) /\ N(pos) = N(L)
        <5>1. N(L) <= N(E) /\ N(E) <= N(pos) /\ N(pos) <= N(L)
          BY <1>h, <1>N, <1>B, <1>F, <1>3, <3>1
        <5> QED
          BY <2>0, <5>1
      <4>2. len + k = 1 + N(e) - d + more
        BY <1>N, <1>k, <1>F, <1>3, <2>0, <3>1, <4>1
      <4>3. B - 1 \in Nat /\ pos <= B - 1
        BY <1>B, <1>h, <3>1
      <4>4. ~C(B)
        BY <1>B, <1>F, <1>3, <3>1
      <4>5. D(B) => D(B - 1)
        BY <1>B, <1>S, <1>h, <4>3, <4>4
      <4> QED
        BY <4>2, <4>5
    <3>2. CASE pos = B /\ E = B
      <4>1. 1 + N(L) - d # len
        BY <1>N, <1>B, <1>F, <2>0, <3>2
      <4>2. len + k = 1 + N(e) - d + more
        BY <1>N, <1>k, <1>F, <1>3, <2>0, <3>2, <4>1
      <4>3. B - 1 \in Nat /\ E # L /\ C(B - 1)
        BY <1>B, <1>F, <1>h, <3>2
      <4>4. D(B - 1)
        BY <1>S, <4>3
      <4> QED
        BY <4>2, <4>4
    <3>3. CASE pos = B /\ E < B
      <4>1. N(E) = N(L)
        <5>1. N(L) <= N(E) /\ N(E) <= N(L)
          BY <1>h, <1>N, <1>B, <1>F, <3>3
        <5> QED
          BY <2>0, <5>1
      <4>2. N(pos) = N(L) + 1
        BY <1>B, <3>3
      <4>3. len + k = 1 + N(e) - d + 0
        <5>1. len = 1 + N(L) - d + more
          BY <1>F, <4>1
        <5>2. k = N(e) - N(pos) + (IF 1 + N(L) - d = len THEN 1 ELSE 0)
          BY <1>k, <1>3, <3>3
        <5>3. CASE more = 0
          <6>1. k = N(e) - N(pos) + 1
            BY <1>N, <2>0, <5>1, <5>2, <5>3
          <6> QED
            BY <1>N, <2>0, <4>2, <5>1, <5>3, <6>1
        <5>4. CASE more = 1
          <6>1. k = N(e) - N(pos) + 0
            BY <1>N, <2>0, <5>1, <5>2, <5>4
          <6> QED
            BY <1>N, <2>0, <4>2, <5>1, <5>4, <6>1
        <5> QED
          BY <5>3, <5>4
      <4> QED
        BY <4>3
    <3> QED
      BY <1>B, <1>3, <2>0, <3>1, <3>2, <3>3
  <2>2. PICK more2 \in {0, 1} : len + k = 1 + N(e) - d + more2 /\ (D(B) /\ ~D(B - 1) => more2 = 0)
    BY <2>1
  <2>3. L <= e
    BY <1>h, <1>m
  <2>4. \A p \in Nat : D(p) => p < e
    BY <1>S, <1>F, <1>h, <1>3, <2>0
  <2>5. D(e - 1)
    BY <1>S, <1>h, <2>0
  <2>6. ASSUME NEW p \in Nat, NEW r \in Nat, D(p), B <= r, r <= p PROVE D(r)
    <3>1. ~C(p)
      BY <1>F, <1>B, <1>3, <2>0, <2>6
    <3>2. pos <= r /\ r < e
      BY <1>S, <1>B, <1>h, <2>0, <2>6, <3>1
    <3> QED
      BY <1>S, <3>2
  <2>7. Fits(m, len + k, h, e, more2)
    BY <1>G, <1>w, <2>2, <2>3, <2>4, <2>5, <2>6
  <2> QED
    BY <1>1, <1>h, <2>7
<1>4. CASE n # 0 /\ pos < E
  <2>0. /\ pos <= B /\ pos < e /\ N(E) \in Nat /\ N(pos) \in Nat /\ N(e) \in Nat /\ N(L) \in Nat
        /\ E - 1 \in Nat /\ C(E - 1) /\ L < E
    BY <1>h, <1>F, <1>m, <1>N, <1>4
  <2>1. e <= E - 1
    <3> SUFFICES ASSUME E - 1 < e PROVE FALSE
      BY <1>h, <2>0
    <3> QED
      BY <1>S, <1>4, <2>0
  <2>2. e <= B
    <3> SUFFICES ASSUME B < e PROVE FALSE
      BY <1>h, <1>B
    <3>1. B <= E - 1
      BY <1>h, <1>B, <2>0, <2>1
    <3>2. C(B)
      BY <1>B, <1>F, <2>0, <3>1
    <3> QED
      BY <1>B, <1>S, <2>0, <3>2
  <2>3. pos < B /\ N(pos) = N(L)
    <3>1. pos < B
      BY <1>h, <1>B, <2>0, <2>2
    <3>2. N(pos) <= N(L) /\ N(L) <= N(pos)
      BY <1>h, <1>B, <1>N, <1>m, <3>1
    <3> QED
      BY <2>0, <3>1, <3>2
  <2>4. k = N(e) - N(L)
    <3>1. pos # B
      BY <1>h, <1>B, <2>3
    <3> QED
      BY <1>k, <1>4, <1>N, <2>0, <2>3, <3>1
  <2>5. \A p \in Nat : D(p) => p < E
    BY <1>S, <1>F, <1>h, <2>0, <2>1
  <2>6. D(E - 1)
    BY <1>S, <2>0
  <2>7. ASSUME NEW p \in Nat, NEW r \in Nat, D(p), B <= r, r <= p PROVE D(r)
    <3>1. ~(pos <= p /\ p < e)
      BY <1>h, <1>B, <2>2, <2>7
    <3>2. C(p)
      BY <1>S, <2>7, <3>1
    <3> QED
      BY <1>F, <1>S, <2>7, <3>2
  <2>8. B - 1 \in Nat
    BY <1>h, <1>B
  <2>9. CASE e = B
    <3>1. k = 1
      BY <1>B, <2>0, <2>4, <2>9
    <3>2. C(B)
      BY <1>B, <1>F, <2>0, <2>1, <2>9
    <3>3. pos <= B - 1 /\ B - 1 < e
      BY <1>B, <2>3, <2>9
    <3>4. ~C(B - 1) /\ D(B - 1)
      BY <1>S, <2>8, <3>3
    <3>5. more = 0
      BY <1>F, <3>2, <3>4
    <3>6. len + k = 1 + N(E) - d + 1
      BY <1>F, <1>N, <2>0, <3>1, <3>5
    <3>7. Fits(m, len + k, h, E, 1)
      BY <1>G, <1>F, <2>5, <2>6, <2>7, <3>4, <3>6
    <3> QED
      BY <1>1, <3>7
  <2>10. CASE e < B
    <3>1. k = 0
      <4>1. N(e) <= N(L) /\ N(L) <= N(e)
        BY <1>h, <1>B, <1>N, <1>m, <2>10, <2>0
      <4> QED
        BY <2>0, <2>4, <4>1
    <3>2. D(B) /\ ~D(B - 1) => C(B) /\ ~C(B - 1)
      BY <1>S, <1>B, <1>h, <2>8, <2>10
    <3>3. len + k = 1 + N(E) - d + more
      BY <1>F, <3>1
    <3>4. Fits(m, len + k, h, E, more)
      BY <1>G, <1>F, <2>5, <2>6, <2>7, <3>2, <3>3
    <3> QED
      BY <1>1, <3>4
  <2> QED
    BY <1>h, <1>B, <2>2, <2>9, <2>10
<1> QED
  BY <1>2, <1>3, <1>4

\* The first block begins at lastSeq and is taken over into the safe part: the
\* other blocks stay where they are, seen from the new lastSeq.
LEMMA AdvanceList ==
    ASSUME NEW L \in Nat, NEW m \in Seq(Block), Len(m) >= 1, Apart(m, L),
           Up(L, m[1].head) = L, NEW T, T = Up(L, m[1].tail)
    PROVE  /\ T \in Nat /\ L <= T
           /\ Tail(m) \in Seq(Block) /\ Len(Tail(m)) = Len(m) - 1
           /\ \A i \in 1 .. Len(Tail(m)) :
                /\ Tail(m)[i] = m[i+1] /\ T < Up(L, m[i+1].head)
                /\ Up(T, Tail(m)[i].head) = Up(L, m[i+1].head)
                /\ Up(T, Tail(m)[i].tail) = Up(L, m[i+1].tail)
           /\ Apart(Tail(m), T)
           /\ \A p \in Nat : Covered(Tail(m), T, p) <=> Covered(m, L, p) /\ T <= p
           /\ \A p \in Nat : L <= p /\ p < T => Covered(m, L, p)
<1> DEFINE G(j) == Up(L, m[j].head)
           U(j) == Up(L, m[j].tail)
           t == Tail(m)
<1>l. Len(m) \in Nat /\ 1 \in 1 .. Len(m) /\ m # << >>
  BY LenProperties
<1>1. \A j \in 1 .. Len(m) : /\ G(j) \in Nat /\ U(j) \in Nat /\ L <= G(j) /\ L <= U(j)
                             /\ m[j].head \in Seqs /\ m[j].tail \in Seqs
  BY BlockPositions
<1>2. /\ \A j \in 1 .. Len(m) : G(j) <= U(j)
      /\ \A i, j \in 1 .. Len(m) : i < j => U(i) < G(j)
  BY DEF Apart
<1>3. T \in Nat /\ L <= T /\ T = U(1) /\ G(1) = L
  BY <1>l, <1>1
<1>4. /\ t \in Seq(Block) /\ Len(t) = Len(m) - 1
      /\ \A i \in 1 .. Len(t) : t[i] = m[i+1]
  BY <1>l, HeadTailProperties
<1> HIDE DEF t
<1>5. ASSUME NEW i \in 1 .. Len(t)
      PROVE  /\ i + 1 \in 1 .. Len(m) /\ t[i] = m[i+1] /\ T < G(i+1)
             /\ Up(T, t[i].head) = G(i+1) /\ Up(T, t[i].tail) = U(i+1)
  <2>1. i + 1 \in 1 .. Len(m) /\ 1 < i + 1
    BY <1>l, <1>4
  <2>2. t[i] = m[i+1]
    BY <1>4
  <2>3. T < G(i+1) /\ G(i+1) <= U(i+1) /\ G(i+1) \in Nat /\ U(i+1) \in Nat
    BY <1>l, <1>1, <1>2, <1>3, <2>1
  <2>4. T <= G(i+1) /\ T <= U(i+1)
    BY <1>3, <2>3
  <2>5. m[i+1].head \in Seqs /\ m[i+1].tail \in Seqs
    BY <1>1, <2>1
  <2>6. Up(T, m[i+1].head) = G(i+1) /\ Up(T, m[i+1].tail) = U(i+1)
    BY <1>3, <2>4, <2>5, UpShift
  <2> QED
    BY <2>1, <2>2, <2>3, <2>6
<1>c. /\ \A p : Covered(m, L, p) <=> \E i \in 1 .. Len(m) : G(i) <= p /\ p < U(i)
      /\ \A p : Covered(t, T, p) <=> \E i \in 1 .. Len(t) : Up(T, t[i].head) <= p /\ p < Up(T, t[i].tail)
  BY DEF Covered
<1>r. \A i \in 1 .. Len(t) : /\ t[i] = m[i+1] /\ T < Up(L, m[i+1].head)
                             /\ Up(T, t[i].head) = Up(L, m[i+1].head)
                             /\ Up(T, t[i].tail) = Up(L, m[i+1].tail)
  BY <1>5
<1> HIDE DEF G, U
<1>6. Apart(t, T)
  <2>1. \A i \in 1 .. Len(t) : Up(T, t[i].head) <= Up(T, t[i].tail)
    BY <1>2, <1>5
  <2>2. ASSUME NEW i \in 1 .. Len(t), NEW j \in 1 .. Len(t), i < j
        PROVE  Up(T, t[i].tail) < Up(T, t[j].head)
    <3>1. i + 1 \in 1 .. Len(m) /\ j + 1 \in 1 .. Len(m) /\ i + 1 < j + 1
      BY <1>l, <1>4, <2>2
    <3> QED
      BY <1>2, <1>5, <3>1
  <2> QED
    BY <2>1, <2>2 DEF Apart
<1>7. ASSUME NEW p \in Nat PROVE Covered(t, T, p) <=> Covered(m, L, p) /\ T <= p
  <2>1. ASSUME Covered(t, T, p) PROVE Covered(m, L, p) /\ T <= p
    <3>1. PICK i \in 1 .. Len(t) : Up(T, t[i].head) <= p /\ p < Up(T, t[i].tail)
      BY <1>c, <2>1
    <3>2. i + 1 \in 1 .. Len(m) /\ G(i+1) <= p /\ p < U(i+1) /\ T < G(i+1) /\ G(i+1) \in Nat
      BY <1>1, <1>5, <3>1
    <3> QED
      BY <1>3, <1>c, <3>2
  <2>2. ASSUME Covered(m, L, p), T <= p PROVE Covered(t, T, p)
    <3>1. PICK j \in 1 .. Len(m) : G(j) <= p /\ p < U(j)
      BY <1>c, <2>2
    <3>2. j # 1
      BY <1>3, <2>2, <3>1
    <3>3. PICK i \in 1 .. Len(t) : j = i + 1
      <4>1. j - 1 \in 1 .. Len(t) /\ j = (j - 1) + 1
        BY <1>l, <1>4, <3>2
      <4> QED
        BY <4>1
    <3>4. Up(T, t[i].head) <= p /\ p < Up(T, t[i].tail)
      BY <1>5, <3>1, <3>3
    <3> QED
      BY <1>c, <3>4
  <2> QED
    BY <2>1, <2>2
<1>8. \A p \in Nat : L <= p /\ p < T => Covered(m, L, p)
  BY <1>l, <1>3, <1>c
<1> QED
  BY <1>3, <1>4, <1>r, <1>6, <1>7, <1>8 DEF t

\* List l is what is left of list m when the blocks up to the end of g are
\* taken over.
LeftOver(l, m, h, g) ==
    /\ \A p \in Nat : Covered(l, g.last, p) <=> Covered(m, h.last, p) /\ g.last <= p
    /\ \A p \in Nat : h.last <= p /\ p < g.last => Covered(m, h.last, p)

\* The count of the nodes is right when lastSeq moves from h.last to g.last.
StillFits(h, l, m, len, E, more, g) ==
    /\ g \in History /\ g.read = h.read /\ g.last <= E
    /\ Fits(l, len, g, E, more)

\* Taking the first block over keeps the count of the nodes.
LEMMA AdvanceFits ==
    ASSUME NEW h \in History, h.read <= h.last, NEW l, NEW m, NEW len,
           NEW E \in Nat, NEW more \in {0, 1}, Fits(m, len, h, E, more),
           NEW g \in History, g.read = h.read, h.last <= g.last, LeftOver(l, m, h, g)
    PROVE  StillFits(h, l, m, len, E, more, g)
<1> DEFINE L == h.last
           T == g.last
           C(p) == Covered(l, T, p)
           D(p) == Covered(m, L, p)
           B == Border(L)
           A == Border(T)
           N(p) == p \div NodeSize
<1>h. L \in Nat /\ g \in History /\ T \in Nat /\ g.last = T /\ g.read = h.read
  BY DEF History
<1>P. \A p : Place(g, p) = Place(h, p)
  BY <1>h DEF Place
<1>N. /\ \A p \in Nat : N(p) \in Nat
      /\ \A p, r \in Nat : p <= r => N(p) <= N(r)
  BY <1>h, Places
<1>B. /\ B \in Nat /\ L < B /\ N(B) = N(L) + 1
      /\ \A p \in Nat : p < B <=> N(p) <= N(L)
  BY <1>h, Borders
<1>A. /\ A \in Nat /\ T < A /\ N(A) = N(T) + 1
      /\ \A p \in Nat : p < A <=> N(p) <= N(T)
  BY <1>h, Borders
<1>b. /\ A = ((N(T)) + 1) * NodeSize /\ B = ((N(L)) + 1) * NodeSize
  BY DEF Border
<1>F. /\ L <= E
      /\ \A p \in Nat : D(p) => p < E
      /\ E = L \/ D(E - 1)
      /\ \A p, r \in Nat : D(p) /\ B <= r /\ r <= p => D(r)
      /\ len = Place(h, E) + more
      /\ Place(h, E) <= WindowSize
      /\ D(B) /\ ~D(B - 1) => more = 0
  BY DEF Fits
<1>G. Fits(l, len, g, E, more) <=>
        /\ T <= E
        /\ \A p \in Nat : C(p) => p < E
        /\ E = T \/ C(E - 1)
        /\ \A p, r \in Nat : C(p) /\ A <= r /\ r <= p => C(r)
        /\ len = Place(h, E) + more
        /\ Place(h, E) <= WindowSize
        /\ C(A) /\ ~C(A - 1) => more = 0
  BY <1>h, <1>P DEF Fits
<1>C. /\ \A p \in Nat : C(p) <=> D(p) /\ T <= p
      /\ \A p \in Nat : L <= p /\ p < T => D(p)
      /\ L <= T
  BY DEF LeftOver
<1> HIDE DEF L, C, D, B, A, N, T
<1>1. T <= E
  <2> SUFFICES ASSUME E < T PROVE FALSE
    BY <1>h
  <2>1. T - 1 \in Nat /\ L <= T - 1 /\ T - 1 < T /\ E <= T - 1
    BY <1>h, <1>F
  <2> QED
    BY <1>C, <1>F, <2>1
<1>2. E = T \/ C(E - 1)
  <2> SUFFICES ASSUME E # T PROVE C(E - 1)
    OBVIOUS
  <2>1. E - 1 \in Nat /\ T <= E - 1 /\ E # L
    BY <1>h, <1>C, <1>1
  <2> QED
    BY <1>C, <1>F, <2>1
<1>3. B <= A
  BY <1>h, <1>N, <1>B, <1>A, <1>C
<1>4. ASSUME NEW p \in Nat, NEW r \in Nat, C(p), A <= r, r <= p PROVE C(r)
  <2>1. D(p) /\ B <= r /\ T <= r
    BY <1>h, <1>A, <1>B, <1>C, <1>3, <1>4
  <2> QED
    BY <1>C, <1>F, <1>4, <2>1
<1>5. C(A) /\ ~C(A - 1) => more = 0
  <2> SUFFICES ASSUME C(A), ~C(A - 1) PROVE more = 0
    OBVIOUS
  <2>1. A - 1 \in Nat /\ T <= A - 1 /\ A - 1 <= A
    BY <1>h, <1>A
  <2>2. D(A) /\ ~D(A - 1)
    BY <1>A, <1>C, <2>1
  <2>3. ~(B <= A - 1)
    BY <1>A, <1>F, <2>1, <2>2
  <2>4. A = B
    BY <1>A, <1>B, <1>3, <2>3
  <2> QED
    BY <1>F, <2>2, <2>4
<1>6. \A p \in Nat : C(p) => p < E
  BY <1>C, <1>F
<1>7. Fits(l, len, g, E, more)
  BY <1>F, <1>G, <1>1, <1>2, <1>4, <1>5, <1>6
<1> QED
  BY <1>h, <1>1, <1>7 DEF StillFits, T

-----------------------------------------------------------------------------
(* Allocation.                                                             *)

\* Nodes from malloc are new and different.
LEMMA MallocGives ==
    ASSUME NEW m \in Nat, Cardinality(Nodes \ heap) >= m
    PROVE  /\ Malloc(m) \in Seq(Nodes) /\ Len(Malloc(m)) = m
           /\ \A i \in 1 .. m : Malloc(m)[i] \in Nodes \ heap
           /\ \A i, j \in 1 .. m : Malloc(m)[i] = Malloc(m)[j] => i = j
<1> DEFINE F == Nodes \ heap
           c == Cardinality(F)
<1>1. IsFiniteSet(F)
  BY Sizes, FS_Difference
<1>2. c \in Nat /\ ExistsBijection(1 .. c, F)
  BY <1>1, FS_CardinalityType
<1>c. m <= c
  BY <1>2
<1> HIDE DEF F, c
<1>3. PICK f : f \in [1 .. c -> F] /\ \A i, j \in 1 .. c : f[i] = f[j] => i = j
  BY <1>2 DEF ExistsBijection, Bijection, Injection, IsInjective
<1> DEFINE g == [i \in 1 .. m |-> f[i]]
<1>4. 1 .. m \subseteq 1 .. c
  BY <1>2, <1>c
<1>5. g \in [1 .. m -> F]
  BY <1>3, <1>4
<1>6. \A i, j \in 1 .. m : g[i] = g[j] => i = j
  BY <1>3, <1>4
<1>7. g \in Injection(1 .. m, F)
  BY <1>5, <1>6 DEF Injection, IsInjective
<1>8. Malloc(m) \in Injection(1 .. m, F)
  BY <1>7 DEF Malloc, F
<1>9. PICK q : q = Malloc(m)
  OBVIOUS
<1>10. /\ q \in [1 .. m -> F] /\ \A i, j \in 1 .. m : q[i] = q[j] => i = j
  BY <1>8, <1>9 DEF Injection, IsInjective
<1>11. q = [i \in 1 .. m |-> q[i]] /\ \A i \in 1 .. m : q[i] \in Nodes
  BY <1>10 DEF F
<1>12. q \in Seq(Nodes) /\ Len(q) = m
  BY <1>11
<1> QED
  BY <1>9, <1>10, <1>12 DEF F

\* The nodes altusWQNewNode appends: first those of the pool, but not its last
\* one, then new ones.
LEMMA NewNodesGive ==
    ASSUME pool \in Seq(Nodes), Len(pool) >= 1, NEW k \in Nat,
           Cardinality(Nodes \ heap) >= k - Recycled(k)
    PROVE  /\ Recycled(k) \in 0 .. (Len(pool) - 1) /\ Recycled(k) <= k
           /\ NewNodes(k) \in Seq(Nodes) /\ Len(NewNodes(k)) = k
           /\ \A i \in 1 .. Recycled(k) : NewNodes(k)[i] = pool[i]
           /\ \A i \in (Recycled(k) + 1) .. k : NewNodes(k)[i] \in Nodes \ heap
           /\ \A i, j \in (Recycled(k) + 1) .. k : NewNodes(k)[i] = NewNodes(k)[j] => i = j
<1> DEFINE c == Recycled(k)
           s == SubSeq(pool, 1, c)
           q == Malloc(k - c)
           t == NewNodes(k)
<1>p. Len(pool) \in Nat /\ \A i \in 1 .. Len(pool) : pool[i] \in Nodes
  BY LenProperties, ElementOfSeq
<1>1. c \in 0 .. (Len(pool) - 1) /\ c <= k /\ k - c \in Nat
  BY <1>p DEF Recycled
<1>t. t = s \o q
  BY DEF NewNodes
<1>a. Cardinality(Nodes \ heap) >= k - c
  OBVIOUS
<1> HIDE DEF c, t
<1>2. s \in Seq(Nodes) /\ Len(s) = c /\ \A i \in 1 .. c : s[i] = pool[i]
  <2>1. \A i \in 1 .. c : pool[i] \in Nodes
    BY <1>p, <1>1
  <2> QED
    BY <1>1, <2>1, SubSeqProperties
<1>3. /\ q \in Seq(Nodes) /\ Len(q) = k - c
      /\ \A i \in 1 .. (k - c) : q[i] \in Nodes \ heap
      /\ \A i, j \in 1 .. (k - c) : q[i] = q[j] => i = j
  BY <1>1, <1>a, MallocGives
<1> HIDE DEF s, q
<1>4. /\ t \in Seq(Nodes) /\ Len(t) = k
      /\ \A i \in 1 .. k : t[i] = IF i <= c THEN s[i] ELSE q[i - c]
  <2>1. /\ s \o q \in Seq(Nodes) /\ Len(s \o q) = Len(s) + Len(q)
        /\ \A i \in 1 .. Len(s) + Len(q) : (s \o q)[i] =
              IF i <= Len(s) THEN s[i] ELSE q[i - Len(s)]
    <3>1. s \in Seq(Nodes) /\ q \in Seq(Nodes)
      BY <1>2, <1>3
    <3> QED
      BY <3>1, ConcatProperties
  <2>2. Len(s) + Len(q) = k /\ Len(s) = c
    BY <1>1, <1>2, <1>3
  <2> QED
    BY <1>t, <2>1, <2>2
<1>5. \A i \in 1 .. c : t[i] = pool[i]
  BY <1>1, <1>2, <1>4
<1>6. \A i \in (c + 1) .. k : i - c \in 1 .. (k - c) /\ t[i] = q[i - c]
  BY <1>1, <1>4
<1>7. \A i \in (c + 1) .. k : t[i] \in Nodes \ heap
  BY <1>3, <1>6
<1>8. ASSUME NEW i \in (c + 1) .. k, NEW j \in (c + 1) .. k, t[i] = t[j] PROVE i = j
  <2>1. i - c = j - c
    BY <1>3, <1>6, <1>8
  <2> QED
    BY <1>1, <2>1
<1> QED
  BY <1>1, <1>4, <1>5, <1>7, <1>8 DEF c, t

-----------------------------------------------------------------------------
(* What the steps do to windows.                                           *)

\* the beginning of the node of a position
Base(L) == NodeSize * (L \div NodeSize)

\* It is not behind the position.
LEMMA Bases ==
    ASSUME NEW L \in Nat
    PROVE  Base(L) \in Nat /\ Base(L) <= L /\ Base(L) = L - (L % NodeSize)
<1>1. PICK r : r = L % NodeSize
  OBVIOUS
<1>2. r \in Nat
  BY <1>1, DivMod, Sizes
<1>3. Base(L) \in Nat /\ Base(L) = L - r
  BY <1>1, Borders DEF Base
<1> QED
  BY <1>1, <1>2, <1>3

\* altusWQPut computes from numbers how far a position lies behind the
\* beginning of the node of safe_tail.
LEMMA Distance ==
    ASSUME NEW L \in Nat, NEW p \in Nat, L <= p, p < L + Half
    PROVE  /\ Minus(p % SeqSpace, Minus(L % SeqSpace, L % NodeSize)) = p - Base(L)
           /\ Base(L) \in Nat /\ Base(L) <= L
<1> DEFINE v == L % NodeSize
           B == Base(L)
<1>1. v \in 0 .. (NodeSize - 1) /\ B \in Nat /\ B = L - v
  BY Borders, DivMod, Sizes DEF Base
<1>2. NodeSize <= Half /\ SeqSpace = 2 * Half /\ Half \in Nat \ {0} /\ NodeSize \in Nat
  <2>1. NodeSize * 1 <= NodeSize * WindowSize
    BY Sizes, TimesMonotonic
  <2>2. NodeSize * WindowSize = WindowSize * NodeSize /\ NodeSize * 1 = NodeSize
    BY Sizes
  <2> QED
    BY HalfFits, Sizes, <2>1, <2>2
<1> HIDE DEF v, B
<1>3. v \in Nat /\ v <= L /\ v < SeqSpace
  BY <1>1, <1>2
<1>4. Minus(L % SeqSpace, v) = (L - v) % SeqSpace
  BY <1>3, MinusOfNumber
<1>5. B <= p /\ p < B + SeqSpace
  BY <1>1, <1>2
<1>6. Up(B, p % SeqSpace) = p
  BY <1>1, <1>5, UpOfNumber
<1>7. Minus(p % SeqSpace, B % SeqSpace) = p - B
  <2>1. Minus(p % SeqSpace, B % SeqSpace) \in Int
    BY <1>1, Sizes DEF Minus
  <2> QED
    BY <1>1, <1>6, <2>1 DEF Up
<1> QED
  BY <1>1, <1>3, <1>4, <1>7 DEF v, B

\* There is a node for every byte that the window holds.
LEMMA InNodes ==
    ASSUME NEW W \in Window, NEW h \in History, Numbers(W, h), Sized(W, h)
    PROVE  /\ W.safe \in 1 .. Len(W.nodes) /\ Len(W.nodes) \in Nat
           /\ Len(W.nodes) <= WindowSize + 1
           /\ \A p \in Nat : Holds(W, h, p) => h.read <= p /\ Place(h, p) \in 1 .. Len(W.nodes)
           /\ \A p \in Nat : Covered(W.ub_list, h.last, p) => h.last <= p
<1>w. W.nodes \in Seq(Nodes) /\ W.ub_list \in Seq(Block) /\ Len(W.nodes) \in Nat
  BY LenProperties DEF Window
<1>h. h.read \in Nat /\ h.last \in Nat /\ h.read <= h.last /\ W.safe = Place(h, h.last)
  BY DEF History, Numbers
<1>1. PICK E \in Nat, more \in {0, 1} : Fits(W.ub_list, Len(W.nodes), h, E, more)
  BY DEF Sized
<1>2. /\ h.last <= E /\ Len(W.nodes) = Place(h, E) + more /\ Place(h, E) <= WindowSize
      /\ \A p \in Nat : Covered(W.ub_list, h.last, p) => p < E
  BY <1>1 DEF Fits
<1>3. /\ \A p, r \in Nat : p <= r => Place(h, p) <= Place(h, r)
      /\ \A p \in Nat : h.read <= p => Place(h, p) \in Nat /\ 1 <= Place(h, p)
  BY Places
<1>4. \A p \in Nat : Covered(W.ub_list, h.last, p) => h.last <= p
  <2> SUFFICES ASSUME NEW p \in Nat, Covered(W.ub_list, h.last, p) PROVE h.last <= p
    OBVIOUS
  <2>1. PICK i \in 1 .. Len(W.ub_list) : Up(h.last, W.ub_list[i].head) <= p
    BY DEF Covered
  <2>2. h.last <= Up(h.last, W.ub_list[i].head) /\ Up(h.last, W.ub_list[i].head) \in Nat
    BY <1>w, <1>h, BlockPositions
  <2> QED
    BY <1>h, <2>1, <2>2
<1>5. ASSUME NEW p \in Nat, h.read <= p, p <= E PROVE Place(h, p) \in 1 .. Len(W.nodes)
  <2>1. Place(h, p) <= Place(h, E) /\ Place(h, p) \in Nat /\ 1 <= Place(h, p)
    BY <1>3, <1>5
  <2>2. Place(h, E) \in Nat
    BY <1>h, <1>2, <1>3
  <2> QED
    BY <1>w, <1>2, <2>1, <2>2
<1>6. W.safe \in 1 .. Len(W.nodes)
  BY <1>h, <1>2, <1>5
<1>7. Len(W.nodes) <= WindowSize + 1
  <2>1. Place(h, E) \in Nat
    BY <1>h, <1>2, <1>3
  <2> QED
    BY <1>2, <2>1, Sizes
<1>8. ASSUME NEW p \in Nat, Holds(W, h, p)
      PROVE  h.read <= p /\ Place(h, p) \in 1 .. Len(W.nodes)
  <2>1. h.read <= p /\ p <= E
    BY <1>h, <1>2, <1>4, <1>8 DEF Holds
  <2> QED
    BY <1>5, <2>1
<1> QED
  BY <1>w, <1>4, <1>6, <1>7, <1>8

\* A step that touches none of its nodes keeps a window sound.
LEMMA SoundKept ==
    ASSUME NEW W \in Window, NEW h \in History, Sound(W, h),
           \A i \in 1 .. Len(W.nodes) : /\ valid'[W.nodes[i]] = valid[W.nodes[i]]
                                        /\ mem'[W.nodes[i]] = mem[W.nodes[i]]
    PROVE  SoundIn(W, h, valid', mem')
<1>1. Numbers(W, h) /\ Filled(W, h, valid) /\ Listed(W, h) /\ Sized(W, h) /\ Bytes(W, h, mem)
  BY DEF Sound, SoundIn
<1>2. /\ W.safe \in 1 .. Len(W.nodes) /\ Len(W.nodes) \in Nat
      /\ \A p \in Nat : Holds(W, h, p) => Place(h, p) \in 1 .. Len(W.nodes)
  BY <1>1, InNodes
<1>3. Filled(W, h, valid')
  <2>1. 1 .. (W.safe - 1) \subseteq 1 .. Len(W.nodes)
    BY <1>2
  <2> QED
    BY <1>1, <1>2, <2>1 DEF Filled
<1>4. Bytes(W, h, mem')
  BY <1>1, <1>2 DEF Bytes, Holds
<1> QED
  BY <1>1, <1>3, <1>4 DEF SoundIn

\* Max of a set of numbers that is bounded and not empty is one of them.
LEMMA MaxIn ==
    ASSUME NEW b \in Int, NEW S \in SUBSET (0 .. b), S # {}
    PROVE  Max(S) \in S
<1> DEFINE D == {b - x : x \in S}
<1>1. D \in SUBSET Nat /\ D # {}
  <2>1. \A x \in S : b - x \in Nat
    OBVIOUS
  <2> QED
    BY <2>1
<1>2. PICK y \in D : \A z \in D : y <= z
  <2> HIDE DEF D
  <2> QED
    BY <1>1, MinOfNats
<1>3. PICK x \in S : y = b - x
  BY <1>2
<1>4. \A z \in S : x >= z
  <2> SUFFICES ASSUME NEW z \in S PROVE x >= z
    OBVIOUS
  <2>1. b - z \in D
    OBVIOUS
  <2>2. y <= b - z
    BY <1>2, <2>1
  <2> QED
    BY <1>3, <2>2
<1> QED
  BY <1>4 DEF Max

\* Places and offsets, counted from the beginning of the node of safe_tail.
LEMMA FromBase ==
    ASSUME NEW h \in History, NEW p \in Nat, h.last <= p
    PROVE  /\ p - Base(h.last) \in Nat
           /\ Place(h, h.last) + ((p - Base(h.last)) \div NodeSize) = Place(h, p)
           /\ (p - Base(h.last)) % NodeSize = p % NodeSize
           /\ (p - Base(h.last)) \div NodeSize = (p \div NodeSize) - (h.last \div NodeSize)
<1>1. h.last \in Nat /\ h.read \in Nat
  BY DEF History
<1>2. h.last \div NodeSize \in Nat /\ p \div NodeSize \in Nat /\ h.read \div NodeSize \in Nat
  BY <1>1, Places
<1>3. NodeSize * (h.last \div NodeSize) <= p
  <2>1. Base(h.last) \in Nat /\ Base(h.last) <= h.last
    BY <1>1, Bases
  <2>2. Base(h.last) <= p
    BY <1>1, <2>1
  <2> QED
    BY <2>2 DEF Base
<1>4. PICK q \in Nat : q = h.last \div NodeSize
  BY <1>2
<1>5. /\ p - NodeSize * q \in Nat
      /\ (p - NodeSize * q) \div NodeSize = (p \div NodeSize) - q
      /\ (p - NodeSize * q) % NodeSize = p % NodeSize
  BY <1>3, <1>4, DivSub
<1>6. Base(h.last) = NodeSize * q
  BY <1>4 DEF Base
<1>7. Place(h, h.last) + ((p \div NodeSize) - q) = Place(h, p)
  <2>1. PICK x \in Nat, d \in Nat : x = p \div NodeSize /\ d = h.read \div NodeSize
    BY <1>2
  <2>2. Place(h, h.last) = 1 + q - d /\ Place(h, p) = 1 + x - d
    BY <1>4, <2>1 DEF Place
  <2> QED
    BY <2>1, <2>2
<1> QED
  BY <1>4, <1>5, <1>6, <1>7

\* The byte at o of node x in the contents M: a byte of the block that belongs
\* there, or, when there is none, the byte that was there.
HoldsByte(h, X, pos, n, M, x, o) ==
    \/ \E p \in Nat : /\ pos <= p /\ p < pos + n
                      /\ X[Place(h, p)] = x /\ p % NodeSize = o
                      /\ M[x][o] = p
    \/ /\ M[x][o] = mem[x][o]
       /\ \A p \in Nat : pos <= p /\ p < pos + n =>
             ~(X[Place(h, p)] = x /\ p % NodeSize = o)

\* What altusWQPut writes: byte p at the place of p, for the positions of the
\* block, and nothing else.
LEMMA WrittenAt ==
    ASSUME NEW h \in History, NEW X, NEW pos \in Nat, NEW n \in Nat, h.last <= pos,
           NEW x \in Nodes, NEW o \in Offsets, mem \in [Nodes -> [Offsets -> Nat \cup {Junk}]],
           NEW M, M = Written(X, Place(h, h.last), pos - Base(h.last), pos, n)
    PROVE  HoldsByte(h, X, pos, n, M, x, o)
<1> DEFINE off == pos - Base(h.last)
           safe == Place(h, h.last)
           At(d) == X[safe + ((off + d) \div NodeSize)] = x /\ (off + d) % NodeSize = o
           hit == {d \in 0 .. (n - 1) : At(d)}
           c == M[x][o]
<1>1. c = IF hit = {} THEN mem[x][o] ELSE pos + Max(hit)
  BY DEF Written
<1>2. ASSUME NEW d \in Nat
      PROVE  At(d) <=> X[Place(h, pos + d)] = x /\ (pos + d) % NodeSize = o
  <2>1. pos + d \in Nat /\ h.last <= pos + d /\ h.last \in Nat
    BY DEF History
  <2>2. PICK p \in Nat : p = pos + d
    BY <2>1
  <2>3. /\ Place(h, h.last) + ((p - Base(h.last)) \div NodeSize) = Place(h, p)
        /\ (p - Base(h.last)) % NodeSize = p % NodeSize
    BY <2>1, <2>2, FromBase
  <2>4. off + d = p - Base(h.last)
    <3>1. Base(h.last) \in Nat
      BY <2>1, Borders DEF Base
    <3> QED
      BY <2>2, <3>1
  <2> QED
    BY <2>2, <2>3, <2>4
<1> HIDE DEF At, c
<1>3. CASE hit = {}
  <2>1. ASSUME NEW p \in Nat, pos <= p, p < pos + n
        PROVE  ~(X[Place(h, p)] = x /\ p % NodeSize = o)
    <3>1. PICK d \in 0 .. (n - 1) : p = pos + d
      <4>1. p - pos \in 0 .. (n - 1) /\ p = pos + (p - pos)
        BY <2>1
      <4> QED
        BY <4>1
    <3>2. ~At(d)
      BY <1>3
    <3> QED
      BY <1>2, <3>1, <3>2
  <2> QED
    BY <1>1, <1>3, <2>1 DEF c, HoldsByte
<1>4. CASE hit # {}
  <2>1. hit \in SUBSET (0 .. (n - 1)) /\ n - 1 \in Int
    OBVIOUS
  <2>2. Max(hit) \in hit
    <3> HIDE DEF hit
    <3> QED
      BY <1>4, <2>1, MaxIn
  <2>3. PICK d \in 0 .. (n - 1) : d = Max(hit) /\ At(d)
    BY <2>2
  <2>4. pos + d \in Nat /\ pos <= pos + d /\ pos + d < pos + n /\ c = pos + d
    BY <1>1, <1>4, <2>3
  <2>5. X[Place(h, pos + d)] = x /\ (pos + d) % NodeSize = o
    BY <1>2, <2>3
  <2> QED
    BY <2>4, <2>5 DEF c, HoldsByte
<1> QED
  BY <1>3, <1>4

\* The counts v: the nodes from that of h.last up to that of T are full, T ends
\* the last one.
CountsUpTo(h, X, T, v) ==
    /\ v \in [Nodes -> 0 .. NodeSize]
    /\ \A i \in 1 .. Len(X) :
         /\ i < Place(h, h.last) => v[X[i]] = valid[X[i]]
         /\ Place(h, h.last) <= i /\ i < Place(h, T) => v[X[i]] = NodeSize
         /\ i = Place(h, T) => v[X[i]] = T % NodeSize
    /\ \A x \in Nodes : (\A i \in 1 .. Len(X) : X[i] # x) => v[x] = valid[x]

\* What altusWQPut leaves in validBlockCount when safe_tail moves up to the node
\* of position T.
LEMMA AdvancedAt ==
    ASSUME NEW h \in History, h.read <= h.last, NEW X \in Seq(Nodes),
           \A i, j \in 1 .. Len(X) : X[i] = X[j] => i = j,
           NEW T \in Nat, h.last <= T, Place(h, T) <= Len(X), valid \in [Nodes -> 0 .. NodeSize],
           NEW v, v = AdvancedValid(X, Place(h, h.last), T - Base(h.last))
    PROVE  CountsUpTo(h, X, T, v)
<1> DEFINE safe == Place(h, h.last)
           q == (T - Base(h.last)) \div NodeSize
           r == (T - Base(h.last)) % NodeSize
           z == Place(h, T)
<1>h. h.last \in Nat /\ h.read \in Nat
  BY DEF History
<1>1. safe + q = z /\ r = T % NodeSize
  BY FromBase
<1>2. safe \in Nat /\ 1 <= safe /\ z \in Nat /\ safe <= z /\ z <= Len(X) /\ Len(X) \in Nat
  <2>1. safe \in Nat /\ 1 <= safe /\ z \in Nat /\ 1 <= z /\ safe <= z
    <3>1. h.read <= T
      BY <1>h
    <3>2. /\ \A p, r2 \in Nat : p <= r2 => Place(h, p) <= Place(h, r2)
          /\ \A p \in Nat : h.read <= p => Place(h, p) \in Nat /\ 1 <= Place(h, p)
      BY Places
    <3> QED
      BY <1>h, <3>1, <3>2
  <2>2. Len(X) \in Nat /\ z <= Len(X)
    BY LenProperties
  <2> QED
    BY <2>1, <2>2
<1>3. r \in 0 .. NodeSize
  <2>1. T % NodeSize \in 0 .. (NodeSize - 1)
    BY DivMod, Sizes
  <2> QED
    BY <1>1, <2>1, Sizes
<1>4. v = [x \in Nodes |-> IF \E i \in safe .. (z - 1) : X[i] = x THEN NodeSize
                           ELSE IF X[z] = x THEN r ELSE valid[x]]
  <2>0. q \in Int
    <3>1. q = (T \div NodeSize) - (h.last \div NodeSize)
      BY FromBase
    <3>2. T \div NodeSize \in Nat /\ h.last \div NodeSize \in Nat
      BY <1>h, Places
    <3> HIDE DEF q
    <3> QED
      BY <3>1, <3>2
  <2>1. safe + q - 1 = z - 1
    <3> HIDE DEF safe, q, z
    <3> QED
      BY <1>1, <1>2, <2>0
  <2> QED
    BY <1>1, <2>1 DEF AdvancedValid
<1>x. \A i \in 1 .. Len(X) : X[i] \in Nodes
  BY ElementOfSeq
<1>t. T % NodeSize = r
  BY <1>1
<1> HIDE DEF safe, q, r, z
<1>5. v \in [Nodes -> 0 .. NodeSize]
  <2>1. NodeSize \in 0 .. NodeSize
    BY Sizes
  <2> QED
    BY <1>3, <1>4, <2>1
<1>6. ASSUME NEW i \in 1 .. Len(X)
      PROVE  /\ i < safe => v[X[i]] = valid[X[i]]
             /\ safe <= i /\ i < z => v[X[i]] = NodeSize
             /\ i = z => v[X[i]] = r
  <2>1. \A j \in safe .. (z - 1) : j \in 1 .. Len(X) /\ (X[j] = X[i] => j = i)
    BY <1>2
  <2>2. z \in 1 .. Len(X) /\ (X[z] = X[i] => z = i)
    BY <1>2
  <2>3. X[i] \in Nodes
    BY <1>x
  <2>4. ASSUME i < safe PROVE v[X[i]] = valid[X[i]]
    <3>1. ~\E j \in safe .. (z - 1) : X[j] = X[i]
      BY <1>2, <2>1, <2>4
    <3>2. X[z] # X[i]
      BY <1>2, <2>2, <2>4
    <3> QED
      BY <1>4, <2>3, <3>1, <3>2
  <2>5. ASSUME safe <= i, i < z PROVE v[X[i]] = NodeSize
    <3>1. i \in safe .. (z - 1)
      BY <1>2, <2>5
    <3> QED
      BY <1>4, <2>3, <3>1
  <2>6. ASSUME i = z PROVE v[X[i]] = r
    <3>1. ~\E j \in safe .. (z - 1) : X[j] = X[i]
      BY <1>2, <2>1, <2>6
    <3> QED
      BY <1>4, <2>3, <2>6, <3>1
  <2> QED
    BY <2>4, <2>5, <2>6
<1>7. ASSUME NEW x \in Nodes, \A i \in 1 .. Len(X) : X[i] # x PROVE v[x] = valid[x]
  <2>1. safe .. (z - 1) \subseteq 1 .. Len(X) /\ z \in 1 .. Len(X)
    BY <1>2
  <2> QED
    BY <1>4, <1>7, <2>1
<1> QED
  BY <1>5, <1>6, <1>7, <1>t DEF safe, z, CountsUpTo

\* Every allocated node is in a window or in the pool, at one place; while there
\* is a window the pool keeps at least one node.
Ownership ==
    /\ \A w \in DOMAIN win : \A i \in 1 .. Len(win[w].nodes) : win[w].nodes[i] \in heap
    /\ \A i \in 1 .. Len(pool) : pool[i] \in heap
    /\ \A x \in heap :
          \/ \E w \in DOMAIN win : \E i \in 1 .. Len(win[w].nodes) : win[w].nodes[i] = x
          \/ \E i \in 1 .. Len(pool) : pool[i] = x
    /\ \A v, w \in DOMAIN win :
          \A i \in 1 .. Len(win[v].nodes), j \in 1 .. Len(win[w].nodes) :
             win[v].nodes[i] = win[w].nodes[j] => v = w /\ i = j
    /\ \A i, j \in 1 .. Len(pool) : pool[i] = pool[j] => i = j
    /\ \A w \in DOMAIN win : \A i \in 1 .. Len(win[w].nodes), j \in 1 .. Len(pool) :
          win[w].nodes[i] # pool[j]
    /\ DOMAIN win # {} => Len(pool) >= 1

\* Nothing lies behind the part of the streams that is explored.
Bounded == \A w \in DOMAIN win : \A p \in Nat : Holds(win[w], hist[w], p) => p < MaxPos

\* The inductive invariant.
Inv == TypeOK /\ Ownership /\ WindowInv /\ Bounded

\* What TypeOK says of one window.
LEMMA WindowType ==
    ASSUME TypeOK, NEW w \in DOMAIN win
    PROVE  /\ w \in Windows /\ win[w] \in Window /\ hist[w] \in History /\ w # "pool"
           /\ win[w].nodes \in Seq(Nodes) /\ win[w].ub_list \in Seq(Block)
           /\ Len(win[w].nodes) \in Nat
           /\ win[w].safe \in 1 .. Len(win[w].nodes)
<1>1. w \in Windows /\ win[w] \in Window /\ hist[w] \in History /\ win[w].safe \in DOMAIN win[w].nodes
  BY DEF TypeOK, History
<1>2. w # "pool"
  BY <1>1, Sizes
<1>3. win[w].nodes \in Seq(Nodes) /\ win[w].ub_list \in Seq(Block)
  BY <1>1 DEF Window
<1>4. Len(win[w].nodes) \in Nat /\ DOMAIN win[w].nodes = 1 .. Len(win[w].nodes)
  BY <1>3, LenProperties
<1> QED
  BY <1>1, <1>2, <1>3, <1>4

\* X is the nodes of window w and k more, all different, none of another window.
Extends(w, k, X) ==
    /\ X \in Seq(Nodes) /\ Len(X) = Len(win[w].nodes) + k
    /\ \A i \in 1 .. Len(win[w].nodes) : X[i] = win[w].nodes[i]
    /\ \A i \in 1 .. k : X[Len(win[w].nodes) + i] = NewNodes(k)[i]
    /\ \A i, j \in 1 .. Len(X) : X[i] = X[j] => i = j
    /\ \A v \in DOMAIN win : v # w =>
          \A j \in 1 .. Len(win[v].nodes), i \in 1 .. Len(X) : X[i] # win[v].nodes[j]

\* The nodes of a window to which altusWQNewNode has added k nodes.
LEMMA ExtendedNodes ==
    ASSUME Inv, NEW w \in DOMAIN win, NEW k \in Nat,
           Cardinality(Nodes \ heap) >= k - Recycled(k),
           NEW X, X = win[w].nodes \o NewNodes(k)
    PROVE  Extends(w, k, X)
<1> DEFINE W == win[w]
           N == Len(W.nodes)
           c == Recycled(k)
           t == NewNodes(k)
<1>1. W.nodes \in Seq(Nodes) /\ N \in Nat /\ w # "pool"
  BY WindowType DEF Inv
<1>2. pool \in Seq(Nodes) /\ Len(pool) >= 1 /\ Len(pool) \in Nat
  BY LenProperties DEF Inv, TypeOK, Ownership
<1>3. /\ c \in 0 .. (Len(pool) - 1) /\ c <= k
      /\ t \in Seq(Nodes) /\ Len(t) = k
      /\ \A i \in 1 .. c : t[i] = pool[i]
      /\ \A i \in (c + 1) .. k : t[i] \in Nodes \ heap
      /\ \A i, j \in (c + 1) .. k : t[i] = t[j] => i = j
  BY <1>2, NewNodesGive
<1>4. /\ X \in Seq(Nodes) /\ Len(X) = N + k
      /\ \A i \in 1 .. (N + k) : X[i] = IF i <= N THEN W.nodes[i] ELSE t[i - N]
  <2>1. \A a, b \in Seq(Nodes) :
          /\ a \o b \in Seq(Nodes) /\ Len(a \o b) = Len(a) + Len(b)
          /\ \A i \in 1 .. Len(a) + Len(b) : (a \o b)[i] =
                IF i <= Len(a) THEN a[i] ELSE b[i - Len(a)]
    BY ConcatProperties
  <2>2. X = W.nodes \o t /\ t \in Seq(Nodes)
    BY <1>3
  <2>3. PICK a \in Seq(Nodes) : a = W.nodes
    BY <1>1
  <2>4. PICK b \in Seq(Nodes) : b = t
    BY <1>3
  <2>5. Len(a) = N /\ Len(b) = k /\ X = a \o b
    BY <1>3, <2>2, <2>3, <2>4
  <2>6. /\ X \in Seq(Nodes) /\ Len(X) = N + k
        /\ \A i \in 1 .. (N + k) : X[i] = IF i <= N THEN a[i] ELSE b[i - N]
    <3> HIDE DEF N, W, t
    <3>1. a \in Seq(Nodes) /\ b \in Seq(Nodes)
      BY <2>3, <2>4
    <3>2. /\ a \o b \in Seq(Nodes) /\ Len(a \o b) = Len(a) + Len(b)
          /\ \A i \in 1 .. Len(a) + Len(b) : (a \o b)[i] =
                IF i <= Len(a) THEN a[i] ELSE b[i - Len(a)]
      BY ONLY <2>1, <3>1
    <3> QED
      BY ONLY <2>5, <3>2
  <2> QED
    BY <2>3, <2>4, <2>6
<1>o. /\ \A i \in 1 .. N : W.nodes[i] \in heap
      /\ \A i, j \in 1 .. N : W.nodes[i] = W.nodes[j] => i = j
      /\ \A i \in 1 .. Len(pool) : pool[i] \in heap
      /\ \A i, j \in 1 .. Len(pool) : pool[i] = pool[j] => i = j
      /\ \A i \in 1 .. N, j \in 1 .. Len(pool) : W.nodes[i] # pool[j]
  BY <1>1 DEF Inv, Ownership
<1>v. ASSUME NEW v \in DOMAIN win, v # w
      PROVE  \A j \in 1 .. Len(win[v].nodes) :
                /\ win[v].nodes[j] \in heap
                /\ \A i \in 1 .. N : W.nodes[i] # win[v].nodes[j]
                /\ \A i \in 1 .. Len(pool) : pool[i] # win[v].nodes[j]
  BY <1>v DEF Inv, Ownership
<1> HIDE DEF W, N, c, t
<1>5. ASSUME NEW i \in 1 .. Len(X)
      PROVE  \/ i \in 1 .. N /\ X[i] = W.nodes[i]
             \/ i - N \in 1 .. c /\ X[i] = pool[i - N] /\ i - N \in 1 .. Len(pool)
             \/ i - N \in (c + 1) .. k /\ X[i] = t[i - N] /\ X[i] \notin heap
  <2>1. CASE i <= N
    <3>1. i \in 1 .. N /\ i \in 1 .. (N + k)
      BY <1>1, <1>4, <2>1
    <3> QED
      BY <1>4, <2>1, <3>1
  <2>2. CASE i > N
    <3>1. X[i] = t[i - N] /\ i - N \in 1 .. k
      BY <1>1, <1>4, <2>2
    <3>2. CASE i - N <= c
      BY <1>2, <1>3, <3>1, <3>2
    <3>3. CASE i - N > c
      BY <1>3, <3>1, <3>3
    <3> QED
      BY <1>1, <1>2, <1>3, <3>2, <3>3
  <2> QED
    BY <1>1, <2>1, <2>2
<1>6. ASSUME NEW i \in 1 .. Len(X), NEW j \in 1 .. Len(X), X[i] = X[j] PROVE i = j
  <2>1. i \in Int /\ j \in Int /\ N \in Int
    BY <1>1
  <2>2. CASE i \in 1 .. N /\ X[i] = W.nodes[i]
    <3>1. X[j] \in heap /\ ~(\E d \in 1 .. Len(pool) : X[j] = pool[d])
      BY <1>o, <1>6, <2>2
    <3>2. j \in 1 .. N /\ X[j] = W.nodes[j]
      BY <1>5, <1>6, <3>1
    <3> QED
      BY <1>o, <1>6, <2>2, <3>2
  <2>3. CASE i - N \in 1 .. c /\ X[i] = pool[i - N] /\ i - N \in 1 .. Len(pool)
    <3>1. i - N = j - N
      BY <1>o, <1>5, <1>6, <2>3
    <3> QED
      BY <2>1, <3>1
  <2>4. CASE i - N \in (c + 1) .. k /\ X[i] = t[i - N] /\ X[i] \notin heap
    <3>0. ~(j \in 1 .. N /\ X[j] = W.nodes[j])
      BY <1>o, <1>6, <2>4
    <3>2. ~(X[j] = pool[j - N] /\ j - N \in 1 .. Len(pool))
      BY <1>o, <1>6, <2>4
    <3>3. j - N \in (c + 1) .. k /\ X[j] = t[j - N]
      BY <1>5, <3>0, <3>2
    <3>1. i - N = j - N
      BY <1>3, <1>6, <2>4, <3>3
    <3> QED
      BY <2>1, <3>1
  <2> QED
    BY <1>5, <2>2, <2>3, <2>4
<1>7. ASSUME NEW v \in DOMAIN win, v # w, NEW j \in 1 .. Len(win[v].nodes), NEW i \in 1 .. Len(X)
      PROVE  X[i] # win[v].nodes[j]
  <2>1. /\ win[v].nodes[j] \in heap
        /\ \A y \in 1 .. N : W.nodes[y] # win[v].nodes[j]
        /\ \A y \in 1 .. Len(pool) : pool[y] # win[v].nodes[j]
    BY <1>7, <1>v
  <2>2. CASE i \in 1 .. N /\ X[i] = W.nodes[i]
    BY <2>1, <2>2
  <2>3. CASE X[i] = pool[i - N] /\ i - N \in 1 .. Len(pool)
    BY <2>1, <2>3
  <2>4. CASE X[i] \notin heap
    BY <2>1, <2>4
  <2> QED
    BY <1>5, <2>2, <2>3, <2>4
<1>8. ASSUME NEW i \in 1 .. N PROVE X[i] = W.nodes[i]
  BY <1>1, <1>4
<1>9. ASSUME NEW i \in 1 .. k PROVE X[N + i] = t[i]
  <2>1. N + i \in 1 .. (N + k) /\ ~(N + i <= N) /\ (N + i) - N = i
    BY <1>1
  <2> QED
    BY <1>4, <2>1
<1> QED
  BY <1>4, <1>6, <1>7, <1>8, <1>9 DEF W, N, t, Extends

\* The effect of altusWQPut in terms of positions: m is the new list, k the
\* number of nodes it appends.
PutEffect(w, pos, n, m, k) ==
    LET W == win[w]
        h == hist[w]
        L == h.last
        X == W.nodes \o NewNodes(k)
        T == Up(L, m[1].tail)
        V == [W EXCEPT !.nodes = X, !.unsafe_len = @ + k]
        inSeq == m[1].head = W.lastSeq
    IN  /\ Cardinality(Nodes \ heap) >= k - Recycled(k)
        /\ win' = [win EXCEPT ![w] = Advanced(V, m, T - Base(L))]
        /\ pool' = SubSeq(pool, Recycled(k) + 1, Len(pool))
        /\ heap' = heap \cup ToSet(NewNodes(k))
        /\ mem' = Written(X, Place(h, L), pos - Base(L), pos, n)
        /\ valid' = IF inSeq THEN AdvancedValid(X, Place(h, L), T - Base(L)) ELSE valid
        /\ hist' = IF inSeq THEN [hist EXCEPT ![w].last = T] ELSE hist
        /\ ret' = [win |-> w, code |-> 0, bytes |-> << >>]
        /\ corrupt' = corrupt

\* altusWQPut computes with numbers what PutEffect says of positions.
LEMMA PutNumbers ==
    ASSUME Inv, NEW w \in DOMAIN win, NEW pos \in Nat, NEW n \in 0 .. MaxLen,
           pos - hist[w].last \in (1 - Half) .. (Half - 1), PutAccepted(w, pos, n)
    PROVE  \E m \in Seq(Block), k \in Nat :
              /\ hist[w].last <= pos /\ Place(hist[w], pos + n) <= WindowSize
              /\ n \in Nat /\ (n = 0 \/ pos <= Border(hist[w].last))
              /\ Len(m) <= MaxUB /\ Spliced(win[w].ub_list, hist[w].last, pos, pos + n, m)
              /\ k = Calls(Len(win[w].nodes), hist[w], pos, n)
              /\ PutEffect(w, pos, n, m, k)
<1>1. PICK W, h : W = win[w] /\ h = hist[w]
  OBVIOUS
<1>2. W \in Window /\ h \in History /\ W.nodes \in Seq(Nodes) /\ W.ub_list \in Seq(Block)
      /\ Len(W.nodes) \in Nat /\ W.safe \in 1 .. Len(W.nodes)
  BY <1>1, WindowType DEF Inv
<1>3. Numbers(W, h) /\ Filled(W, h, valid) /\ Listed(W, h) /\ Sized(W, h)
  BY <1>1 DEF Inv, WindowInv, Sound, SoundIn
<1>4. PICK L : L = h.last
  OBVIOUS
<1>5. L \in Nat /\ h.read \in Nat /\ h.read <= L /\ W.lastSeq = L % SeqSpace
      /\ W.safe = Place(h, L) /\ valid[W.nodes[W.safe]] = L % NodeSize
  BY <1>2, <1>3, <1>4 DEF Numbers, Filled, History
<1> DEFINE s == pos % SeqSpace
           m == altusUBCheck(W.ub_list, s, n).list
           k == NewNodeCalls(W, s, n)
           off == WriteOffset(W, s)
           V == [W EXCEPT !.nodes = @ \o NewNodes(k), !.unsafe_len = @ + k]
           total == Minus(m[1].tail, Minus(V.lastSeq, valid[V.nodes[V.safe]]))
<1>6. /\ PutCode(W, s, n) = 0
      /\ n = 0 \/ off <= NodeSize
      /\ Cardinality(Nodes \ heap) >= k - Recycled(k)
      /\ win' = [win EXCEPT ![w] = Advanced(V, m, total)]
      /\ pool' = SubSeq(pool, Recycled(k) + 1, Len(pool))
      /\ heap' = heap \cup ToSet(NewNodes(k))
      /\ mem' = Written(V.nodes, V.safe, off, pos, n)
      /\ valid' = IF m[1].head = V.lastSeq THEN AdvancedValid(V.nodes, V.safe, total) ELSE valid
      /\ hist' = IF m[1].head = V.lastSeq
                 THEN [hist EXCEPT ![w].last = @ + Minus(m[1].tail, V.lastSeq)]
                 ELSE hist
      /\ ret' = [win |-> w, code |-> 0, bytes |-> << >>]
      /\ corrupt' = corrupt
  BY <1>1, SMTT(90) DEF PutAccepted
<1>r. pos - h.last \in (1 - Half) .. (Half - 1)
  BY <1>1
<1>7. /\ L <= pos /\ pos + n < L + Half
      /\ Place(h, pos + n) <= WindowSize
      /\ s \in Seqs /\ n \in Nat
      /\ Spliced(W.ub_list, L, pos, pos + n, m)
      /\ m \in Seq(Block) /\ Len(m) <= MaxUB
  <2>1. PutCode(W, pos % SeqSpace, n) = 0
    BY <1>6
  <2> QED
    BY <1>2, <1>3, <1>4, <1>r, <2>1, Accepts
<1> HIDE DEF m
<1>8. off = pos - Base(L) /\ pos < L + Half /\ Base(L) \in Nat /\ Base(L) <= L
  <2>1. pos < L + Half
    BY <1>5, <1>7, HalfFits
  <2>2. off = Minus(pos % SeqSpace, Minus(L % SeqSpace, L % NodeSize))
    BY <1>5 DEF WriteOffset
  <2> QED
    BY <1>5, <1>7, <2>1, <2>2, Distance
<1>9. n = 0 \/ pos <= Border(L)
  <2>1. Border(L) = Base(L) + NodeSize
    BY <1>5, Borders DEF Base
  <2> QED
    BY <1>6, <1>8, <2>1, Sizes
<1>10. k = Calls(Len(W.nodes), h, pos, n)
  <2>1. /\ (pos - Base(L)) \div NodeSize = (pos \div NodeSize) - (L \div NodeSize)
        /\ \A e \in Nat : L <= e =>
              (e - Base(L)) \div NodeSize = (e \div NodeSize) - (L \div NodeSize)
    BY <1>2, <1>4, <1>7, FromBase
  <2>2. PICK e \in Nat : e = pos + n
    BY <1>7
  <2>3. off + n = e - Base(L) /\ L <= e
    BY <1>5, <1>7, <1>8, <2>2
  <2>4. Border(L) = Base(L) + NodeSize
    BY <1>5, Borders DEF Base
  <2>5. off = NodeSize <=> pos = Border(L)
    BY <1>8, <2>4, Sizes
  <2>6. PICK x \in Nat, y \in Nat, z \in Nat :
           x = pos \div NodeSize /\ y = e \div NodeSize /\ z = L \div NodeSize
    BY <1>2, <1>5, Places
  <2>7. ((off + n) \div NodeSize) - (off \div NodeSize) = y - x
    <3>1. (off + n) \div NodeSize = y - z
      BY <2>1, <2>2, <2>3, <2>6
    <3>2. off \div NodeSize = x - z
      BY <1>8, <2>1, <2>6
    <3> QED
      BY <2>6, <3>1, <3>2
  <2>8. W.safe = Len(W.nodes) <=> Place(h, h.last) = Len(W.nodes)
    BY <1>4, <1>5
  <2> QED
    BY <1>4, <2>2, <2>5, <2>6, <2>7, <2>8 DEF NewNodeCalls, Calls
<1> HIDE DEF k, off
<1>11. k \in Nat
  <2>1. PICK x, y : x = pos \div NodeSize /\ y = (pos + n) \div NodeSize
    OBVIOUS
  <2>2. x \in Nat /\ y \in Nat /\ x <= y
    <3>1. pos + n \in Nat /\ pos <= pos + n
      BY <1>7
    <3> QED
      BY <1>2, <2>1, <3>1, Places
  <2> QED
    BY <1>10, <2>1, <2>2 DEF Calls
<1>12. V = [W EXCEPT !.nodes = W.nodes \o NewNodes(k), !.unsafe_len = W.unsafe_len + k]
       /\ V.nodes = W.nodes \o NewNodes(k) /\ V.safe = W.safe /\ V.lastSeq = W.lastSeq
  BY <1>2 DEF Window
<1>13. V.nodes[V.safe] = W.nodes[W.safe]
  <2>1. Extends(w, k, W.nodes \o NewNodes(k))
    BY <1>1, <1>6, <1>11, ExtendedNodes
  <2> QED
    BY <1>1, <1>2, <1>12, <2>1 DEF Extends
<1> DEFINE T == Up(L, m[1].tail)
<1>14. total = T - Base(L) /\ L + Minus(m[1].tail, V.lastSeq) = T
  <2>1. 1 \in 1 .. Len(m)
    BY <1>7, LenProperties DEF Spliced
  <2>2. m[1].tail \in Seqs /\ T \in Nat /\ L <= T
    BY <1>5, <1>7, <2>1, BlockPositions
  <2>3. T % SeqSpace = m[1].tail
    BY <1>5, <2>2, NumberOfUp
  <2>4. T < L + Half
    <3>1. T = pos + n \/ \E j \in 1 .. Len(W.ub_list) : T = Up(L, W.ub_list[j].tail)
      BY <1>7, <2>1 DEF Spliced
    <3>2. ASSUME NEW j \in 1 .. Len(W.ub_list), T = Up(L, W.ub_list[j].tail) PROVE T < L + Half
      <4>1. Place(h, T) <= WindowSize
        BY <1>3, <1>4, <3>2 DEF Listed
      <4> HIDE DEF T
      <4> QED
        BY <1>2, <1>4, <1>5, <2>2, <4>1, WithinHalf
    <3> QED
      BY <1>7, <3>1, <3>2
  <2>5. total = Minus(T % SeqSpace, Minus(L % SeqSpace, L % NodeSize))
    BY <1>5, <1>12, <1>13, <2>3
  <2>6. Minus(T % SeqSpace, Minus(L % SeqSpace, L % NodeSize)) = T - Base(L)
    <3> HIDE DEF T
    <3> QED
      BY <1>5, <2>2, <2>4, Distance
  <2>7. L + Minus(m[1].tail, V.lastSeq) = T
    BY <1>5, <1>12 DEF Up
  <2> QED
    BY <2>5, <2>6, <2>7
<1>15. hist' = IF m[1].head = W.lastSeq THEN [hist EXCEPT ![w].last = T] ELSE hist
  <2>1. hist[w].last = L
    BY <1>1, <1>4
  <2> QED
    BY <1>6, <1>12, <1>14, <2>1
<1>16. /\ win' = [win EXCEPT ![w] = Advanced(V, m, T - Base(L))]
       /\ mem' = Written(W.nodes \o NewNodes(k), Place(h, L), pos - Base(L), pos, n)
       /\ valid' = IF m[1].head = W.lastSeq
                   THEN AdvancedValid(W.nodes \o NewNodes(k), Place(h, L), T - Base(L)) ELSE valid
  <2> HIDE DEF total, V, T
  <2>1. V.nodes = W.nodes \o NewNodes(k) /\ V.safe = Place(h, L) /\ V.lastSeq = W.lastSeq
    BY <1>5, <1>12
  <2>2. total = T - Base(L) /\ off = pos - Base(L)
    BY <1>8, <1>14
  <2> QED
    BY <1>6, <2>1, <2>2
<1>17. PutEffect(w, pos, n, m, k)
  <2> HIDE DEF total, V
  <2>1. V = [win[w] EXCEPT !.nodes = win[w].nodes \o NewNodes(k), !.unsafe_len = @ + k]
    BY <1>1, <1>12
  <2> QED
    BY <1>1, <1>4, <1>6, <1>15, <1>16, <2>1 DEF PutEffect
<1> QED
  BY <1>1, <1>4, <1>7, <1>9, <1>10, <1>11, <1>17

\* The hypotheses under which a block is put: PutNumbers establishes them.
Puts(w, pos, n, m, k) ==
    /\ w \in DOMAIN win /\ pos \in Nat /\ n \in Nat /\ m \in Seq(Block) /\ k \in Nat
    /\ hist[w].last <= pos /\ Place(hist[w], pos + n) <= WindowSize
    /\ n = 0 \/ pos <= Border(hist[w].last)
    /\ Len(m) <= MaxUB /\ Spliced(win[w].ub_list, hist[w].last, pos, pos + n, m)
    /\ k = Calls(Len(win[w].nodes), hist[w], pos, n)
    /\ PutEffect(w, pos, n, m, k)

\* The bytes of a window with the list m and the nodes X are in their places,
\* other nodes have kept theirs.
InPlace(h, m, X) ==
    /\ mem' \in [Nodes -> [Offsets -> Nat \cup {Junk}]]
    /\ \A x \in Nodes : (\A i \in 1 .. Len(X) : X[i] # x) => mem'[x] = mem[x]
    /\ \A p \in Nat : (h.read <= p /\ p < h.last) \/ Covered(m, h.last, p)
          => Place(h, p) \in 1 .. Len(X) /\ mem'[X[Place(h, p)]][p % NodeSize] = p

\* altusWQPut puts the bytes of the block where they belong and leaves all other
\* bytes alone.
LEMMA PutBytes ==
    ASSUME Inv, NEW w, NEW pos, NEW n, NEW m, NEW k, Puts(w, pos, n, m, k),
           NEW h, h = hist[w], NEW X, X = win[w].nodes \o NewNodes(k),
           NEW E \in Nat, NEW more \in {0, 1}, Fits(m, Len(X), h, E, more)
    PROVE  InPlace(h, m, X)
<1> /\ w \in DOMAIN win /\ pos \in Nat /\ n \in Nat /\ m \in Seq(Block) /\ k \in Nat
    /\ h.last <= pos /\ Spliced(win[w].ub_list, h.last, pos, pos + n, m)
    /\ PutEffect(w, pos, n, m, k)
  BY DEF Puts
<1>1. PICK W : W = win[w]
  OBVIOUS
<1>2. W \in Window /\ h \in History /\ W.nodes \in Seq(Nodes) /\ Len(W.nodes) \in Nat
  BY <1>1, WindowType DEF Inv
<1>3. Numbers(W, h) /\ Sized(W, h) /\ Bytes(W, h, mem)
  BY <1>1 DEF Inv, WindowInv, Sound, SoundIn
<1>4. h.last \in Nat /\ h.read \in Nat /\ h.read <= h.last
  BY <1>2, <1>3 DEF History, Numbers
<1>5. /\ X \in Seq(Nodes) /\ Len(X) = Len(W.nodes) + k
      /\ \A i \in 1 .. Len(W.nodes) : X[i] = W.nodes[i]
      /\ \A i, j \in 1 .. Len(X) : X[i] = X[j] => i = j
  <2>1. Cardinality(Nodes \ heap) >= k - Recycled(k)
    BY DEF PutEffect
  <2>2. Extends(w, k, X)
    BY <2>1, ExtendedNodes
  <2> QED
    BY <1>1, <2>2 DEF Extends
<1>6. mem \in [Nodes -> [Offsets -> Nat \cup {Junk}]]
  BY DEF Inv, TypeOK
<1>m. PICK M : M = mem'
  OBVIOUS
<1>7. M = Written(X, Place(h, h.last), pos - Base(h.last), pos, n)
  BY <1>m DEF PutEffect
<1>8. /\ \A p \in Nat : Covered(m, h.last, p) <=>
              Covered(W.ub_list, h.last, p) \/ (pos <= p /\ p < pos + n)
      /\ \A p \in Nat : pos <= p /\ p < pos + n => ~Covered(W.ub_list, h.last, p)
  BY <1>1 DEF Spliced
<1>9. \A p \in Nat : h.read <= p /\ p < E => Place(h, p) \in 1 .. Len(X)
  <2>1. Len(X) = Place(h, E) + more /\ h.last <= E
    BY DEF Fits
  <2>2. /\ \A p, r \in Nat : p <= r => Place(h, p) <= Place(h, r)
        /\ \A p \in Nat : h.read <= p => Place(h, p) \in Nat /\ 1 <= Place(h, p)
    BY <1>2, Places
  <2>3. ASSUME NEW p \in Nat, h.read <= p, p < E PROVE Place(h, p) \in 1 .. Len(X)
    <3>1. Place(h, p) \in Nat /\ 1 <= Place(h, p) /\ Place(h, p) <= Place(h, E)
      BY <2>2, <2>3
    <3>2. Place(h, E) \in Nat
      BY <1>4, <2>1, <2>2
    <3> QED
      BY <2>1, <3>1, <3>2
  <2> QED
    BY <2>3
<1>10. \A p \in Nat : (h.read <= p /\ p < h.last) \/ Covered(m, h.last, p)
                         => h.read <= p /\ p < E
  <2>1. h.last <= E /\ \A p \in Nat : Covered(m, h.last, p) => p < E
    BY DEF Fits
  <2>2. \A p \in Nat : Covered(W.ub_list, h.last, p) => h.last <= p
    BY <1>2, <1>3, InNodes
  <2> QED
    BY <1>4, <1>8, <2>1, <2>2
<1>11. ASSUME NEW x \in Nodes, NEW o \in Offsets PROVE HoldsByte(h, X, pos, n, M, x, o)
  BY <1>2, <1>6, <1>7, WrittenAt
<1>12. M = [x \in Nodes |-> [o \in Offsets |-> M[x][o]]]
  BY <1>7 DEF Written
<1>13. M \in [Nodes -> [Offsets -> Nat \cup {Junk}]]
  <2>1. ASSUME NEW x \in Nodes, NEW o \in Offsets PROVE M[x][o] \in Nat \cup {Junk}
    <3>0. HoldsByte(h, X, pos, n, M, x, o)
      BY <1>11, <2>1
    <3>1. M[x][o] = mem[x][o] \/ \E p \in Nat : M[x][o] = p
      BY <3>0 DEF HoldsByte
    <3>2. mem[x][o] \in Nat \cup {Junk}
      BY <1>6, <2>1
    <3> QED
      BY <3>1, <3>2
  <2> QED
    BY <1>12, <2>1
<1>14. ASSUME NEW x \in Nodes, \A i \in 1 .. Len(X) : X[i] # x PROVE M[x] = mem[x]
  <2>1. ASSUME NEW o \in Offsets PROVE M[x][o] = mem[x][o]
    <3>1. \A p \in Nat : pos <= p /\ p < pos + n => X[Place(h, p)] # x
      BY <1>8, <1>9, <1>10, <1>14
    <3>2. HoldsByte(h, X, pos, n, M, x, o)
      BY <1>11, <1>14, <2>1
    <3>3. ~\E p \in Nat : /\ pos <= p /\ p < pos + n
                          /\ X[Place(h, p)] = x /\ p % NodeSize = o
                          /\ M[x][o] = p
      BY <3>1
    <3> QED
      BY <3>2, <3>3 DEF HoldsByte
  <2>2. M[x] \in [Offsets -> Nat \cup {Junk}] /\ mem[x] \in [Offsets -> Nat \cup {Junk}]
    BY <1>6, <1>13
  <2>3. PICK a, b : a = M[x] /\ b = mem[x]
    OBVIOUS
  <2>4. a = b
    BY <2>1, <2>2, <2>3
  <2> QED
    BY <2>3, <2>4
<1>15. ASSUME NEW p \in Nat, (h.read <= p /\ p < h.last) \/ Covered(m, h.last, p)
       PROVE  Place(h, p) \in 1 .. Len(X) /\ M[X[Place(h, p)]][p % NodeSize] = p
  <2>1. Place(h, p) \in 1 .. Len(X)
    BY <1>9, <1>10, <1>15
  <2>2. PICK x \in Nodes, o \in Offsets : x = X[Place(h, p)] /\ o = p % NodeSize
    <3>1. X[Place(h, p)] \in Nodes
      BY <1>5, <2>1, ElementOfSeq
    <3>2. p % NodeSize \in Offsets
      BY <1>2, Places
    <3> QED
      BY <3>1, <3>2
  <2>3. ASSUME NEW r \in Nat, pos <= r, r < pos + n, X[Place(h, r)] = x, r % NodeSize = o
        PROVE  r = p
    <3>1. Place(h, r) \in 1 .. Len(X)
      BY <1>8, <1>9, <1>10, <2>3
    <3>2. Place(h, r) = Place(h, p)
      BY <1>5, <2>1, <2>2, <2>3, <3>1
    <3> QED
      BY <1>2, <2>2, <2>3, <3>2, Places
  <2>h. HoldsByte(h, X, pos, n, M, x, o)
    BY <1>11, <2>2
  <2>r. M[x][o] = mem[x][o] \/ \E r \in Nat : /\ pos <= r /\ r < pos + n
                                             /\ X[Place(h, r)] = x /\ r % NodeSize = o
                                             /\ M[x][o] = r
    BY <2>2, <2>h DEF HoldsByte
  <2>s. pos <= p /\ p < pos + n /\ M[x][o] = mem[x][o] =>
           \E r \in Nat : /\ pos <= r /\ r < pos + n /\ M[x][o] = r
                          /\ X[Place(h, r)] = x /\ r % NodeSize = o
    BY <2>2, <2>h DEF HoldsByte
  <2>4. CASE pos <= p /\ p < pos + n
    <3>1. PICK r \in Nat : /\ pos <= r /\ r < pos + n /\ M[x][o] = r
                           /\ X[Place(h, r)] = x /\ r % NodeSize = o
      BY <2>r, <2>s, <2>4
    <3>2. r = p
      BY <2>3, <3>1
    <3> QED
      BY <2>1, <2>2, <3>1, <3>2
  <2>5. CASE ~(pos <= p /\ p < pos + n)
    <3>1. Holds(W, h, p)
      BY <1>8, <1>15, <2>5 DEF Holds
    <3>2. Place(h, p) \in 1 .. Len(W.nodes)
      BY <1>2, <1>3, <3>1, InNodes
    <3>3. mem[x][o] = p
      BY <1>3, <1>5, <2>2, <3>1, <3>2 DEF Bytes
    <3>4. M[x][o] = mem[x][o]
      BY <2>3, <2>5, <2>r
    <3> QED
      BY <2>1, <2>2, <3>3, <3>4
  <2> QED
    BY <2>4, <2>5
<1> QED
  BY <1>m, <1>13, <1>14, <1>15 DEF InPlace

\* Window V with history g is window W with history h and the new block, as far
\* as numbers and list are concerned.
Absorbs(W, h, V, g, pos, n) ==
    /\ Numbers(V, g) /\ Listed(V, g)
    /\ \A p \in Nat : Holds(V, g, p) <=> Holds(W, h, p) \/ (pos <= p /\ p < pos + n)

\* Numbers and list of a window whose new block is parked: it does not begin at
\* lastSeq.
LEMMA Parked ==
    ASSUME NEW W \in Window, NEW h \in History, Numbers(W, h), Listed(W, h),
           NEW pos \in Nat, NEW n \in Nat, h.last <= pos, Place(h, pos + n) <= WindowSize,
           NEW V \in Window, V.ub_list \in Seq(Block), Len(V.ub_list) <= MaxUB,
           Spliced(W.ub_list, h.last, pos, pos + n, V.ub_list), V.ub_list[1].head # W.lastSeq,
           V.lastSeq = W.lastSeq, V.safe = W.safe,
           V.safe_len = W.safe_len, V.headDataOffset = W.headDataOffset
    PROVE  Absorbs(W, h, V, h, pos, n)
<1>0. PICK m \in Seq(Block) : m = V.ub_list
  OBVIOUS
<1>s. Len(m) <= MaxUB /\ Spliced(W.ub_list, h.last, pos, pos + n, m) /\ m[1].head # W.lastSeq
  BY <1>0
<1>1. h.last \in Nat /\ h.last % SeqSpace = W.lastSeq
  BY DEF History, Numbers
<1>2. Numbers(V, h)
  BY DEF Numbers
<1>3. 1 \in 1 .. Len(m) /\ Apart(m, h.last)
  BY <1>s, LenProperties DEF Spliced
<1>4. Up(h.last, m[1].head) \in Nat /\ h.last < Up(h.last, m[1].head)
  <2>1. m[1].head \in Seqs /\ Up(h.last, m[1].head) \in Nat /\ h.last <= Up(h.last, m[1].head)
    BY <1>1, <1>3, BlockPositions
  <2>2. Up(h.last, m[1].head) % SeqSpace = m[1].head
    BY <1>1, <2>1, NumberOfUp
  <2>3. Up(h.last, m[1].head) # h.last
    BY <1>1, <1>s, <2>2
  <2> QED
    BY <1>1, <2>1, <2>3
<1>5. ASSUME NEW i \in 1 .. Len(m)
      PROVE  /\ h.last < Up(h.last, m[i].head)
             /\ Place(h, Up(h.last, m[i].tail)) <= WindowSize
  <2>1. i = 1 => h.last < Up(h.last, m[i].head)
    BY <1>4
  <2>2. ASSUME i # 1 PROVE h.last < Up(h.last, m[i].head)
    <3>1. Up(h.last, m[1].head) <= Up(h.last, m[1].tail)
          /\ Up(h.last, m[1].tail) < Up(h.last, m[i].head)
      BY <1>3, <2>2 DEF Apart
    <3>2. Up(h.last, m[1].tail) \in Nat /\ Up(h.last, m[i].head) \in Nat
      BY <1>1, <1>3, BlockPositions
    <3> QED
      BY <1>1, <1>4, <3>1, <3>2
  <2>3. Place(h, Up(h.last, m[i].tail)) <= WindowSize
    <3>1. \/ Up(h.last, m[i].tail) = pos + n
          \/ \E j \in 1 .. Len(W.ub_list) : Up(h.last, m[i].tail) = Up(h.last, W.ub_list[j].tail)
      BY <1>s DEF Spliced
    <3>2. \A j \in 1 .. Len(W.ub_list) : Place(h, Up(h.last, W.ub_list[j].tail)) <= WindowSize
      BY DEF Listed
    <3> QED
      BY <3>1, <3>2
  <2>4. h.last < Up(h.last, m[i].head)
    BY <2>1, <2>2
  <2> QED
    BY <2>3, <2>4
<1>6. Listed(V, h)
  BY <1>0, <1>3, <1>5 DEF Listed
<1>7. \A p \in Nat : Covered(m, h.last, p) <=>
              Covered(W.ub_list, h.last, p) \/ (pos <= p /\ p < pos + n)
  BY <1>s DEF Spliced
<1>8. \A p \in Nat : Holds(V, h, p) <=> Holds(W, h, p) \/ (pos <= p /\ p < pos + n)
  BY <1>0, <1>7 DEF Holds
<1> QED
  BY <1>2, <1>6, <1>8 DEF Absorbs

\* The end of the first block of the list m.
End(h, m) == Up(h.last, m[1].tail)

\* The same when V has taken the first block of the list m over: what is left
\* of the list stays where it was.
TakesOver(W, h, m, V, g, pos, n) ==
    /\ g \in History /\ g.read = h.read /\ g.last = End(h, m) /\ h.last <= g.last
    /\ Absorbs(W, h, V, g, pos, n) /\ LeftOver(Tail(m), m, h, g)

\* Numbers and list of a window that takes the first block over into its safe
\* part.
LEMMA TakenOver ==
    ASSUME NEW W \in Window, NEW h \in History, Numbers(W, h), Listed(W, h),
           NEW m \in Seq(Block), Len(m) <= MaxUB, NEW pos \in Nat, NEW n \in Nat,
           h.last <= pos, Place(h, pos + n) <= WindowSize,
           Spliced(W.ub_list, h.last, pos, pos + n, m), m[1].head = W.lastSeq,
           NEW g, g = [h EXCEPT !.last = End(h, m)],
           NEW V \in Window, V.ub_list = Tail(m), V.lastSeq = m[1].tail,
           V.safe = W.safe + ((End(h, m) - Base(h.last)) \div NodeSize),
           V.safe_len = W.safe_len + ((End(h, m) - Base(h.last)) \div NodeSize),
           V.headDataOffset = W.headDataOffset
    PROVE  TakesOver(W, h, m, V, g, pos, n)
<1>0. PICK T : T = Up(h.last, m[1].tail) /\ T = End(h, m)
  BY DEF End
<1>1. /\ h.last \in Nat /\ h.read \in Nat /\ h.last % SeqSpace = W.lastSeq /\ h.read <= h.last
      /\ W.safe = Place(h, h.last) /\ W.safe_len = W.safe /\ W.headDataOffset = h.read % NodeSize
  BY DEF History, Numbers
<1>2. 1 \in 1 .. Len(m) /\ Len(m) >= 1 /\ Apart(m, h.last)
  BY LenProperties DEF Spliced
<1>3. Up(h.last, m[1].head) = h.last
  <2>1. h.last < h.last + SeqSpace
    BY <1>1, Sizes
  <2> QED
    BY <1>1, <2>1, UpOfNumber
<1>4. /\ T \in Nat /\ h.last <= T
      /\ Tail(m) \in Seq(Block) /\ Len(Tail(m)) = Len(m) - 1
      /\ \A i \in 1 .. Len(Tail(m)) :
           /\ Tail(m)[i] = m[i+1] /\ T < Up(h.last, m[i+1].head)
           /\ Up(T, Tail(m)[i].head) = Up(h.last, m[i+1].head)
           /\ Up(T, Tail(m)[i].tail) = Up(h.last, m[i+1].tail)
      /\ Apart(Tail(m), T)
      /\ \A p \in Nat : Covered(Tail(m), T, p) <=> Covered(m, h.last, p) /\ T <= p
      /\ \A p \in Nat : h.last <= p /\ p < T => Covered(m, h.last, p)
  BY <1>0, <1>1, <1>2, <1>3, AdvanceList
<1>5. g \in History /\ g.last = T /\ g.read = h.read
  BY <1>0, <1>4 DEF History
<1>6. \A p : Place(g, p) = Place(h, p)
  BY <1>5 DEF Place
<1>7. ASSUME NEW i \in 1 .. Len(m) PROVE Place(h, Up(h.last, m[i].tail)) <= WindowSize
  <2>1. \/ Up(h.last, m[i].tail) = pos + n
        \/ \E j \in 1 .. Len(W.ub_list) : Up(h.last, m[i].tail) = Up(h.last, W.ub_list[j].tail)
    BY DEF Spliced
  <2>2. \A j \in 1 .. Len(W.ub_list) : Place(h, Up(h.last, W.ub_list[j].tail)) <= WindowSize
    BY DEF Listed
  <2> QED
    BY <2>1, <2>2
<1>8. Place(h, T) <= WindowSize
  BY <1>0, <1>2, <1>7
<1>9. V.safe = Place(h, T) /\ V.safe_len = V.safe
  <2>1. Place(h, h.last) + ((T - Base(h.last)) \div NodeSize) = Place(h, T)
    BY <1>4, FromBase
  <2> QED
    BY <1>0, <1>1, <2>1
<1>10. V.lastSeq = T % SeqSpace
  <2>1. m[1].tail \in Seqs
    BY <1>1, <1>2, BlockPositions
  <2> QED
    BY <1>0, <1>1, <2>1, NumberOfUp
<1>11. Numbers(V, g)
  <2>1. /\ g.read <= g.last /\ V.lastSeq = g.last % SeqSpace /\ V.headDataOffset = g.read % NodeSize
    BY <1>1, <1>4, <1>5, <1>10
  <2>2. V.safe = Place(g, g.last) /\ V.safe_len = V.safe /\ V.safe <= WindowSize
    BY <1>5, <1>6, <1>8, <1>9
  <2> QED
    BY <2>1, <2>2 DEF Numbers
<1>12. Listed(V, g)
  <2>1. ASSUME NEW i \in 1 .. Len(Tail(m))
        PROVE  /\ T < Up(T, Tail(m)[i].head)
               /\ Place(g, Up(T, Tail(m)[i].tail)) <= WindowSize
    <3>1. i + 1 \in 1 .. Len(m)
      BY <1>4, LenProperties
    <3>2. Place(h, Up(h.last, m[i+1].tail)) <= WindowSize
      BY <1>7, <3>1
    <3> QED
      BY <1>4, <1>6, <3>2
  <2>2. Len(Tail(m)) <= MaxUB
    BY <1>4, LenProperties, Sizes
  <2> QED
    BY <1>4, <1>5, <2>1, <2>2 DEF Listed
<1>13. \A p \in Nat : Covered(m, h.last, p) <=>
              Covered(W.ub_list, h.last, p) \/ (pos <= p /\ p < pos + n)
  BY DEF Spliced
<1>14. ASSUME NEW p \in Nat, Covered(m, h.last, p) PROVE h.last <= p
  <2>1. PICK i \in 1 .. Len(m) : Up(h.last, m[i].head) <= p
    BY <1>14 DEF Covered
  <2>2. Up(h.last, m[i].head) \in Nat /\ h.last <= Up(h.last, m[i].head)
    BY <1>1, BlockPositions
  <2> QED
    BY <1>1, <2>1, <2>2
<1>15. ASSUME NEW p \in Nat
       PROVE  Holds(V, g, p) <=> Holds(W, h, p) \/ (pos <= p /\ p < pos + n)
  <2>1. Holds(V, g, p) <=> (h.read <= p /\ p < T) \/ (Covered(m, h.last, p) /\ T <= p)
    BY <1>4, <1>5 DEF Holds
  <2>2. (h.read <= p /\ p < T) \/ (Covered(m, h.last, p) /\ T <= p) <=>
           (h.read <= p /\ p < h.last) \/ Covered(m, h.last, p)
    <3>1. Covered(m, h.last, p) => h.last <= p
      BY <1>14
    <3>2. h.last <= p /\ p < T => Covered(m, h.last, p)
      BY <1>4
    <3> QED
      BY <1>1, <1>4, <3>1, <3>2
  <2>3. Holds(W, h, p) <=> (h.read <= p /\ p < h.last) \/ Covered(W.ub_list, h.last, p)
    BY DEF Holds
  <2> QED
    BY <1>13, <2>1, <2>2, <2>3
<1> QED
  BY <1>0, <1>4, <1>5, <1>11, <1>12, <1>15 DEF TakesOver, Absorbs, LeftOver

\* When a window is sound after a step.
LEMMA SoundAfter ==
    ASSUME NEW V, NEW g, Numbers(V, g), Listed(V, g), Sized(V, g),
           \A i \in 1 .. (V.safe - 1) : valid'[V.nodes[i]] = NodeSize,
           valid'[V.nodes[V.safe]] = g.last % NodeSize,
           \A p \in Nat : Holds(V, g, p) => mem'[V.nodes[Place(g, p)]][p % NodeSize] = p
    PROVE  SoundIn(V, g, valid', mem')
<1>2. Filled(V, g, valid')
  BY DEF Filled
<1>3. Bytes(V, g, mem')
  BY DEF Bytes, Holds
<1> QED
  BY <1>2, <1>3 DEF SoundIn

\* The fields of a window.
LEMMA Fields ==
    ASSUME NEW W \in Window
    PROVE  /\ W.nodes \in Seq(Nodes) /\ W.safe \in Nat /\ W.safe_len \in Nat /\ W.unsafe_len \in Int
           /\ W.headDataOffset \in 0 .. NodeSize /\ W.headSeq \in Seqs /\ W.lastSeq \in Seqs
           /\ W.ub_list \in Seq(Block)
  BY DEF Window
=============================================================================
