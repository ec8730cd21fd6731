------------------------ MODULE WindowedQueueProofs ------------------------
(***************************************************************************)
(* Theorems about the windowed queue: every operation keeps the inductive  *)
(* invariant of WindowedQueueLemmas, which implies the properties of       *)
(* WindowedQueue, and every step is a step of the abstract Reassembly.     *)
(*                                                                         *)
(* The theorems speak of the steps up to the first stray write (PutStray,  *)
(* see NoStrayWrite): nothing is said of a program whose memory is damaged.*)
(***************************************************************************)
EXTENDS WindowedQueueLemmas

-----------------------------------------------------------------------------
(* altusWQPut keeps the invariant.                                         *)

\* What a window V with history g is after a block was put into window w.
Receives(w, V, g, X, pos, n) ==
    /\ V \in Window /\ V.nodes = X /\ g \in History /\ g.read = hist[w].read
    /\ SoundIn(V, g, valid', mem')
    /\ \A p \in Nat : Holds(V, g, p) <=> Holds(win[w], hist[w], p) \/ (pos <= p /\ p < pos + n)

\* The memory and the count of nodes after a block was put.
Stored(w, pos, n, m, k, X) ==
    /\ Extends(w, k, X)
    /\ \E E \in Nat : \E more \in {0, 1} : Fits(m, Len(X), hist[w], E, more)
    /\ InPlace(hist[w], m, X)

\* There is a node for every byte of the block, and the bytes are there.
LEMMA PutStores ==
    ASSUME Inv, NEW w, NEW pos, NEW n, NEW m, NEW k, Puts(w, pos, n, m, k),
           NEW X, X = win[w].nodes \o NewNodes(k)
    PROVE  Stored(w, pos, n, m, k, X)
<1>0. /\ w \in DOMAIN win /\ pos \in Nat /\ n \in Nat /\ m \in Seq(Block) /\ k \in Nat
      /\ hist[w].last <= pos /\ Place(hist[w], pos + n) <= WindowSize
      /\ n = 0 \/ pos <= Border(hist[w].last)
      /\ Len(m) <= MaxUB /\ Spliced(win[w].ub_list, hist[w].last, pos, pos + n, m)
      /\ k = Calls(Len(win[w].nodes), hist[w], pos, n)
      /\ PutEffect(w, pos, n, m, k)
  BY DEF Puts
<1>1. PICK h : h = hist[w]
  OBVIOUS
<1>2. h \in History /\ win[w] \in Window /\ Len(win[w].nodes) \in Nat
  BY <1>0, <1>1, WindowType DEF Inv
<1>3. Numbers(win[w], h) /\ Sized(win[w], h)
  BY <1>0, <1>1 DEF Inv, WindowInv, Sound, SoundIn
<1>4. h.read <= h.last
  BY <1>3 DEF Numbers
<1>5. PICK E \in Nat, more \in {0, 1} : Fits(win[w].ub_list, Len(win[w].nodes), h, E, more)
  BY <1>3 DEF Sized
<1>6. FitsAgain(h, win[w].ub_list, m, Len(win[w].nodes), pos, n, E, more)
  <2>1. Len(win[w].nodes) \in Int
    BY <1>2
  <2> QED
    BY <1>0, <1>1, <1>2, <1>4, <1>5, <2>1, PutFits
<1>7. Cardinality(Nodes \ heap) >= k - Recycled(k)
  BY <1>0 DEF PutEffect
<1>8. Extends(w, k, X)
  BY <1>0, <1>7, ExtendedNodes
<1>9. PICK E2 \in Nat, more2 \in {0, 1} : Fits(m, Len(X), h, E2, more2)
  <2>1. Len(X) = Len(win[w].nodes) + Calls(Len(win[w].nodes), h, pos, n)
    BY <1>0, <1>1, <1>8 DEF Extends
  <2> QED
    BY ONLY <1>6, <2>1 DEF FitsAgain
<1>10. InPlace(h, m, X)
  BY <1>1, <1>9, PutBytes
<1> QED
  BY <1>1, <1>8, <1>9, <1>10 DEF Stored

\* The window of a block that is parked.
LEMMA PutParked ==
    ASSUME Inv, NEW w, NEW pos, NEW n, NEW m, NEW k, Puts(w, pos, n, m, k),
           NEW X, Stored(w, pos, n, m, k, X), m[1].head # win[w].lastSeq, valid' = valid,
           NEW V, V = [win[w] EXCEPT !.nodes = X, !.unsafe_len = @ + k, !.ub_list = m]
    PROVE  Receives(w, V, hist[w], X, pos, n)
<1>1. PICK W, h : W = win[w] /\ h = hist[w]
  OBVIOUS
<1>2. /\ w \in DOMAIN win /\ pos \in Nat /\ n \in Nat /\ m \in Seq(Block) /\ k \in Nat
      /\ h.last <= pos /\ Place(h, pos + n) <= WindowSize
      /\ Len(m) <= MaxUB /\ Spliced(W.ub_list, h.last, pos, pos + n, m)
  BY <1>1 DEF Puts
<1>3. W \in Window /\ h \in History
  BY <1>1, <1>2, WindowType DEF Inv
<1>4. Numbers(W, h) /\ Filled(W, h, valid) /\ Listed(W, h) /\ Sized(W, h)
  BY <1>1, <1>2 DEF Inv, WindowInv, Sound, SoundIn
<1>5. X \in Seq(Nodes) /\ \A i \in 1 .. Len(W.nodes) : X[i] = W.nodes[i]
  BY <1>1 DEF Stored, Extends
<1>6. V.nodes = X /\ V.ub_list = m /\ V.lastSeq = W.lastSeq
      /\ V.safe = W.safe /\ V.safe_len = W.safe_len /\ V.headDataOffset = W.headDataOffset
  BY <1>1, <1>3 DEF Window
<1>7. V \in Window
  <2>1. W.unsafe_len + k \in Int
    BY <1>2, <1>3, Fields
  <2>2. PICK u \in Int : u = W.unsafe_len + k
    BY <2>1
  <2>3. [W EXCEPT !.nodes = X, !.unsafe_len = u, !.ub_list = m] \in Window
    BY <1>2, <1>3, <1>5, <2>2 DEF Window
  <2> QED
    BY <1>1, <2>2, <2>3
<1>8. Absorbs(W, h, V, h, pos, n)
  <2>1. V.ub_list[1].head # W.lastSeq
    BY <1>1, <1>6
  <2> QED
    BY <1>2, <1>3, <1>4, <1>6, <1>7, <2>1, Parked
<1>9. Sized(V, h)
  BY <1>1, <1>6 DEF Sized, Stored
<1>10. W.safe \in 1 .. Len(W.nodes) /\ Len(W.nodes) \in Nat
  BY <1>3, <1>4, InNodes
<1>11. ASSUME NEW i \in 1 .. (V.safe - 1) PROVE valid'[V.nodes[i]] = NodeSize
  <2>1. i \in 1 .. Len(W.nodes) /\ i \in 1 .. (W.safe - 1)
    BY <1>6, <1>10
  <2>2. valid[W.nodes[i]] = NodeSize
    BY <1>4, <2>1 DEF Filled
  <2> QED
    BY <1>5, <1>6, <2>1, <2>2
<1>12. valid'[V.nodes[V.safe]] = h.last % NodeSize
  <2>1. valid[W.nodes[W.safe]] = h.last % NodeSize
    BY <1>4 DEF Filled
  <2> QED
    BY <1>5, <1>6, <1>10, <2>1
<1>13. \A p \in Nat : Holds(V, h, p) => mem'[V.nodes[Place(h, p)]][p % NodeSize] = p
  BY <1>1, <1>6 DEF Holds, Stored, InPlace
<1>14. SoundIn(V, h, valid', mem')
  BY <1>8, <1>9, <1>11, <1>12, <1>13, SoundAfter DEF Absorbs
<1> QED
  BY <1>1, <1>3, <1>6, <1>7, <1>8, <1>14 DEF Receives, Absorbs

\* The window of a block that makes the first block of the list begin at
\* lastSeq.
LEMMA PutTaken ==
    ASSUME Inv, NEW w, NEW pos, NEW n, NEW m, NEW k, Puts(w, pos, n, m, k),
           NEW X, Stored(w, pos, n, m, k, X), m[1].head = win[w].lastSeq,
           NEW T, T = End(hist[w], m), NEW q, q = (T - Base(hist[w].last)) \div NodeSize,
           valid' = AdvancedValid(X, Place(hist[w], hist[w].last), T - Base(hist[w].last)),
           NEW V, V = [win[w] EXCEPT !.nodes = X, !.safe = @ + q, !.safe_len = @ + q,
                           !.unsafe_len = (@ + k) - q, !.lastSeq = m[1].tail, !.ub_list = Tail(m)],
           NEW g, g = [hist[w] EXCEPT !.last = T]
    PROVE  Receives(w, V, g, X, pos, n) /\ CountsUpTo(hist[w], X, T, valid')
<1>1. PICK W, h : W = win[w] /\ h = hist[w]
  OBVIOUS
<1>2. /\ w \in DOMAIN win /\ pos \in Nat /\ n \in Nat /\ m \in Seq(Block) /\ k \in Nat
      /\ h.last <= pos /\ Place(h, pos + n) <= WindowSize
      /\ Len(m) <= MaxUB /\ Spliced(W.ub_list, h.last, pos, pos + n, m)
  BY <1>1 DEF Puts
<1>3. W \in Window /\ h \in History
  BY <1>1, <1>2, WindowType DEF Inv
<1>4. Numbers(W, h) /\ Filled(W, h, valid) /\ Listed(W, h) /\ Sized(W, h)
  BY <1>1, <1>2 DEF Inv, WindowInv, Sound, SoundIn
<1>5. /\ X \in Seq(Nodes) /\ \A i \in 1 .. Len(W.nodes) : X[i] = W.nodes[i]
      /\ \A i, j \in 1 .. Len(X) : X[i] = X[j] => i = j
  BY <1>1 DEF Stored, Extends
<1>6. h.last \in Nat /\ h.read \in Nat /\ h.read <= h.last /\ W.safe = Place(h, h.last)
  BY <1>3, <1>4 DEF Numbers, History
<1>7. 1 \in 1 .. Len(m) /\ Len(m) >= 1
  BY <1>2, LenProperties DEF Spliced
<1>8. m[1].tail \in Seqs /\ T \in Nat /\ h.last <= T
  BY <1>1, <1>2, <1>6, <1>7, BlockPositions DEF End
<1>9. q \in Nat
  <2>1. T - Base(h.last) \in Nat
    BY <1>3, <1>8, FromBase
  <2> QED
    BY <1>1, <2>1, Sizes, DivMod
<1>10. /\ V.nodes = X /\ V.ub_list = Tail(m) /\ V.lastSeq = m[1].tail
       /\ V.safe = W.safe + q /\ V.safe_len = W.safe_len + q
       /\ V.headDataOffset = W.headDataOffset
  BY <1>1, <1>3 DEF Window
<1>11. V \in Window
  <2>1. (W.unsafe_len + k) - q \in Int /\ W.safe + q \in Nat /\ W.safe_len + q \in Nat
    <3>1. W.unsafe_len \in Int /\ W.safe \in Nat /\ W.safe_len \in Nat /\ k \in Nat /\ q \in Nat
      BY <1>2, <1>3, <1>9, Fields
    <3> QED
      BY ONLY <3>1
  <2>2. PICK u \in Int, a \in Nat, b \in Nat :
           u = (W.unsafe_len + k) - q /\ a = W.safe + q /\ b = W.safe_len + q
    BY <2>1
  <2>3. Tail(m) \in Seq(Block)
    BY <1>2, <1>7
  <2>4. PICK U : U = [W EXCEPT !.nodes = X, !.safe = a, !.safe_len = b, !.unsafe_len = u]
    OBVIOUS
  <2>5. U \in Window
    BY <1>3, <1>5, <2>2, <2>4 DEF Window
  <2>6. [U EXCEPT !.lastSeq = m[1].tail, !.ub_list = Tail(m)] \in Window
    BY <1>8, <2>3, <2>5 DEF Window
  <2> QED
    BY <1>1, <2>2, <2>4, <2>6
<1>12. TakesOver(W, h, m, V, g, pos, n)
  <2>1. /\ V.safe = W.safe + ((End(h, m) - Base(h.last)) \div NodeSize)
        /\ V.safe_len = W.safe_len + ((End(h, m) - Base(h.last)) \div NodeSize)
        /\ g = [h EXCEPT !.last = End(h, m)] /\ m[1].head = W.lastSeq
    BY <1>1, <1>10
  <2> QED
    BY <1>2, <1>3, <1>4, <1>10, <1>11, <2>1, TakenOver
<1>13. g \in History /\ g.read = h.read /\ g.last = T /\ Numbers(V, g) /\ Listed(V, g)
  BY <1>1, <1>12 DEF TakesOver, Absorbs
<1>14. PICK E \in Nat, more \in {0, 1} : Fits(m, Len(X), h, E, more)
  BY <1>1 DEF Stored
<1>15. StillFits(h, Tail(m), m, Len(X), E, more, g)
  <2>1. /\ g \in History /\ g.read = h.read /\ h.last <= g.last
        /\ LeftOver(Tail(m), m, h, g)
    BY <1>12 DEF TakesOver
  <2>2. h \in History /\ h.read <= h.last /\ Fits(m, Len(X), h, E, more)
    BY <1>3, <1>6, <1>14
  <2> QED
    BY ONLY <1>14, <2>1, <2>2, AdvanceFits
<1>16. Sized(V, g)
  BY <1>10, <1>14, <1>15 DEF Sized, StillFits
<1>17. Place(h, T) \in 1 .. Len(X) /\ Len(X) \in Nat /\ V.safe = Place(h, T)
  <2>1. V.safe = Place(g, T) /\ Place(g, T) = Place(h, T)
    BY <1>13 DEF Numbers, Place
  <2>2. V.safe \in 1 .. Len(X) /\ Len(X) \in Nat
    BY <1>10, <1>11, <1>13, <1>16, InNodes
  <2> QED
    BY <2>1, <2>2
<1>18. CountsUpTo(h, X, T, valid')
  <2>1. valid \in [Nodes -> 0 .. NodeSize]
    BY DEF Inv, TypeOK
  <2>2. Place(h, T) <= Len(X)
    BY <1>17
  <2>3. PICK a : a = valid'
    OBVIOUS
  <2>4. CountsUpTo(h, X, T, a)
    BY <1>1, <1>3, <1>5, <1>6, <1>8, <2>1, <2>2, <2>3, AdvancedAt
  <2> QED
    BY <2>3, <2>4
<1>19. W.safe \in 1 .. Len(W.nodes) /\ Len(W.nodes) \in Nat
  BY <1>3, <1>4, InNodes
<1>20. ASSUME NEW i \in 1 .. (V.safe - 1) PROVE valid'[V.nodes[i]] = NodeSize
  <2>1. i \in 1 .. Len(X) /\ i < Place(h, T)
    BY <1>17
  <2>2. CASE i < W.safe
    <3>1. i \in 1 .. (W.safe - 1) /\ i \in 1 .. Len(W.nodes)
      BY <1>19, <2>2
    <3>2. valid[W.nodes[i]] = NodeSize
      BY <1>4, <3>1 DEF Filled
    <3>3. valid'[X[i]] = valid[X[i]]
      BY <1>6, <1>18, <2>1, <2>2 DEF CountsUpTo
    <3> QED
      BY <1>5, <1>10, <3>1, <3>2, <3>3
  <2>3. CASE ~(i < W.safe)
    BY <1>6, <1>10, <1>18, <1>19, <2>1, <2>3 DEF CountsUpTo
  <2> QED
    BY <2>2, <2>3
<1>21. valid'[V.nodes[V.safe]] = g.last % NodeSize
  BY <1>10, <1>13, <1>17, <1>18 DEF CountsUpTo
<1>22. ASSUME NEW p \in Nat, Holds(V, g, p) PROVE mem'[V.nodes[Place(g, p)]][p % NodeSize] = p
  <2>1. Holds(W, h, p) \/ (pos <= p /\ p < pos + n)
    BY <1>12, <1>22 DEF TakesOver, Absorbs
  <2>2. Covered(m, h.last, p) <=> Covered(W.ub_list, h.last, p) \/ (pos <= p /\ p < pos + n)
    BY <1>2 DEF Spliced
  <2>3. (h.read <= p /\ p < h.last) \/ Covered(m, h.last, p)
    BY <2>1, <2>2 DEF Holds
  <2>4. Place(g, p) = Place(h, p)
    BY <1>13 DEF Place
  <2>5. mem'[X[Place(h, p)]][p % NodeSize] = p
    BY <1>1, <2>3 DEF Stored, InPlace
  <2> QED
    BY <1>10, <2>4, <2>5
<1>23. SoundIn(V, g, valid', mem')
  BY <1>13, <1>16, <1>20, <1>21, <1>22, SoundAfter
<1> QED
  BY <1>1, <1>10, <1>11, <1>12, <1>13, <1>18, <1>23 DEF Receives, TakesOver, Absorbs

\* A step that changes one window keeps the others as they are, and its nodes
\* are none of theirs.
Changes(w, V, g) ==
    /\ w \in DOMAIN win /\ V \in Window /\ g \in History
    /\ DOMAIN win' = DOMAIN win /\ DOMAIN hist' = DOMAIN win
    /\ win'[w] = V /\ hist'[w] = g
    /\ \A v \in DOMAIN win : v # w => win'[v] = win[v] /\ hist'[v] = hist[v]
    /\ SoundIn(V, g, valid', mem')
    /\ \A v \in DOMAIN win : v # w => \A i \in 1 .. Len(win[v].nodes) :
          /\ valid'[win[v].nodes[i]] = valid[win[v].nodes[i]]
          /\ mem'[win[v].nodes[i]] = mem[win[v].nodes[i]]

\* Then all windows are sound and have their types.
LEMMA OneWindow ==
    ASSUME Inv, NEW w, NEW V, NEW g, Changes(w, V, g)
    PROVE  /\ WindowInv'
           /\ DOMAIN win' = DOMAIN win /\ DOMAIN hist' = DOMAIN win
           /\ win'[w] = V /\ hist'[w] = g
           /\ \A v \in DOMAIN win : v # w => win'[v] = win[v] /\ hist'[v] = hist[v]
           /\ \A v \in DOMAIN win' :
                /\ win'[v] \in Window /\ win'[v].safe \in DOMAIN win'[v].nodes
                /\ Len(win'[v].ub_list) <= MaxUB
                /\ hist'[v] \in History
<1>1. DOMAIN hist = DOMAIN win
  BY DEF Inv, TypeOK
<1>2. /\ DOMAIN win' = DOMAIN win /\ DOMAIN hist' = DOMAIN win
      /\ win'[w] = V /\ hist'[w] = g
      /\ \A v \in DOMAIN win : v # w => win'[v] = win[v] /\ hist'[v] = hist[v]
  BY <1>1 DEF Changes
<1>3. ASSUME NEW v \in DOMAIN win
      PROVE  /\ SoundIn(win'[v], hist'[v], valid', mem')
             /\ win'[v] \in Window /\ hist'[v] \in History
  <2>1. CASE v = w
    BY <1>2, <2>1 DEF Changes
  <2>2. CASE v # w
    <3>1. PICK U, f : U = win[v] /\ f = hist[v]
      OBVIOUS
    <3>2. U \in Window /\ f \in History /\ Sound(U, f)
      BY <1>3, <3>1, WindowType DEF Inv, WindowInv
    <3>3. \A i \in 1 .. Len(U.nodes) : valid'[U.nodes[i]] = valid[U.nodes[i]]
                                       /\ mem'[U.nodes[i]] = mem[U.nodes[i]]
      BY <1>3, <2>2, <3>1 DEF Changes
    <3>4. SoundIn(U, f, valid', mem')
      BY <3>2, <3>3, SoundKept
    <3> QED
      BY <1>2, <1>3, <2>2, <3>1, <3>2, <3>4
  <2> QED
    BY <2>1, <2>2
<1>4. WindowInv'
  BY <1>2, <1>3 DEF WindowInv, Sound
<1>5. ASSUME NEW v \in DOMAIN win'
      PROVE  /\ win'[v] \in Window /\ win'[v].safe \in DOMAIN win'[v].nodes
             /\ Len(win'[v].ub_list) <= MaxUB /\ hist'[v] \in History
  <2>1. PICK U, f : U = win'[v] /\ f = hist'[v]
    OBVIOUS
  <2>2. U \in Window /\ f \in History /\ Numbers(U, f) /\ Sized(U, f) /\ Listed(U, f)
    BY <1>2, <1>3, <1>5, <2>1 DEF SoundIn
  <2>3. U.safe \in 1 .. Len(U.nodes) /\ U.nodes \in Seq(Nodes)
    BY <2>2, InNodes, Fields
  <2>4. Len(U.ub_list) <= MaxUB
    BY <2>2 DEF Listed
  <2> QED
    BY <2>1, <2>2, <2>3, <2>4
<1> QED
  BY <1>2, <1>4, <1>5

\* altusWQPut leaves its window sound and the others alone.
LEMMA PutChanges ==
    ASSUME Inv, NEW w, NEW pos, NEW n, NEW m, NEW k, Puts(w, pos, n, m, k),
           NEW X, X = win[w].nodes \o NewNodes(k)
    PROVE  /\ Stored(w, pos, n, m, k, X)
           /\ valid' \in [Nodes -> 0 .. NodeSize]
           /\ \E V, g : Changes(w, V, g) /\ Receives(w, V, g, X, pos, n)
<1>1. Stored(w, pos, n, m, k, X)
  BY PutStores
<1>2. PICK W, h : W = win[w] /\ h = hist[w]
  OBVIOUS
<1>3. w \in DOMAIN win /\ m \in Seq(Block) /\ k \in Nat /\ PutEffect(w, pos, n, m, k)
  BY DEF Puts
<1>4. W \in Window /\ h \in History
  BY <1>2, <1>3, WindowType DEF Inv
<1>5. valid \in [Nodes -> 0 .. NodeSize] /\ DOMAIN hist = DOMAIN win
  BY DEF Inv, TypeOK
<1>6. PICK T, q : T = End(h, m) /\ q = (T - Base(h.last)) \div NodeSize
  OBVIOUS
<1>7. PICK U : U = [W EXCEPT !.nodes = X, !.unsafe_len = @ + k]
  OBVIOUS
<1>8. /\ win' = [win EXCEPT ![w] = Advanced(U, m, T - Base(h.last))]
      /\ m[1].head = W.lastSeq =>
            /\ valid' = AdvancedValid(X, Place(h, h.last), T - Base(h.last))
            /\ hist' = [hist EXCEPT ![w].last = T]
      /\ m[1].head # W.lastSeq => valid' = valid /\ hist' = hist
  BY <1>2, <1>3, <1>6, <1>7 DEF PutEffect, End
<1>9. U.lastSeq = W.lastSeq
  BY <1>4, <1>7 DEF Window
<1>10. \A v \in DOMAIN win : v # w => \A i \in 1 .. Len(win[v].nodes) :
          win[v].nodes[i] \in Nodes /\ \A j \in 1 .. Len(X) : X[j] # win[v].nodes[i]
  <2>1. ASSUME NEW v \in DOMAIN win, v # w, NEW i \in 1 .. Len(win[v].nodes)
        PROVE  win[v].nodes[i] \in Nodes /\ \A j \in 1 .. Len(X) : X[j] # win[v].nodes[i]
    <3>1. win[v].nodes \in Seq(Nodes)
      BY <2>1, WindowType DEF Inv
    <3>2. win[v].nodes[i] \in Nodes
      BY <2>1, <3>1, ElementOfSeq
    <3> QED
      BY <1>1, <2>1, <3>2 DEF Stored, Extends
  <2> QED
    BY <2>1
<1>11. CASE m[1].head # W.lastSeq
  <2>1. PICK V : V = [W EXCEPT !.nodes = X, !.unsafe_len = @ + k, !.ub_list = m]
    OBVIOUS
  <2>2. Receives(w, V, hist[w], X, pos, n)
    BY <1>1, <1>2, <1>8, <1>11, <2>1, PutParked
  <2>3. win' = [win EXCEPT ![w] = V] /\ valid' = valid
    BY <1>7, <1>8, <1>9, <1>11, <2>1 DEF Advanced
  <2>4. hist' = hist
    BY <1>8, <1>11
  <2>5. \A v \in DOMAIN win : v # w => \A i \in 1 .. Len(win[v].nodes) :
          /\ valid'[win[v].nodes[i]] = valid[win[v].nodes[i]]
          /\ mem'[win[v].nodes[i]] = mem[win[v].nodes[i]]
    BY <1>1, <1>10, <2>3 DEF Stored, InPlace
  <2>6. Changes(w, V, hist[w])
    BY <1>3, <1>5, <2>2, <2>3, <2>4, <2>5 DEF Changes, Receives
  <2> QED
    BY <1>1, <1>5, <2>2, <2>3, <2>6
<1>12. CASE m[1].head = W.lastSeq
  <2>1. PICK V : V = [W EXCEPT !.nodes = X, !.safe = @ + q, !.safe_len = @ + q,
                        !.unsafe_len = (@ + k) - q, !.lastSeq = m[1].tail, !.ub_list = Tail(m)]
    OBVIOUS
  <2>g. PICK g : g = [h EXCEPT !.last = T]
    OBVIOUS
  <2>2. Receives(w, V, g, X, pos, n) /\ CountsUpTo(hist[w], X, T, valid')
    <3>1. /\ T = End(hist[w], m) /\ q = (T - Base(hist[w].last)) \div NodeSize
          /\ m[1].head = win[w].lastSeq
          /\ valid' = AdvancedValid(X, Place(hist[w], hist[w].last), T - Base(hist[w].last))
      BY <1>2, <1>6, <1>8, <1>12
    <3>2. /\ V = [win[w] EXCEPT !.nodes = X, !.safe = @ + q, !.safe_len = @ + q,
                     !.unsafe_len = (@ + k) - q, !.lastSeq = m[1].tail, !.ub_list = Tail(m)]
          /\ g = [hist[w] EXCEPT !.last = T]
      BY <1>2, <2>1, <2>g
    <3> QED
      BY ONLY Inv, Puts(w, pos, n, m, k), <1>1, <3>1, <3>2, PutTaken
  <2>3. win' = [win EXCEPT ![w] = V]
    <3>1. Advanced(U, m, T - Base(h.last)) =
            [U EXCEPT !.safe = @ + q, !.safe_len = @ + q, !.unsafe_len = @ - q,
                      !.lastSeq = m[1].tail, !.ub_list = Tail(m)]
      BY <1>6, <1>9, <1>12 DEF Advanced, altusUBPop
    <3>3. PICK Y : Y = [U EXCEPT !.safe = @ + q, !.safe_len = @ + q, !.unsafe_len = @ - q,
                                 !.lastSeq = m[1].tail, !.ub_list = Tail(m)]
      OBVIOUS
    <3>w. DOMAIN W = {"nodes", "safe", "safe_len", "unsafe_len", "headDataOffset", "headSeq",
                      "lastSeq", "ub_list"}
      BY <1>4 DEF Window
    <3>2. /\ U.nodes = X /\ U.safe = W.safe /\ U.safe_len = W.safe_len
          /\ U.unsafe_len = W.unsafe_len + k /\ U.headDataOffset = W.headDataOffset
          /\ U.headSeq = W.headSeq /\ DOMAIN U = DOMAIN W
      BY ONLY <1>7, <3>w
    <3>4. /\ Y.nodes = X /\ Y.safe = W.safe + q /\ Y.safe_len = W.safe_len + q
          /\ Y.unsafe_len = (W.unsafe_len + k) - q /\ Y.headDataOffset = W.headDataOffset
          /\ Y.headSeq = W.headSeq /\ Y.lastSeq = m[1].tail /\ Y.ub_list = Tail(m)
          /\ DOMAIN Y = DOMAIN W
      <4>1. DOMAIN U = {"nodes", "safe", "safe_len", "unsafe_len", "headDataOffset", "headSeq",
                        "lastSeq", "ub_list"} /\ DOMAIN Y = DOMAIN U
        BY ONLY <3>2, <3>3, <3>w
      <4>2. /\ Y.nodes = U.nodes /\ Y.safe = U.safe + q /\ Y.safe_len = U.safe_len + q
            /\ Y.unsafe_len = U.unsafe_len - q /\ Y.headDataOffset = U.headDataOffset
            /\ Y.headSeq = U.headSeq /\ Y.lastSeq = m[1].tail /\ Y.ub_list = Tail(m)
        BY ONLY <3>3, <4>1
      <4>3. U.unsafe_len - q = (W.unsafe_len + k) - q
        BY ONLY <3>2, Zenon
      <4>4. U.safe + q = W.safe + q /\ U.safe_len + q = W.safe_len + q
        BY ONLY <3>2, Zenon
      <4> QED
        BY ONLY <3>2, <4>1, <4>2, <4>3, <4>4, Zenon
    <3>5. /\ V.nodes = X /\ V.safe = W.safe + q /\ V.safe_len = W.safe_len + q
          /\ V.unsafe_len = (W.unsafe_len + k) - q /\ V.headDataOffset = W.headDataOffset
          /\ V.headSeq = W.headSeq /\ V.lastSeq = m[1].tail /\ V.ub_list = Tail(m)
          /\ DOMAIN V = DOMAIN W
      BY <2>1, <3>w
    <3>6. V = [x \in DOMAIN W |-> V[x]] /\ Y = [x \in DOMAIN W |-> Y[x]]
      BY <2>1, <3>3, <3>4, <3>5
    <3>7. V = Y
      BY ONLY <3>w, <3>4, <3>5, <3>6
    <3> QED
      BY <1>8, <3>1, <3>3, <3>7
  <2>4. hist' = [hist EXCEPT ![w] = g]
    BY <1>2, <1>3, <1>5, <1>8, <1>12, <2>g
  <2>5. \A v \in DOMAIN win : v # w => \A i \in 1 .. Len(win[v].nodes) :
          /\ valid'[win[v].nodes[i]] = valid[win[v].nodes[i]]
          /\ mem'[win[v].nodes[i]] = mem[win[v].nodes[i]]
    <3>1. \A x \in Nodes : (\A i \in 1 .. Len(X) : X[i] # x) => mem'[x] = mem[x] /\ valid'[x] = valid[x]
      BY <1>1, <2>2 DEF Stored, InPlace, CountsUpTo
    <3> QED
      BY ONLY <1>10, <3>1
  <2>6. Changes(w, V, g)
    BY <1>3, <1>5, <2>2, <2>3, <2>4, <2>5 DEF Changes, Receives
  <2> QED
    BY <1>1, <2>2, <2>6 DEF CountsUpTo
<1> QED
  BY <1>11, <1>12

\* The rest of a sequence.
LEMMA RestOf ==
    ASSUME NEW S, NEW s \in Seq(S), NEW c \in 0 .. Len(s)
    PROVE  /\ SubSeq(s, c + 1, Len(s)) \in Seq(S)
           /\ Len(SubSeq(s, c + 1, Len(s))) = Len(s) - c
           /\ \A i \in 1 .. (Len(s) - c) : SubSeq(s, c + 1, Len(s))[i] = s[i + c]
<1>1. Len(s) \in Nat /\ c \in Int /\ c + 1 \in Int
  BY LenProperties
<1>2. \A i \in (c + 1) .. Len(s) : s[i] \in S
  BY <1>1, ElementOfSeq
<1>3. /\ SubSeq(s, c + 1, Len(s)) \in Seq(S)
      /\ Len(SubSeq(s, c + 1, Len(s))) = IF c + 1 <= Len(s) THEN Len(s) - (c + 1) + 1 ELSE 0
      /\ \A i \in 1 .. (Len(s) - (c + 1) + 1) : SubSeq(s, c + 1, Len(s))[i] = s[(c + 1) + i - 1]
  BY <1>1, <1>2, SubSeqProperties
<1> QED
  BY <1>1, <1>3

\* altusWQPut takes nodes from the pool and from malloc and leaves every node
\* with one owner.
LEMMA PutOwns ==
    ASSUME Inv, NEW w, NEW pos, NEW n, NEW m, NEW k, Puts(w, pos, n, m, k),
           NEW X, X = win[w].nodes \o NewNodes(k), Extends(w, k, X),
           NEW V, NEW g, Changes(w, V, g), V.nodes = X
    PROVE  Ownership' /\ pool' \in Seq(Nodes) /\ heap' \subseteq Nodes
<1> DEFINE N == Len(win[w].nodes)
           c == Recycled(k)
           t == NewNodes(k)
<1>1. w \in DOMAIN win /\ k \in Nat /\ PutEffect(w, pos, n, m, k)
  BY DEF Puts
<1>2. pool \in Seq(Nodes) /\ Len(pool) \in Nat /\ Len(pool) >= 1 /\ heap \subseteq Nodes
  BY <1>1, LenProperties DEF Inv, TypeOK, Ownership
<1>3. /\ Cardinality(Nodes \ heap) >= k - c
      /\ pool' = SubSeq(pool, c + 1, Len(pool))
      /\ heap' = heap \cup ToSet(t)
  BY <1>1 DEF PutEffect
<1>4. /\ c \in 0 .. (Len(pool) - 1) /\ c <= k
      /\ t \in Seq(Nodes) /\ Len(t) = k
      /\ \A i \in 1 .. c : t[i] = pool[i]
      /\ \A i \in (c + 1) .. k : t[i] \in Nodes \ heap
  BY <1>1, <1>2, <1>3, NewNodesGive
<1>5. pool' \in Seq(Nodes) /\ Len(pool') = Len(pool) - c /\ Len(pool') >= 1
      /\ \A i \in 1 .. Len(pool') : i + c \in 1 .. Len(pool) /\ pool'[i] = pool[i + c]
  <2>1. c \in 0 .. Len(pool)
    BY <1>2, <1>4
  <2>2. /\ pool' \in Seq(Nodes) /\ Len(pool') = Len(pool) - c
        /\ \A i \in 1 .. (Len(pool) - c) : pool'[i] = pool[i + c]
    BY <1>2, <1>3, <2>1, RestOf
  <2> HIDE DEF c
  <2> QED
    BY <1>2, <1>4, <2>2
<1>6. \A x : x \in heap' <=> x \in heap \/ \E i \in 1 .. k : x = t[i]
  <2>1. DOMAIN t = 1 .. k
    BY <1>4, LenProperties
  <2> HIDE DEF t
  <2> QED
    BY <1>3, <2>1 DEF ToSet
<1>7. /\ N \in Nat /\ Len(X) = N + k
      /\ \A i \in 1 .. N : X[i] = win[w].nodes[i]
      /\ \A i \in 1 .. k : X[N + i] = t[i]
      /\ \A i, j \in 1 .. Len(X) : X[i] = X[j] => i = j
      /\ \A v \in DOMAIN win : v # w =>
            \A j \in 1 .. Len(win[v].nodes), i \in 1 .. Len(X) : X[i] # win[v].nodes[j]
  <2>1. N \in Nat
    BY <1>1, WindowType DEF Inv
  <2> QED
    BY <2>1 DEF Extends
<1>8. DOMAIN win' = DOMAIN win /\ win'[w].nodes = X
      /\ \A v \in DOMAIN win : v # w => win'[v].nodes = win[v].nodes
  BY DEF Changes
<1>9. /\ \A v \in DOMAIN win : \A i \in 1 .. Len(win[v].nodes) : win[v].nodes[i] \in heap
      /\ \A i \in 1 .. Len(pool) : pool[i] \in heap
      /\ \A x \in heap :
            \/ \E v \in DOMAIN win : \E i \in 1 .. Len(win[v].nodes) : win[v].nodes[i] = x
            \/ \E i \in 1 .. Len(pool) : pool[i] = x
      /\ \A v, u \in DOMAIN win :
            \A i \in 1 .. Len(win[v].nodes), j \in 1 .. Len(win[u].nodes) :
               win[v].nodes[i] = win[u].nodes[j] => v = u /\ i = j
      /\ \A i, j \in 1 .. Len(pool) : pool[i] = pool[j] => i = j
      /\ \A v \in DOMAIN win : \A i \in 1 .. Len(win[v].nodes), j \in 1 .. Len(pool) :
            win[v].nodes[i] # pool[j]
  BY DEF Inv, Ownership
<1>m. c \in Nat /\ c < Len(pool)
  BY <1>2, <1>4
<1> HIDE DEF N, c, t
<1>10. ASSUME NEW i \in 1 .. Len(X)
       PROVE  \/ i \in 1 .. N /\ X[i] = win[w].nodes[i] /\ X[i] \in heap
              \/ i - N \in 1 .. c /\ i - N \in 1 .. Len(pool) /\ X[i] = pool[i - N] /\ X[i] \in heap
              \/ i - N \in (c + 1) .. k /\ X[i] = t[i - N] /\ X[i] \notin heap
  <2>1. CASE i <= N
    <3>1. i \in 1 .. N
      BY <1>7, <2>1
    <3> QED
      BY <1>1, <1>7, <1>9, <3>1 DEF N
  <2>2. CASE i > N
    <3>1. i - N \in 1 .. k /\ N + (i - N) = i
      BY <1>1, <1>7, <2>2
    <3>2. X[i] = t[i - N]
      BY <1>7, <3>1
    <3>3. CASE i - N <= c
      <4>1. i - N \in 1 .. c /\ i - N \in 1 .. Len(pool)
        BY <1>2, <1>m, <3>1, <3>3
      <4> QED
        BY <1>4, <1>9, <3>2, <4>1
    <3>4. CASE i - N > c
      <4>1. i - N \in (c + 1) .. k
        BY <1>m, <3>1, <3>4
      <4> QED
        BY <1>4, <3>2, <4>1
    <3> QED
      BY <1>m, <3>1, <3>3, <3>4
  <2> QED
    BY <1>7, <2>1, <2>2
<1>11. ASSUME NEW i \in 1 .. Len(X) PROVE X[i] \in heap'
  <2>1. CASE X[i] \in heap
    BY <1>6, <2>1
  <2>2. CASE i - N \in (c + 1) .. k /\ X[i] = t[i - N]
    <3>1. i - N \in 1 .. k
      BY <1>m, <2>2
    <3> QED
      BY <1>6, <2>2, <3>1
  <2> QED
    BY <1>10, <2>1, <2>2
<1>12. ASSUME NEW i \in 1 .. k PROVE N + i \in 1 .. Len(X) /\ X[N + i] = t[i]
  <2>1. N + i \in 1 .. (N + k)
    BY <1>1, <1>7
  <2> QED
    BY <1>7, <2>1
<1>a. \A v \in DOMAIN win' : \A i \in 1 .. Len(win'[v].nodes) : win'[v].nodes[i] \in heap'
  <2>1. ASSUME NEW v \in DOMAIN win, NEW i \in 1 .. Len(win'[v].nodes)
        PROVE  win'[v].nodes[i] \in heap'
    <3>1. CASE v = w
      BY <1>8, <1>11, <2>1, <3>1
    <3>2. CASE v # w
      BY <1>6, <1>8, <1>9, <2>1, <3>2
    <3> QED
      BY <3>1, <3>2
  <2> QED
    BY <1>8, <2>1
<1>b. \A i \in 1 .. Len(pool') : pool'[i] \in heap'
  BY <1>5, <1>6, <1>9
<1>c. ASSUME NEW x \in heap'
      PROVE  \/ \E v \in DOMAIN win' : \E i \in 1 .. Len(win'[v].nodes) : win'[v].nodes[i] = x
             \/ \E i \in 1 .. Len(pool') : pool'[i] = x
  <2>1. ASSUME NEW i \in 1 .. Len(X), X[i] = x
        PROVE  \E v \in DOMAIN win' : \E j \in 1 .. Len(win'[v].nodes) : win'[v].nodes[j] = x
    BY <1>1, <1>8, <2>1
  <2>2. ASSUME NEW v \in DOMAIN win, NEW i \in 1 .. Len(win[v].nodes), win[v].nodes[i] = x
        PROVE  \E u \in DOMAIN win' : \E j \in 1 .. Len(win'[u].nodes) : win'[u].nodes[j] = x
    <3>1. CASE v = w
      <4>1. i \in 1 .. N /\ i \in 1 .. Len(X)
        BY <1>1, <1>7, <2>2, <3>1 DEF N
      <4>2. X[i] = x
        BY <1>7, <2>2, <3>1, <4>1
      <4> QED
        BY <2>1, <4>1, <4>2
    <3>2. CASE v # w
      BY <1>8, <2>2, <3>2
    <3> QED
      BY <3>1, <3>2
  <2>3. ASSUME NEW i \in 1 .. Len(pool), pool[i] = x
        PROVE  \/ \E v \in DOMAIN win' : \E j \in 1 .. Len(win'[v].nodes) : win'[v].nodes[j] = x
               \/ \E j \in 1 .. Len(pool') : pool'[j] = x
    <3>1. CASE i <= c
      <4>1. i \in 1 .. k /\ i \in 1 .. c
        BY <1>1, <1>4, <1>m, <3>1
      <4>2. t[i] = x
        BY <1>4, <2>3, <4>1
      <4> QED
        BY <1>12, <2>1, <4>1, <4>2
    <3>2. CASE i > c
      <4>1. i - c \in 1 .. Len(pool') /\ (i - c) + c = i
        BY <1>2, <1>5, <1>m, <3>2
      <4>2. pool'[i - c] = x
        BY <1>5, <2>3, <4>1
      <4> QED
        BY <4>1, <4>2
    <3> QED
      BY <1>m, <3>1, <3>2
  <2>4. ASSUME NEW i \in 1 .. k, x = t[i]
        PROVE  \E v \in DOMAIN win' : \E j \in 1 .. Len(win'[v].nodes) : win'[v].nodes[j] = x
    BY <1>12, <2>1, <2>4
  <2>5. CASE x \in heap
    BY <1>9, <2>2, <2>3, <2>5
  <2> QED
    BY <1>c, <1>6, <2>4, <2>5
<1>d. ASSUME NEW v \in DOMAIN win', NEW u \in DOMAIN win', NEW i \in 1 .. Len(win'[v].nodes),
             NEW j \in 1 .. Len(win'[u].nodes), win'[v].nodes[i] = win'[u].nodes[j]
      PROVE  v = u /\ i = j
  <2>0. v \in DOMAIN win /\ u \in DOMAIN win
    BY <1>8, <1>d
  <2>1. CASE v = w /\ u = w
    BY <1>7, <1>8, <1>d, <2>1
  <2>x. \A y \in DOMAIN win : y # w => win'[y].nodes = win[y].nodes /\
           \A b \in 1 .. Len(win'[y].nodes), a \in 1 .. Len(X) : X[a] # win'[y].nodes[b]
    BY <1>7, <1>8
  <2>2. CASE v = w /\ u # w
    <3>1. win'[v].nodes = X
      BY <1>8, <2>2
    <3> QED
      BY <1>d, <2>0, <2>2, <2>x, <3>1
  <2>3. CASE v # w /\ u = w
    <3>1. win'[u].nodes = X
      BY <1>8, <2>3
    <3> QED
      BY <1>d, <2>0, <2>3, <2>x, <3>1
  <2>4. CASE v # w /\ u # w
    BY <1>8, <1>9, <1>d, <2>0, <2>4
  <2> QED
    BY <2>1, <2>2, <2>3, <2>4
<1>e. ASSUME NEW i \in 1 .. Len(pool'), NEW j \in 1 .. Len(pool'), pool'[i] = pool'[j]
      PROVE  i = j
  <2>1. i + c = j + c
    BY <1>5, <1>9, <1>e
  <2> QED
    BY <1>m, <2>1
<1>f. ASSUME NEW v \in DOMAIN win', NEW i \in 1 .. Len(win'[v].nodes), NEW j \in 1 .. Len(pool')
      PROVE  win'[v].nodes[i] # pool'[j]
  <2>1. j + c \in 1 .. Len(pool) /\ pool'[j] = pool[j + c] /\ pool[j + c] \in heap
    BY <1>5, <1>9, <1>f
  <2>2. CASE v = w
    <3>1. i \in 1 .. Len(X) /\ win'[v].nodes[i] = X[i]
      BY <1>8, <1>f, <2>2
    <3>2. CASE i \in 1 .. N /\ X[i] = win[w].nodes[i]
      BY <1>1, <1>9, <2>1, <3>1, <3>2 DEF N
    <3>3. CASE i - N \in 1 .. c /\ i - N \in 1 .. Len(pool) /\ X[i] = pool[i - N]
      <4>1. i - N # j + c
        BY <1>m, <3>3
      <4> QED
        BY <1>9, <2>1, <3>1, <3>3, <4>1
    <3>4. CASE X[i] \notin heap
      BY <2>1, <3>1, <3>4
    <3> QED
      BY <1>10, <3>1, <3>2, <3>3, <3>4
  <2>3. CASE v # w
    <3>1. v \in DOMAIN win /\ win'[v].nodes = win[v].nodes
      BY <1>8, <1>f, <2>3
    <3>2. win[v].nodes[i] # pool[j + c]
      BY <1>9, <1>f, <2>1, <3>1
    <3> QED
      BY <2>1, <3>1, <3>2
  <2> QED
    BY <2>2, <2>3
<1>g. heap' \subseteq Nodes
  <2>1. \A i \in 1 .. k : t[i] \in Nodes
    BY <1>4, ElementOfSeq
  <2> QED
    BY <1>2, <1>6, <2>1
<1> QED
  BY <1>5, <1>a, <1>b, <1>c, <1>d, <1>e, <1>f, <1>g DEF Ownership

\* TypeOK after a step that changes one window.
LEMMA TypesKept ==
    ASSUME Inv, NEW w, NEW V, NEW g, Changes(w, V, g),
           pool' \in Seq(Nodes), heap' \subseteq Nodes, valid' \in [Nodes -> 0 .. NodeSize],
           mem' \in [Nodes -> [Offsets -> Nat \cup {Junk}]],
           ret'.win = w, ret'.code \in Int, corrupt' = corrupt
    PROVE  TypeOK'
<1>1. /\ DOMAIN win' = DOMAIN win /\ DOMAIN hist' = DOMAIN win
      /\ \A v \in DOMAIN win' :
           /\ win'[v] \in Window /\ win'[v].safe \in DOMAIN win'[v].nodes
           /\ Len(win'[v].ub_list) <= MaxUB /\ hist'[v] \in History
  BY OneWindow
<1>2. DOMAIN win \subseteq Windows /\ corrupt \in BOOLEAN
  BY DEF Inv, TypeOK
<1>3. w \in DOMAIN win
  BY DEF Changes
<1> QED
  BY <1>1, <1>2, <1>3 DEF TypeOK, History

\* Positions held stay below the bound when those of one window do.
LEMMA BoundedKept ==
    ASSUME Inv, NEW w, NEW V, NEW g, Changes(w, V, g),
           \A p \in Nat : Holds(V, g, p) => p < MaxPos
    PROVE  Bounded'
<1>1. /\ DOMAIN win' = DOMAIN win /\ win'[w] = V /\ hist'[w] = g
      /\ \A v \in DOMAIN win : v # w => win'[v] = win[v] /\ hist'[v] = hist[v]
  BY DEF Changes
<1>2. ASSUME NEW v \in DOMAIN win, NEW p \in Nat, Holds(win'[v], hist'[v], p) PROVE p < MaxPos
  <2>1. CASE v = w
    BY <1>1, <1>2, <2>1
  <2>2. CASE v # w
    BY <1>1, <1>2, <2>2 DEF Inv, Bounded
  <2> QED
    BY <2>1, <2>2
<1>3. \A v \in DOMAIN win' : \A p \in Nat : Holds(win'[v], hist'[v], p) => p < MaxPos
  BY <1>1, <1>2
<1> QED
  BY <1>3 DEF Bounded, Holds, Covered

\* What an accepted block does to the bytes a window holds.
Takes(w, pos, n) ==
    /\ w \in DOMAIN win /\ hist[w].read <= pos /\ pos + n <= MaxPos
    /\ DOMAIN win' = DOMAIN win /\ DOMAIN hist' = DOMAIN win
    /\ \A v \in DOMAIN win : v # w => win'[v] = win[v] /\ hist'[v] = hist[v]
    /\ hist'[w].read = hist[w].read
    /\ \A p \in Nat : pos <= p /\ p < pos + n => ~Holds(win[w], hist[w], p)
    /\ \A p \in Nat : Holds(win'[w], hist'[w], p) <=>
                         Holds(win[w], hist[w], p) \/ (pos <= p /\ p < pos + n)

\* altusWQPut keeps the invariant and adds the bytes of the block, which the
\* window did not hold.
LEMMA PutInv ==
    ASSUME Inv, NEW w, NEW pos \in Positions, NEW n \in 0 .. MaxLen, pos + n <= MaxPos,
           w \in DOMAIN win, pos - hist[w].last \in (1 - Half) .. (Half - 1), PutAccepted(w, pos, n)
    PROVE  Inv' /\ Takes(w, pos, n)
<1>0. pos \in Nat /\ n \in Nat /\ pos + n \in Nat
  BY Sizes DEF Positions
<1>1. PICK m \in Seq(Block), k \in Nat :
         /\ hist[w].last <= pos /\ Place(hist[w], pos + n) <= WindowSize
         /\ n \in Nat /\ (n = 0 \/ pos <= Border(hist[w].last))
         /\ Len(m) <= MaxUB /\ Spliced(win[w].ub_list, hist[w].last, pos, pos + n, m)
         /\ k = Calls(Len(win[w].nodes), hist[w], pos, n)
         /\ PutEffect(w, pos, n, m, k)
  BY <1>0, PutNumbers
<1>2. Puts(w, pos, n, m, k)
  BY <1>0, <1>1 DEF Puts
<1>3. PICK X : X = win[w].nodes \o NewNodes(k)
  OBVIOUS
<1>4. /\ Stored(w, pos, n, m, k, X) /\ valid' \in [Nodes -> 0 .. NodeSize]
      /\ \E V, g : Changes(w, V, g) /\ Receives(w, V, g, X, pos, n)
  BY <1>2, <1>3, PutChanges
<1>5. PICK V, g : Changes(w, V, g) /\ Receives(w, V, g, X, pos, n)
  BY <1>4
<1>6. Ownership' /\ pool' \in Seq(Nodes) /\ heap' \subseteq Nodes
  <2>1. Extends(w, k, X) /\ V.nodes = X
    BY <1>4, <1>5 DEF Stored, Receives
  <2> QED
    BY <1>2, <1>3, <1>5, <2>1, PutOwns
<1>7. WindowInv'
  BY <1>5, OneWindow
<1>8. TypeOK'
  <2>1. ret'.win = w /\ ret'.code \in Int /\ corrupt' = corrupt
    BY <1>1 DEF PutEffect
  <2>2. mem' \in [Nodes -> [Offsets -> Nat \cup {Junk}]]
    BY <1>4 DEF Stored, InPlace
  <2> QED
    BY <1>4, <1>5, <1>6, <2>1, <2>2, TypesKept
<1>9. \A p \in Nat : Holds(V, g, p) <=> Holds(win[w], hist[w], p) \/ (pos <= p /\ p < pos + n)
  BY <1>5 DEF Receives
<1>10. Bounded'
  <2>1. \A p \in Nat : Holds(V, g, p) => p < MaxPos
    <3>1. \A p \in Nat : Holds(win[w], hist[w], p) => p < MaxPos
      BY DEF Inv, Bounded
    <3> QED
      BY <1>0, <1>9, <3>1, Sizes
  <2> QED
    BY <1>5, <2>1, BoundedKept
<1>11. Takes(w, pos, n)
  <2>1. hist[w] \in History /\ hist[w].read <= hist[w].last
    BY WindowType DEF Inv, WindowInv, Sound, SoundIn, Numbers
  <2>2. hist[w].read <= pos
    BY <1>0, <1>1, <2>1 DEF History
  <2>3. \A p \in Nat : pos <= p /\ p < pos + n => ~Holds(win[w], hist[w], p)
    <3>1. \A p \in Nat : pos <= p /\ p < pos + n => ~Covered(win[w].ub_list, hist[w].last, p)
      BY <1>1 DEF Spliced
    <3>2. \A p \in Nat : pos <= p => ~(p < hist[w].last)
      BY <1>0, <1>1, <2>1 DEF History
    <3> QED
      BY <3>1, <3>2 DEF Holds
  <2>4. /\ DOMAIN win' = DOMAIN win /\ DOMAIN hist' = DOMAIN win /\ win'[w] = V /\ hist'[w] = g
        /\ \A v \in DOMAIN win : v # w => win'[v] = win[v] /\ hist'[v] = hist[v]
    BY <1>5 DEF Changes
  <2>5. g.read = hist[w].read
    BY <1>5 DEF Receives
  <2> QED
    BY <1>9, <2>2, <2>3, <2>4, <2>5 DEF Takes
<1> QED
  BY <1>6, <1>7, <1>8, <1>10, <1>11 DEF Inv

-----------------------------------------------------------------------------
(* altusWQPop keeps the invariant.                                         *)

\* The least element of a set of numbers is what Min yields.
LEMMA MinIs ==
    ASSUME NEW S \in SUBSET Int, NEW x \in S, \A y \in S : x <= y
    PROVE  Min(S) = x
<1>1. \E z \in S : \A y \in S : z <= y
  OBVIOUS
<1>2. Min(S) \in S /\ \A y \in S : Min(S) <= y
  BY <1>1 DEF Min
<1>3. Min(S) \in Int /\ x \in Int /\ Min(S) <= x /\ x <= Min(S)
  BY <1>2
<1> QED
  BY <1>3

\* A position is a multiple of the node size and a rest.
LEMMA Split ==
    ASSUME NEW p \in Nat
    PROVE  \E a \in Nat, b \in Nat :
              /\ a = p \div NodeSize /\ b = p % NodeSize
              /\ NodeSize * a \in Nat /\ p = NodeSize * a + b /\ b < NodeSize
<1>1. /\ p \div NodeSize \in Nat /\ p % NodeSize \in 0 .. (NodeSize - 1)
      /\ p = NodeSize * (p \div NodeSize) + (p % NodeSize)
  BY Sizes, DivMod
<1>2. \A a, d \in Nat : d * a \in Nat
  OBVIOUS
<1>3. NodeSize * (p \div NodeSize) \in Nat
  BY <1>1, <1>2, Sizes
<1> QED
  BY <1>1, <1>3, Sizes

\* What altusWQPop finds to read lies between the reader and lastSeq.
LEMMA ReadableIs ==
    ASSUME NEW W \in Window, NEW h \in History, Sound(W, h)
    PROVE  Readable(W) = h.last - h.read
<1>1. Numbers(W, h) /\ Filled(W, h, valid) /\ Sized(W, h)
  BY DEF Sound, SoundIn
<1>2. h.last \in Nat /\ h.read \in Nat /\ W.safe = Place(h, h.last)
      /\ W.headDataOffset = h.read % NodeSize
  BY <1>1 DEF Numbers, History
<1>3. W.safe \in 1 .. Len(W.nodes) /\ Len(W.nodes) \in Nat /\ DOMAIN W.nodes = 1 .. Len(W.nodes)
  <2>1. W.nodes \in Seq(Nodes)
    BY Fields
  <2> QED
    BY <1>1, <2>1, InNodes, LenProperties
<1> DEFINE S == {i \in DOMAIN W.nodes : valid[W.nodes[i]] < NodeSize}
<1>4. Min(S) = W.safe
  <2>1. S \in SUBSET Int
    BY <1>3
  <2>2. valid[W.nodes[W.safe]] < NodeSize
    <3>1. h.last % NodeSize \in 0 .. (NodeSize - 1)
      BY <1>2, Sizes, DivMod
    <3> QED
      BY <1>1, <3>1, Sizes DEF Filled
  <2>3. W.safe \in S
    BY <1>3, <2>2
  <2>4. ASSUME NEW y \in S PROVE W.safe <= y
    <3> SUFFICES ASSUME y < W.safe PROVE FALSE
      BY <1>3, <2>1
    <3>1. y \in 1 .. (W.safe - 1) /\ valid[W.nodes[y]] < NodeSize
      BY <1>3
    <3>2. valid[W.nodes[y]] = NodeSize
      BY <1>1, <3>1 DEF Filled
    <3> QED
      BY <3>1, <3>2, Sizes
  <2> HIDE DEF S
  <2> QED
    BY <2>1, <2>3, <2>4, MinIs
<1>5. Readable(W) = (W.safe - 1) * NodeSize + (h.last % NodeSize) - (h.read % NodeSize)
  <2>1. valid[W.nodes[W.safe]] = h.last % NodeSize
    BY <1>1 DEF Filled
  <2> QED
    BY <1>2, <1>4, <2>1 DEF Readable
<1>6. PICK a \in Nat, b \in Nat :
         /\ a = h.last \div NodeSize /\ b = h.last % NodeSize
         /\ NodeSize * a \in Nat /\ h.last = NodeSize * a + b /\ b < NodeSize
  BY <1>2, Split
<1>7. PICK c \in Nat, d \in Nat :
         /\ c = h.read \div NodeSize /\ d = h.read % NodeSize
         /\ NodeSize * c \in Nat /\ h.read = NodeSize * c + d /\ d < NodeSize
  BY <1>2, Split
<1>8. W.safe - 1 = a - c
  BY <1>2, <1>6, <1>7 DEF Place
<1>9. (a - c) * NodeSize = NodeSize * a - NodeSize * c
  BY <1>6, <1>7, Sizes
<1>10. PICK x \in Nat, y \in Nat : x = NodeSize * a /\ y = NodeSize * c
  BY <1>6, <1>7
<1>11. Readable(W) = (x - y) + b - d /\ h.last = x + b /\ h.read = y + d
  BY <1>5, <1>6, <1>7, <1>8, <1>9, <1>10
<1>12. b \in Nat /\ d \in Nat /\ x \in Nat /\ y \in Nat
  BY <1>6, <1>7, <1>10
<1> QED
  BY ONLY <1>11, <1>12

\* Reading n bytes uses up q nodes.
Uses(h, n) == ((h.read + n) \div NodeSize) - (h.read \div NodeSize)

\* The quotient and the remainder altusWQPop computes with.
LEMMA PopNumbers ==
    ASSUME NEW h \in History, NEW n \in Nat
    PROVE  /\ ((h.read % NodeSize) + n) \div NodeSize = Uses(h, n)
           /\ ((h.read % NodeSize) + n) % NodeSize = (h.read + n) % NodeSize
           /\ Uses(h, n) \in Nat
           /\ \A p \in Nat : Place([h EXCEPT !.read = h.read + n], p) = Place(h, p) - Uses(h, n)
<1>1. h.read \in Nat /\ h.last \in Nat
  BY DEF History
<1>2. PICK c \in Nat, d \in Nat :
         /\ c = h.read \div NodeSize /\ d = h.read % NodeSize
         /\ NodeSize * c \in Nat /\ h.read = NodeSize * c + d /\ d < NodeSize
  BY <1>1, Split
<1>3. NodeSize * c \in Nat
  BY <1>2
<1>4. PICK a \in Nat : a = h.read + n
  BY <1>1
<1>5. /\ (a - NodeSize * c) \div NodeSize = (a \div NodeSize) - c
      /\ (a - NodeSize * c) % NodeSize = a % NodeSize
      /\ c <= a \div NodeSize
  BY <1>2, <1>3, <1>4, DivSub
<1>6. a - NodeSize * c = d + n
  BY <1>2, <1>3, <1>4
<1>7. a \div NodeSize \in Nat
  BY Sizes, DivMod
<1>8. Uses(h, n) = (a \div NodeSize) - c
  BY <1>2, <1>4 DEF Uses
<1>9. Uses(h, n) \in Nat
  <2>1. PICK y \in Nat : y = a \div NodeSize
    BY <1>7
  <2>2. c <= y /\ c \in Nat
    BY <1>2, <1>5, <2>1
  <2> QED
    BY <1>8, <2>1, <2>2
<1>10. ASSUME NEW p \in Nat
       PROVE  Place([h EXCEPT !.read = h.read + n], p) = Place(h, p) - Uses(h, n)
  <2>1. [h EXCEPT !.read = h.read + n].read = a
    BY <1>4 DEF History
  <2>2. p \div NodeSize \in Nat
    BY Sizes, DivMod
  <2>3. PICK x \in Nat, y \in Nat : x = p \div NodeSize /\ y = a \div NodeSize
    BY <1>7, <2>2
  <2>4. Place([h EXCEPT !.read = h.read + n], p) = 1 + x - y
    BY <2>1, <2>3 DEF Place
  <2>5. Place(h, p) = 1 + x - c /\ Uses(h, n) = y - c
    BY <1>2, <1>8, <2>3 DEF Place
  <2>6. c \in Nat /\ x \in Nat /\ y \in Nat
    BY <1>2, <2>3
  <2> QED
    BY ONLY <2>4, <2>5, <2>6
<1> QED
  BY <1>2, <1>4, <1>5, <1>6, <1>8, <1>9, <1>10

\* Window V with history g is what is left of window W when n bytes were read
\* and q nodes given to the pool.
Reads(W, h, n, q, V, g) ==
    /\ n \in Nat /\ h.read + n <= h.last
    /\ q = Uses(h, n) /\ q \in Nat /\ q < W.safe
    /\ g = [h EXCEPT !.read = h.read + n]
    /\ V \in Window
    /\ V.nodes = SubSeq(W.nodes, q + 1, Len(W.nodes))
    /\ V.safe = W.safe - q /\ V.safe_len = V.safe
    /\ V.headDataOffset = (h.read + n) % NodeSize
    /\ V.lastSeq = W.lastSeq /\ V.ub_list = W.ub_list

\* What is left is sound.
LEMMA PopSound ==
    ASSUME NEW W \in Window, NEW h \in History, Sound(W, h),
           \A i, j \in 1 .. Len(W.nodes) : W.nodes[i] = W.nodes[j] => i = j,
           NEW n, NEW q, NEW V, NEW g, Reads(W, h, n, q, V, g), valid' = valid,
           \A i \in 1 .. Len(W.nodes) : q < i => mem'[W.nodes[i]] = mem[W.nodes[i]]
    PROVE  /\ g \in History /\ g.read = h.read + n
           /\ SoundIn(V, g, valid', mem')
           /\ \A p \in Nat : Holds(V, g, p) <=> Holds(W, h, p) /\ h.read + n <= p
<1>1. Numbers(W, h) /\ Filled(W, h, valid) /\ Listed(W, h) /\ Sized(W, h) /\ Bytes(W, h, mem)
  BY DEF Sound, SoundIn
<1>2. /\ n \in Nat /\ h.read + n <= h.last
      /\ q = Uses(h, n) /\ q \in Nat /\ q < W.safe
      /\ g = [h EXCEPT !.read = h.read + n]
      /\ V \in Window
      /\ V.nodes = SubSeq(W.nodes, q + 1, Len(W.nodes))
      /\ V.safe = W.safe - q /\ V.safe_len = V.safe
      /\ V.headDataOffset = (h.read + n) % NodeSize
      /\ V.lastSeq = W.lastSeq /\ V.ub_list = W.ub_list
  BY DEF Reads
<1>q. q \in Nat
  BY <1>2
<1>3. h.read \in Nat /\ h.last \in Nat
  BY DEF History
<1>4. g \in History /\ g.read = h.read + n /\ g.last = h.last
  BY <1>2, <1>3 DEF History
<1>5. \A p \in Nat : Place(g, p) = Place(h, p) - q
  BY <1>2, PopNumbers
<1>6. /\ W.safe \in 1 .. Len(W.nodes) /\ Len(W.nodes) \in Nat /\ W.nodes \in Seq(Nodes)
      /\ \A p \in Nat : Holds(W, h, p) => h.read <= p /\ Place(h, p) \in 1 .. Len(W.nodes)
      /\ \A p \in Nat : Covered(W.ub_list, h.last, p) => h.last <= p
  BY <1>1, InNodes, Fields
<1>7. /\ Len(V.nodes) = Len(W.nodes) - q
      /\ \A i \in 1 .. (Len(W.nodes) - q) : V.nodes[i] = W.nodes[i + q]
  <2>1. q \in 0 .. Len(W.nodes)
    BY <1>2, <1>6
  <2>2. W.nodes \in Seq(Nodes) /\ V.nodes = SubSeq(W.nodes, q + 1, Len(W.nodes))
    BY <1>2, <1>6
  <2> QED
    BY ONLY <2>1, <2>2, RestOf
<1>8. /\ \A p \in Nat : Place(h, p) \in Int
      /\ \A p \in Nat : h.read <= p => 1 <= Place(h, p)
      /\ \A p \in Nat : g.read <= p => 1 <= Place(g, p)
  BY <1>4, Places
<1>9. Numbers(V, g)
  <2>1. Place(h, h.last) - q = Place(g, g.last)
    BY <1>3, <1>4, <1>5
  <2>2. W.safe = Place(h, h.last) /\ W.safe <= WindowSize /\ W.lastSeq = h.last % SeqSpace
    BY <1>1 DEF Numbers
  <2>3. V.safe <= WindowSize
    BY <1>2, <1>6, <2>2, Sizes
  <2> QED
    BY <1>2, <1>4, <2>1, <2>2, <2>3 DEF Numbers
<1>10. Listed(V, g)
  <2>1. ASSUME NEW i \in 1 .. Len(W.ub_list)
        PROVE  Place(g, Up(g.last, W.ub_list[i].tail)) <= WindowSize
    <3>1. PICK p : p = Up(h.last, W.ub_list[i].tail)
      OBVIOUS
    <3>2. p \in Nat
      BY <1>3, <3>1, BlockPositions, Fields
    <3>3. Place(h, p) <= WindowSize
      BY <1>1, <3>1 DEF Listed
    <3>4. Place(g, p) = Place(h, p) - q /\ Place(h, p) \in Int
      BY <1>5, <1>8, <3>2
    <3>5. Place(g, p) <= WindowSize
      BY ONLY <1>q, <3>3, <3>4, Sizes
    <3> QED
      BY <1>4, <3>1, <3>5
  <2> QED
    BY <1>1, <1>2, <1>4, <2>1 DEF Listed
<1>11. Sized(V, g)
  <2>1. PICK E \in Nat, more \in {0, 1} : Fits(W.ub_list, Len(W.nodes), h, E, more)
    BY <1>1 DEF Sized
  <2>2. Len(W.nodes) = Place(h, E) + more /\ Place(h, E) <= WindowSize
    BY <2>1 DEF Fits
  <2>3. Len(W.nodes) - q = Place(g, E) + more /\ Place(g, E) <= WindowSize
    <3>1. Place(g, E) = Place(h, E) - q /\ Place(h, E) \in Int /\ more \in Int /\ q \in Nat
      BY <1>q, <1>5, <1>8, <2>1
    <3> QED
      BY ONLY <2>2, <3>1, Sizes
  <2>4. Fits(V.ub_list, Len(V.nodes), g, E, more)
    BY <1>2, <1>4, <1>7, <2>1, <2>3 DEF Fits
  <2> QED
    BY <2>1, <2>4 DEF Sized
<1>12. ASSUME NEW p \in Nat
       PROVE  Holds(V, g, p) <=> Holds(W, h, p) /\ h.read + n <= p
  <2>1. Covered(W.ub_list, h.last, p) => h.last <= p
    BY <1>6
  <2>2. Holds(V, g, p) <=> (h.read + n <= p /\ p < h.last) \/ Covered(W.ub_list, h.last, p)
    BY <1>2, <1>4 DEF Holds
  <2>3. Holds(W, h, p) <=> (h.read <= p /\ p < h.last) \/ Covered(W.ub_list, h.last, p)
    BY DEF Holds
  <2> QED
    BY <1>2, <1>3, <2>1, <2>2, <2>3
<1>13. ASSUME NEW i \in 1 .. (V.safe - 1) PROVE valid'[V.nodes[i]] = NodeSize
  <2>1. i + q \in 1 .. (W.safe - 1) /\ i \in 1 .. (Len(W.nodes) - q)
    <3>1. /\ q \in Nat /\ V.safe = W.safe - q /\ W.safe \in 1 .. Len(W.nodes) /\ Len(W.nodes) \in Nat
          /\ i \in 1 .. (V.safe - 1)
      BY <1>2, <1>6, <1>13
    <3> QED
      BY ONLY <3>1
  <2> QED
    BY <1>1, <1>7, <2>1 DEF Filled
<1>14. valid'[V.nodes[V.safe]] = g.last % NodeSize
  <2>1. V.safe + q = W.safe /\ V.safe \in 1 .. (Len(W.nodes) - q)
    BY <1>2, <1>6
  <2> QED
    BY <1>1, <1>4, <1>7, <2>1 DEF Filled
<1>15. ASSUME NEW p \in Nat, Holds(V, g, p) PROVE mem'[V.nodes[Place(g, p)]][p % NodeSize] = p
  <2>1. Holds(W, h, p) /\ h.read + n <= p
    BY <1>12, <1>15
  <2>2. PICK i : i = Place(g, p)
    OBVIOUS
  <2>3. i + q = Place(h, p) /\ i >= 1 /\ i + q \in 1 .. Len(W.nodes) /\ i \in Int
    <3>1. i = Place(h, p) - q /\ Place(h, p) \in Int
      BY <1>5, <1>8, <2>2
    <3>2. 1 <= i
      BY <1>4, <1>8, <2>1, <2>2
    <3>3. Place(h, p) \in 1 .. Len(W.nodes)
      BY <1>6, <2>1
    <3> QED
      BY ONLY <1>q, <3>1, <3>2, <3>3
  <2>4. V.nodes[i] = W.nodes[i + q] /\ q < i + q
    <3>1. Len(W.nodes) \in Nat
      BY <1>6
    <3>2. i \in 1 .. (Len(W.nodes) - q) /\ q < i + q
      BY ONLY <1>q, <2>3, <3>1
    <3> QED
      BY <1>7, <3>2
  <2>5. mem'[W.nodes[i + q]] = mem[W.nodes[i + q]]
    BY <2>3, <2>4
  <2>6. mem[W.nodes[i + q]][p % NodeSize] = p
    BY <1>1, <2>1, <2>3 DEF Bytes
  <2> QED
    BY <2>2, <2>4, <2>5, <2>6
<1>16. SoundIn(V, g, valid', mem')
  BY <1>9, <1>10, <1>11, <1>13, <1>14, <1>15, SoundAfter
<1> QED
  BY <1>4, <1>12, <1>16

\* The effect of altusWQPop in terms of positions.
PopEffect(w, n, q, V, g) ==
    /\ Reads(win[w], hist[w], n, q, V, g)
    /\ DOMAIN win' = DOMAIN win /\ DOMAIN hist' = DOMAIN win
    /\ win'[w] = V /\ hist'[w] = g
    /\ \A v \in DOMAIN win : v # w => win'[v] = win[v] /\ hist'[v] = hist[v]
    /\ pool' = pool \o SubSeq(win[w].nodes, 1, q)
    /\ mem' = [x \in Nodes |-> IF x \in ToSet(SubSeq(win[w].nodes, 1, q)) THEN Garbage ELSE mem[x]]
    /\ ret' = [win |-> w, code |-> n, bytes |-> [j \in 1 .. n |-> hist[w].read + j - 1]]
    /\ valid' = valid /\ heap' = heap /\ corrupt' = corrupt

\* The byte of a position that a window holds is where altusWQPop looks for it.
LEMMA ByteOf ==
    ASSUME NEW W \in Window, NEW h \in History, Sound(W, h), NEW p \in Nat, Holds(W, h, p)
    PROVE  ByteAt(W, W.headDataOffset + p - h.read) = p
<1>1. h.read \in Nat /\ W.headDataOffset = h.read % NodeSize /\ Numbers(W, h) /\ Sized(W, h)
  BY DEF History, Sound, SoundIn, Numbers
<1>2. h.read <= p
  BY <1>1, InNodes
<1>3. PICK i \in Nat : i = p - h.read
  BY <1>1, <1>2
<1>4. h.read + i = p
  BY <1>1, <1>3
<1>5. /\ ((h.read % NodeSize) + i) \div NodeSize = Uses(h, i)
      /\ ((h.read % NodeSize) + i) % NodeSize = (h.read + i) % NodeSize
  BY <1>3, PopNumbers
<1>6. 1 + Uses(h, i) = Place(h, p)
  <2>1. PICK x \in Nat, y \in Nat : x = p \div NodeSize /\ y = h.read \div NodeSize
    BY <1>1, Places
  <2>2. Uses(h, i) = x - y /\ Place(h, p) = 1 + x - y
    BY <1>4, <2>1 DEF Uses, Place
  <2> QED
    BY <2>1, <2>2
<1>7. mem[W.nodes[Place(h, p)]][p % NodeSize] = p
  BY DEF Sound, SoundIn, Bytes
<1>8. W.headDataOffset + p - h.read = (h.read % NodeSize) + i
  BY <1>1, <1>3
<1> QED
  BY <1>4, <1>5, <1>6, <1>7, <1>8 DEF ByteAt

\* The bytes altusWQPop copies are the next bytes of the stream.
LEMMA PopBytes ==
    ASSUME NEW W \in Window, NEW h \in History, Sound(W, h), NEW j \in Nat \ {0},
           h.read + j <= h.last
    PROVE  ByteAt(W, W.headDataOffset + j - 1) = h.read + j - 1
<1>1. h.read \in Nat /\ h.last \in Nat
  BY DEF History
<1>2. PICK p \in Nat : p = h.read + j - 1
  BY <1>1
<1>3. Holds(W, h, p)
  <2>1. h.read <= p /\ p < h.last
    BY <1>1, <1>2
  <2> QED
    BY <2>1 DEF Holds
<1>4. ByteAt(W, W.headDataOffset + p - h.read) = p
  BY <1>3, ByteOf
<1>5. p - h.read = j - 1
  BY <1>1, <1>2
<1> QED
  BY <1>2, <1>4, <1>5

\* altusWQPop computes with offsets what PopEffect says of positions.
LEMMA PopGives ==
    ASSUME Inv, NEW w \in DOMAIN win, NEW length \in 0 .. MaxLen, Pop(w, length)
    PROVE  \E n, q, V, g : n <= length /\ PopEffect(w, n, q, V, g)
<1>1. PICK W, h : W = win[w] /\ h = hist[w]
  OBVIOUS
<1>2. W \in Window /\ h \in History /\ Sound(W, h)
  BY <1>1, WindowType DEF Inv, WindowInv
<1>3. /\ h.read \in Nat /\ h.last \in Nat /\ h.read <= h.last
      /\ W.headDataOffset = h.read % NodeSize /\ W.safe = Place(h, h.last) /\ W.safe_len = W.safe
  BY <1>2 DEF History, Sound, SoundIn, Numbers
<1>4. Readable(W) = h.last - h.read
  BY <1>2, ReadableIs
<1>5. PICK n : n = Min({length, Readable(W)})
  OBVIOUS
<1>6. n \in Nat /\ n <= length /\ h.read + n <= h.last
  <2>1. length \in Int /\ Readable(W) \in Int
    BY <1>3, <1>4, Sizes
  <2>2. n = IF length <= Readable(W) THEN length ELSE Readable(W)
    BY <1>5, <2>1, MinOfTwo
  <2> QED
    BY <1>3, <1>4, <2>2, Sizes
<1>7. PICK q : q = (W.headDataOffset + n) \div NodeSize
  OBVIOUS
<1>8. /\ q = Uses(h, n) /\ q \in Nat
      /\ (W.headDataOffset + n) % NodeSize = (h.read + n) % NodeSize
  <2>1. n \in Nat /\ h \in History
    BY <1>2, <1>6
  <2>2. /\ ((h.read % NodeSize) + n) \div NodeSize = Uses(h, n)
        /\ ((h.read % NodeSize) + n) % NodeSize = (h.read + n) % NodeSize
        /\ Uses(h, n) \in Nat
    BY ONLY <2>1, PopNumbers
  <2> QED
    BY ONLY <1>3, <1>7, <2>2
<1>9. PICK drained : drained = (n > 0 /\ n = Readable(W) /\ (W.headDataOffset + n) % NodeSize # 0)
  OBVIOUS
<1>10. PICK x \in Nat, y \in Nat, z \in Nat :
          /\ x = h.last \div NodeSize /\ y = h.read \div NodeSize /\ z = (h.read + n) \div NodeSize
          /\ z <= x /\ y <= z
  <2>1. PICK e : e = h.read + n
    OBVIOUS
  <2>2. e \in Nat /\ h.read <= e /\ e <= h.last
    BY <1>3, <1>6, <2>1
  <2>3. /\ \A p \in Nat : p \div NodeSize \in Nat
        /\ \A p, r \in Nat : p <= r => p \div NodeSize <= r \div NodeSize
    BY <1>2, Places
  <2>4. /\ h.last \div NodeSize \in Nat /\ h.read \div NodeSize \in Nat /\ e \div NodeSize \in Nat
        /\ e \div NodeSize <= h.last \div NodeSize /\ h.read \div NodeSize <= e \div NodeSize
    BY ONLY <1>3, <2>2, <2>3
  <2> QED
    BY ONLY <2>1, <2>4
<1>11. W.safe = 1 + x - y /\ q = z - y
  BY <1>3, <1>8, <1>10 DEF Place, Uses
<1>12. q < W.safe /\ W.safe - q \in Nat
  BY <1>10, <1>11
<1>13. n = Readable(W) => W.safe - q = 1
  BY <1>3, <1>4, <1>6, <1>10, <1>11
<1>14. /\ win' = [win EXCEPT ![w].nodes = SubSeq(W.nodes, q + 1, Len(W.nodes)),
                             ![w].safe = W.safe - q,
                             ![w].safe_len = IF drained THEN 1 ELSE W.safe_len - q,
                             ![w].headDataOffset = PoppedOffset(W, n)]
       /\ pool' = pool \o (IF q = 0 THEN << >> ELSE RecycledNodes(SubSeq(W.nodes, 1, q)))
       /\ mem' = [u \in Nodes |-> IF u \in ToSet(SubSeq(W.nodes, 1, q)) THEN Garbage ELSE mem[u]]
       /\ ret' = [win |-> w, code |-> n,
                  bytes |-> [j \in 1 .. n |-> ByteAt(W, W.headDataOffset + j - 1)]]
       /\ hist' = [hist EXCEPT ![w].read = h.read + n]
       /\ valid' = valid /\ heap' = heap /\ corrupt' = corrupt
  BY <1>1, <1>5, <1>7, <1>9 DEF Pop
<1>15. PICK V, g : V = win'[w] /\ g = [h EXCEPT !.read = h.read + n]
  OBVIOUS
<1>16. PICK X, s, o : /\ X = SubSeq(W.nodes, q + 1, Len(W.nodes)) /\ s = W.safe - q
                      /\ o = (h.read + n) % NodeSize
  OBVIOUS
<1>17. (IF drained THEN 1 ELSE W.safe_len - q) = s
  BY <1>3, <1>9, <1>13, <1>16
<1>18. PoppedOffset(W, n) = o
  BY <1>8, <1>16 DEF PoppedOffset
<1>19. V = [W EXCEPT !.nodes = X, !.safe = s, !.safe_len = s, !.headDataOffset = o]
  BY <1>1, <1>14, <1>15, <1>16, <1>17, <1>18
<1>20. X \in Seq(Nodes) /\ s \in Nat /\ o \in 0 .. NodeSize
  <2>1. W.nodes \in Seq(Nodes) /\ Len(W.nodes) \in Nat /\ W.safe \in 1 .. Len(W.nodes)
    BY <1>1, WindowType DEF Inv
  <2>2. q \in 0 .. Len(W.nodes)
    BY <1>8, <1>12, <2>1
  <2>3. X \in Seq(Nodes)
    BY <1>16, <2>1, <2>2, RestOf
  <2>4. h.read + n \in Nat
    BY <1>3, <1>6
  <2>5. o \in 0 .. (NodeSize - 1)
    BY <1>16, <2>4, Sizes, DivMod
  <2> QED
    BY <1>12, <1>16, <2>3, <2>5, Sizes
<1>21. /\ V \in Window /\ V.nodes = X /\ V.safe = s /\ V.safe_len = s /\ V.headDataOffset = o
       /\ V.lastSeq = W.lastSeq /\ V.ub_list = W.ub_list
  BY <1>2, <1>19, <1>20 DEF Window
<1>22. Reads(W, h, n, q, V, g)
  BY <1>6, <1>8, <1>12, <1>15, <1>16, <1>21 DEF Reads
<1>23. pool' = pool \o SubSeq(W.nodes, 1, q)
  <2>1. q = 0 => SubSeq(W.nodes, 1, q) = << >>
    BY SubSeqEmpty
  <2> QED
    BY <1>14, <2>1 DEF RecycledNodes
<1>24. ret' = [win |-> w, code |-> n, bytes |-> [j \in 1 .. n |-> h.read + j - 1]]
  <2>1. ASSUME NEW j \in 1 .. n PROVE ByteAt(W, W.headDataOffset + j - 1) = h.read + j - 1
    <3>1. j \in Nat \ {0} /\ h.read + j <= h.last
      BY <1>3, <1>6
    <3> QED
      BY <1>2, <3>1, PopBytes
  <2>2. [j \in 1 .. n |-> ByteAt(W, W.headDataOffset + j - 1)] = [j \in 1 .. n |-> h.read + j - 1]
    BY <2>1
  <2> QED
    BY <1>14, <2>2
<1>25. /\ DOMAIN win' = DOMAIN win /\ DOMAIN hist' = DOMAIN win
       /\ win'[w] = V /\ hist'[w] = g
       /\ \A v \in DOMAIN win : v # w => win'[v] = win[v] /\ hist'[v] = hist[v]
  <2>1. DOMAIN hist = DOMAIN win
    BY DEF Inv, TypeOK
  <2>2. \A v \in DOMAIN win : v # w => win'[v] = win[v]
    BY <1>14
  <2>3. DOMAIN win' = DOMAIN win
    BY <1>14
  <2>4. hist'[w] = g /\ DOMAIN hist' = DOMAIN win
        /\ \A v \in DOMAIN win : v # w => hist'[v] = hist[v]
    BY <1>1, <1>14, <1>15, <2>1
  <2> QED
    BY <1>15, <2>2, <2>3, <2>4
<1>26. PopEffect(w, n, q, V, g)
  BY <1>1, <1>14, <1>22, <1>23, <1>24, <1>25 DEF PopEffect
<1> QED
  BY <1>6, <1>26

\* The beginning of a sequence.
LEMMA FirstOf ==
    ASSUME NEW S, NEW s \in Seq(S), NEW c \in 0 .. Len(s)
    PROVE  /\ SubSeq(s, 1, c) \in Seq(S)
           /\ Len(SubSeq(s, 1, c)) = c
           /\ \A i \in 1 .. c : SubSeq(s, 1, c)[i] = s[i]
<1>1. Len(s) \in Nat /\ c \in Int /\ 1 \in Int
  BY LenProperties
<1>2. \A i \in 1 .. c : s[i] \in S
  BY <1>1, ElementOfSeq
<1>3. /\ SubSeq(s, 1, c) \in Seq(S)
      /\ Len(SubSeq(s, 1, c)) = IF 1 <= c THEN c - 1 + 1 ELSE 0
      /\ \A i \in 1 .. (c - 1 + 1) : SubSeq(s, 1, c)[i] = s[1 + i - 1]
  BY <1>1, <1>2, SubSeqProperties
<1> QED
  BY <1>1, <1>3

\* Where the nodes of a window are after altusWQPop: the first q in the pool,
\* behind the nodes that were there, the others in the window.
HandsOver(s, q, X, o, p) ==
    /\ s \in Seq(Nodes) /\ o \in Seq(Nodes) /\ Len(s) \in Nat /\ Len(o) \in Nat
    /\ q \in Nat /\ q <= Len(s)
    /\ Len(X) = Len(s) - q /\ \A i \in 1 .. Len(X) : X[i] = s[i + q]
    /\ p \in Seq(Nodes) /\ Len(p) = Len(o) + q
    /\ \A i \in 1 .. Len(o) : p[i] = o[i]
    /\ \A i \in 1 .. q : p[Len(o) + i] = s[i]

\* altusWQPop gives the nodes it has emptied to the pool.
LEMMA PopHandsOver ==
    ASSUME Inv, NEW w, w \in DOMAIN win, NEW n, NEW q, NEW V, NEW g, PopEffect(w, n, q, V, g)
    PROVE  /\ HandsOver(win[w].nodes, q, V.nodes, pool, pool')
           /\ ToSet(SubSeq(win[w].nodes, 1, q)) = {win[w].nodes[i] : i \in 1 .. q}
<1>1. PICK s : s = win[w].nodes
  OBVIOUS
<1>2. s \in Seq(Nodes) /\ Len(s) \in Nat /\ win[w].safe \in 1 .. Len(s)
  BY <1>1, WindowType DEF Inv
<1>3. q \in Nat /\ q < win[w].safe /\ V.nodes = SubSeq(s, q + 1, Len(s))
      /\ pool' = pool \o SubSeq(s, 1, q)
  BY <1>1 DEF PopEffect, Reads
<1>4. q \in 0 .. Len(s)
  BY <1>2, <1>3
<1>5. pool \in Seq(Nodes) /\ Len(pool) \in Nat
  BY LenProperties DEF Inv, TypeOK
<1>6. PICK t : t = SubSeq(s, 1, q)
  OBVIOUS
<1>7. t \in Seq(Nodes) /\ Len(t) = q /\ \A i \in 1 .. q : t[i] = s[i]
  BY <1>2, <1>4, <1>6, FirstOf
<1>8. /\ V.nodes \in Seq(Nodes) /\ Len(V.nodes) = Len(s) - q
      /\ \A i \in 1 .. (Len(s) - q) : V.nodes[i] = s[i + q]
  BY <1>2, <1>3, <1>4, RestOf
<1>9. pool' \in Seq(Nodes) /\ Len(pool') = Len(pool) + q
      /\ \A i \in 1 .. (Len(pool) + q) : pool'[i] = IF i <= Len(pool) THEN pool[i] ELSE t[i - Len(pool)]
  BY <1>3, <1>5, <1>6, <1>7, ConcatProperties
<1>10. \A i \in 1 .. Len(pool) : pool'[i] = pool[i]
  BY <1>3, <1>5, <1>9
<1>11. ASSUME NEW i \in 1 .. q PROVE pool'[Len(pool) + i] = s[i]
  <2>1. Len(pool) + i \in 1 .. (Len(pool) + q) /\ ~(Len(pool) + i <= Len(pool))
        /\ (Len(pool) + i) - Len(pool) = i
    BY <1>3, <1>5
  <2> QED
    BY <1>7, <1>9, <2>1
<1>12. HandsOver(s, q, V.nodes, pool, pool')
  BY <1>2, <1>3, <1>4, <1>5, <1>8, <1>9, <1>10, <1>11 DEF HandsOver
<1>13. ToSet(t) = {s[i] : i \in 1 .. q}
  <2>1. DOMAIN t = 1 .. q
    BY <1>7, LenProperties
  <2> QED
    BY <1>7, <2>1 DEF ToSet
<1> QED
  BY <1>1, <1>6, <1>12, <1>13

\* altusWQPop leaves every node with one owner.
LEMMA PopOwns ==
    ASSUME Inv, NEW w, w \in DOMAIN win, NEW q, NEW X, HandsOver(win[w].nodes, q, X, pool, pool'),
           DOMAIN win' = DOMAIN win, win'[w].nodes = X, heap' = heap,
           \A v \in DOMAIN win : v # w => win'[v].nodes = win[v].nodes
    PROVE  Ownership'
<1>1. PICK s, P : s = win[w].nodes /\ P = Len(pool)
  OBVIOUS
<1>2. /\ P \in Nat /\ Len(s) \in Nat /\ q \in Nat /\ q <= Len(s)
      /\ Len(X) = Len(s) - q /\ \A i \in 1 .. Len(X) : X[i] = s[i + q]
      /\ Len(pool') = P + q
      /\ \A i \in 1 .. P : pool'[i] = pool[i]
      /\ \A i \in 1 .. q : pool'[P + i] = s[i]
  BY <1>1 DEF HandsOver
<1>3. /\ \A v \in DOMAIN win : \A i \in 1 .. Len(win[v].nodes) : win[v].nodes[i] \in heap
      /\ \A i \in 1 .. P : pool[i] \in heap
      /\ \A x \in heap :
            \/ \E v \in DOMAIN win : \E i \in 1 .. Len(win[v].nodes) : win[v].nodes[i] = x
            \/ \E i \in 1 .. P : pool[i] = x
      /\ \A v, u \in DOMAIN win :
            \A i \in 1 .. Len(win[v].nodes), j \in 1 .. Len(win[u].nodes) :
               win[v].nodes[i] = win[u].nodes[j] => v = u /\ i = j
      /\ \A i, j \in 1 .. P : pool[i] = pool[j] => i = j
      /\ \A v \in DOMAIN win : \A i \in 1 .. Len(win[v].nodes), j \in 1 .. P :
            win[v].nodes[i] # pool[j]
      /\ DOMAIN win # {} => P >= 1
  BY <1>1 DEF Inv, Ownership
<1>4. ASSUME NEW i \in 1 .. Len(X) PROVE i + q \in 1 .. Len(s) /\ X[i] = s[i + q] /\ q < i + q
  BY <1>2
<1>5. ASSUME NEW j \in 1 .. Len(pool')
      PROVE  \/ j \in 1 .. P /\ pool'[j] = pool[j]
             \/ j - P \in 1 .. q /\ j - P \in 1 .. Len(s) /\ pool'[j] = s[j - P]
  <2>1. CASE j <= P
    BY <1>2, <2>1
  <2>2. CASE j > P
    <3>1. j - P \in 1 .. q /\ j - P \in 1 .. Len(s) /\ P + (j - P) = j
      BY <1>2, <2>2
    <3> QED
      BY <1>2, <3>1
  <2> QED
    BY <1>2, <2>1, <2>2
<1>a. ASSUME NEW v \in DOMAIN win', NEW i \in 1 .. Len(win'[v].nodes)
      PROVE  win'[v].nodes[i] \in heap'
  <2>1. CASE v = w
    BY <1>1, <1>3, <1>4, <1>a, <2>1
  <2>2. CASE v # w
    BY <1>3, <1>a, <2>2
  <2> QED
    BY <2>1, <2>2
<1>b. ASSUME NEW i \in 1 .. Len(pool') PROVE pool'[i] \in heap'
  BY <1>1, <1>3, <1>5, <1>b
<1>c. ASSUME NEW x \in heap'
      PROVE  \/ \E v \in DOMAIN win' : \E i \in 1 .. Len(win'[v].nodes) : win'[v].nodes[i] = x
             \/ \E i \in 1 .. Len(pool') : pool'[i] = x
  <2>1. ASSUME NEW i \in 1 .. Len(s), s[i] = x
        PROVE  \/ \E v \in DOMAIN win' : \E j \in 1 .. Len(win'[v].nodes) : win'[v].nodes[j] = x
               \/ \E j \in 1 .. Len(pool') : pool'[j] = x
    <3>1. CASE i <= q
      <4>1. P + i \in 1 .. Len(pool') /\ i \in 1 .. q
        BY <1>2, <2>1, <3>1
      <4> QED
        BY <1>2, <2>1, <4>1
    <3>2. CASE i > q
      <4>1. i - q \in 1 .. Len(X) /\ (i - q) + q = i
        BY <1>2, <2>1, <3>2
      <4>2. X[i - q] = x
        BY <1>2, <2>1, <4>1
      <4> QED
        BY <4>1, <4>2
    <3> QED
      BY <1>2, <3>1, <3>2
  <2>2. ASSUME NEW i \in 1 .. P, pool[i] = x PROVE \E j \in 1 .. Len(pool') : pool'[j] = x
    <3>1. i \in 1 .. Len(pool')
      BY <1>2
    <3> QED
      BY <1>2, <2>2, <3>1
  <2>3. ASSUME NEW v \in DOMAIN win, NEW i \in 1 .. Len(win[v].nodes), win[v].nodes[i] = x
        PROVE  \/ \E u \in DOMAIN win' : \E j \in 1 .. Len(win'[u].nodes) : win'[u].nodes[j] = x
               \/ \E j \in 1 .. Len(pool') : pool'[j] = x
    <3>1. CASE v = w
      BY <1>1, <2>1, <2>3, <3>1
    <3>2. CASE v # w
      BY <2>3, <3>2
    <3> QED
      BY <3>1, <3>2
  <2> QED
    BY <1>3, <1>c, <2>2, <2>3
<1>d. ASSUME NEW v \in DOMAIN win', NEW u \in DOMAIN win', NEW i \in 1 .. Len(win'[v].nodes),
             NEW j \in 1 .. Len(win'[u].nodes), win'[v].nodes[i] = win'[u].nodes[j]
      PROVE  v = u /\ i = j
  <2>1. \A y \in DOMAIN win, a \in Nat : a \in 1 .. Len(win'[y].nodes) =>
           \E b \in 1 .. Len(win[y].nodes) : /\ win'[y].nodes[a] = win[y].nodes[b]
                                             /\ b = IF y = w THEN a + q ELSE a
    <3> SUFFICES ASSUME NEW y \in DOMAIN win, NEW a \in Nat, a \in 1 .. Len(win'[y].nodes)
                 PROVE  \E b \in 1 .. Len(win[y].nodes) :
                           /\ win'[y].nodes[a] = win[y].nodes[b]
                           /\ b = IF y = w THEN a + q ELSE a
      OBVIOUS
    <3>1. CASE y = w
      BY <1>1, <1>4, <3>1
    <3>2. CASE y # w
      BY <3>2
    <3> QED
      BY <3>1, <3>2
  <2>2. PICK a \in 1 .. Len(win[v].nodes) : /\ win'[v].nodes[i] = win[v].nodes[a]
                                            /\ a = IF v = w THEN i + q ELSE i
    BY <1>d, <2>1
  <2>3. PICK b \in 1 .. Len(win[u].nodes) : /\ win'[u].nodes[j] = win[u].nodes[b]
                                            /\ b = IF u = w THEN j + q ELSE j
    BY <1>d, <2>1
  <2>4. v = u /\ a = b
    <3>1. v \in DOMAIN win /\ u \in DOMAIN win /\ win[v].nodes[a] = win[u].nodes[b]
      BY <1>d, <2>2, <2>3
    <3>2. a \in 1 .. Len(win[v].nodes) /\ b \in 1 .. Len(win[u].nodes)
      BY <2>2, <2>3
    <3> QED
      BY ONLY <1>3, <3>1, <3>2
  <2>5. i \in Int /\ j \in Int
    BY <1>d
  <2> QED
    BY <1>2, <2>2, <2>3, <2>4, <2>5
<1>e. ASSUME NEW i \in 1 .. Len(pool'), NEW j \in 1 .. Len(pool'), pool'[i] = pool'[j]
      PROVE  i = j
  <2>0. w \in DOMAIN win /\ \A a, b \in 1 .. Len(s) : s[a] = s[b] => a = b
    BY <1>1, <1>3
  <2>d. \A a \in 1 .. Len(s), b \in 1 .. P : s[a] # pool[b]
    BY <1>1, <1>3
  <2>i. i \in Int /\ j \in Int
    BY <1>e
  <2>1. CASE i \in 1 .. P /\ pool'[i] = pool[i]
    <3>1. j \in 1 .. P /\ pool'[j] = pool[j]
      BY <1>5, <1>e, <2>1, <2>d
    <3> QED
      BY <1>3, <1>e, <2>1, <3>1
  <2>2. CASE i - P \in 1 .. q /\ i - P \in 1 .. Len(s) /\ pool'[i] = s[i - P]
    <3>1. j - P \in 1 .. Len(s) /\ pool'[j] = s[j - P]
      BY <1>5, <1>e, <2>2, <2>d
    <3>2. i - P = j - P
      BY <1>e, <2>0, <2>2, <3>1
    <3> QED
      BY <1>2, <2>i, <3>2
  <2> QED
    BY <1>5, <1>e, <2>1, <2>2
<1>f. ASSUME NEW v \in DOMAIN win', NEW i \in 1 .. Len(win'[v].nodes), NEW j \in 1 .. Len(pool')
      PROVE  win'[v].nodes[i] # pool'[j]
  <2>1. CASE v = w
    <3>1. i + q \in 1 .. Len(s) /\ win'[v].nodes[i] = s[i + q] /\ q < i + q
      BY <1>4, <1>f, <2>1
    <3>2. CASE j \in 1 .. P /\ pool'[j] = pool[j]
      BY <1>1, <1>3, <3>1, <3>2
    <3>3. CASE j - P \in 1 .. q /\ j - P \in 1 .. Len(s) /\ pool'[j] = s[j - P]
      <4>1. j - P # i + q
        BY <1>2, <3>1, <3>3
      <4> QED
        BY <1>1, <1>3, <3>1, <3>3, <4>1
    <3> QED
      BY <1>5, <1>f, <3>2, <3>3
  <2>2. CASE v # w
    <3>1. v \in DOMAIN win /\ i \in 1 .. Len(win[v].nodes) /\ win'[v].nodes[i] = win[v].nodes[i]
      BY <1>f, <2>2
    <3>2. CASE j \in 1 .. P /\ pool'[j] = pool[j]
      BY <1>3, <3>1, <3>2
    <3>3. CASE j - P \in 1 .. Len(s) /\ pool'[j] = s[j - P]
      BY <1>1, <1>3, <2>2, <3>1, <3>3
    <3> QED
      BY <1>5, <1>f, <3>2, <3>3
  <2> QED
    BY <2>1, <2>2
<1>g. Len(pool') >= 1
  BY <1>2, <1>3
<1> QED
  BY <1>a, <1>b, <1>c, <1>d, <1>e, <1>f, <1>g DEF Ownership

\* What a read of n bytes does to the bytes a window holds.
Delivers(w, n) ==
    /\ w \in DOMAIN win /\ n \in Nat /\ n <= MaxPos
    /\ DOMAIN win' = DOMAIN win /\ DOMAIN hist' = DOMAIN win
    /\ \A v \in DOMAIN win : v # w => win'[v] = win[v] /\ hist'[v] = hist[v]
    /\ hist'[w].read = hist[w].read + n
    /\ \A p \in Nat : hist[w].read <= p /\ p < hist[w].read + n => Holds(win[w], hist[w], p)
    /\ \A p \in Nat : Holds(win'[w], hist'[w], p) <=>
                         Holds(win[w], hist[w], p) /\ hist[w].read + n <= p
    /\ ret' = [win |-> w, code |-> n, bytes |-> [j \in 1 .. n |-> hist[w].read + j - 1]]

\* altusWQPop leaves its window sound and the others alone.
LEMMA PopChanges ==
    ASSUME Inv, NEW w, w \in DOMAIN win, NEW n, NEW q, NEW V, NEW g, PopEffect(w, n, q, V, g)
    PROVE  /\ Changes(w, V, g)
           /\ g.read = hist[w].read + n
           /\ \A p \in Nat : Holds(V, g, p) <=> Holds(win[w], hist[w], p) /\ hist[w].read + n <= p
<1>1. PICK W, h : W = win[w] /\ h = hist[w]
  OBVIOUS
<1>2. W \in Window /\ h \in History /\ Sound(W, h)
  BY <1>1, WindowType DEF Inv, WindowInv
<1>3. /\ Reads(W, h, n, q, V, g)
      /\ mem' = [x \in Nodes |-> IF x \in {W.nodes[i] : i \in 1 .. q} THEN Garbage ELSE mem[x]]
      /\ DOMAIN win' = DOMAIN win /\ DOMAIN hist' = DOMAIN win
      /\ win'[w] = V /\ hist'[w] = g
      /\ \A v \in DOMAIN win : v # w => win'[v] = win[v] /\ hist'[v] = hist[v]
      /\ valid' = valid
  <2>1. ToSet(SubSeq(win[w].nodes, 1, q)) = {win[w].nodes[i] : i \in 1 .. q}
    BY PopHandsOver
  <2> QED
    BY <1>1, <2>1 DEF PopEffect
<1>4. \A v \in DOMAIN win : win[v].nodes \in Seq(Nodes) /\ Len(win[v].nodes) \in Nat
  BY WindowType DEF Inv
<1>5. \A v \in DOMAIN win : \A i \in 1 .. Len(win[v].nodes) : win[v].nodes[i] \in Nodes
  BY <1>4, ElementOfSeq
<1>6. \A v, u \in DOMAIN win :
         \A i \in 1 .. Len(win[v].nodes), j \in 1 .. Len(win[u].nodes) :
            win[v].nodes[i] = win[u].nodes[j] => v = u /\ i = j
  BY DEF Inv, Ownership
<1>7. q \in Nat /\ 1 .. q \subseteq 1 .. Len(W.nodes)
  <2>1. q \in Nat /\ q <= Len(W.nodes) /\ Len(W.nodes) \in Nat
    BY <1>1, PopHandsOver DEF HandsOver
  <2> QED
    BY <2>1
<1>8. ASSUME NEW v \in DOMAIN win, v # w, NEW i \in 1 .. Len(win[v].nodes)
      PROVE  mem'[win[v].nodes[i]] = mem[win[v].nodes[i]]
  <2>1. \A j \in 1 .. q : win[v].nodes[i] # W.nodes[j]
    BY <1>1, <1>6, <1>7, <1>8
  <2> QED
    BY <1>3, <1>5, <1>8, <2>1
<1>9. \A i, j \in 1 .. Len(W.nodes) : W.nodes[i] = W.nodes[j] => i = j
  BY <1>1, <1>6
<1>10. ASSUME NEW i \in 1 .. Len(W.nodes), q < i PROVE mem'[W.nodes[i]] = mem[W.nodes[i]]
  <2>1. \A j \in 1 .. q : W.nodes[i] # W.nodes[j]
    <3>1. \A j \in 1 .. q : i # j /\ j \in 1 .. Len(W.nodes)
      BY <1>7, <1>10
    <3> QED
      BY <1>9, <1>10, <3>1
  <2>2. W.nodes[i] \in Nodes
    BY <1>1, <1>5, <1>10
  <2> QED
    BY <1>3, <2>1, <2>2
<1>11. /\ g \in History /\ g.read = h.read + n
       /\ SoundIn(V, g, valid', mem')
       /\ \A p \in Nat : Holds(V, g, p) <=> Holds(W, h, p) /\ h.read + n <= p
  <2>1. Reads(W, h, n, q, V, g) /\ valid' = valid
    BY <1>3
  <2>2. \A i \in 1 .. Len(W.nodes) : q < i => mem'[W.nodes[i]] = mem[W.nodes[i]]
    BY <1>10
  <2> QED
    BY ONLY <1>2, <1>9, <2>1, <2>2, PopSound
<1>12. V \in Window
  BY <1>3 DEF Reads
<1>13. Changes(w, V, g)
  BY <1>3, <1>8, <1>11, <1>12 DEF Changes
<1> QED
  BY <1>1, <1>11, <1>13

\* altusWQPop keeps the invariant and hands out the next bytes of the stream.
LEMMA PopInv ==
    ASSUME Inv, NEW w, w \in DOMAIN win, NEW length \in 0 .. MaxLen, Pop(w, length)
    PROVE  Inv' /\ \E n : Delivers(w, n)
<1>1. PICK n, q, V, g : n <= length /\ PopEffect(w, n, q, V, g)
  BY PopGives
<1>2. PICK h : h = hist[w]
  OBVIOUS
<1>3. h \in History /\ h.read \in Nat /\ h.last \in Nat /\ n \in Nat /\ h.read + n <= h.last
  BY <1>1, <1>2, WindowType DEF Inv, PopEffect, Reads, History
<1>4. /\ Changes(w, V, g) /\ g.read = h.read + n
      /\ \A p \in Nat : Holds(V, g, p) <=> Holds(win[w], h, p) /\ h.read + n <= p
  BY <1>1, <1>2, PopChanges
<1>5. HandsOver(win[w].nodes, q, V.nodes, pool, pool')
  BY <1>1, PopHandsOver
<1>6. /\ DOMAIN win' = DOMAIN win /\ DOMAIN hist' = DOMAIN win
      /\ win'[w] = V /\ hist'[w] = g
      /\ \A v \in DOMAIN win : v # w => win'[v] = win[v] /\ hist'[v] = hist[v]
      /\ mem' = [x \in Nodes |-> IF x \in ToSet(SubSeq(win[w].nodes, 1, q)) THEN Garbage ELSE mem[x]]
      /\ ret' = [win |-> w, code |-> n, bytes |-> [j \in 1 .. n |-> h.read + j - 1]]
      /\ valid' = valid /\ heap' = heap /\ corrupt' = corrupt
  BY <1>1, <1>2 DEF PopEffect
<1>7. Ownership'
  BY <1>5, <1>6, PopOwns
<1>8. WindowInv'
  BY <1>4, OneWindow
<1>9. TypeOK'
  <2>1. pool' \in Seq(Nodes)
    BY <1>5 DEF HandsOver
  <2>2. /\ heap \subseteq Nodes /\ valid \in [Nodes -> 0 .. NodeSize]
        /\ mem \in [Nodes -> [Offsets -> Nat \cup {Junk}]]
    BY DEF Inv, TypeOK
  <2>3. mem' \in [Nodes -> [Offsets -> Nat \cup {Junk}]]
    <3>1. Garbage \in [Offsets -> Nat \cup {Junk}]
      BY DEF Garbage
    <3> QED
      BY <1>6, <2>2, <3>1
  <2>4. ret'.win = w /\ ret'.code \in Int
    BY <1>3, <1>6
  <2> QED
    BY <1>4, <1>6, <2>1, <2>2, <2>3, <2>4, TypesKept
<1>10. \A p \in Nat : Holds(win[w], h, p) => p < MaxPos
  BY <1>2 DEF Inv, Bounded
<1>11. Bounded'
  BY <1>4, <1>10, BoundedKept
<1>12. \A p \in Nat : h.read <= p /\ p < h.read + n => Holds(win[w], h, p)
  BY <1>3 DEF Holds
<1>13. n <= MaxPos
  <2>1. CASE n = 0
    BY <2>1, Sizes
  <2>2. CASE n > 0
    <3>1. h.read + n - 1 \in Nat /\ h.read <= h.read + n - 1 /\ h.read + n - 1 < h.read + n
      BY <1>3, <2>2
    <3>2. h.read + n - 1 < MaxPos
      BY <1>10, <1>12, <3>1
    <3> QED
      BY <1>3, <3>2, Sizes
  <2> QED
    BY <1>3, <2>1, <2>2
<1>14. Delivers(w, n)
  BY <1>2, <1>3, <1>4, <1>6, <1>12, <1>13 DEF Delivers
<1> QED
  BY <1>7, <1>8, <1>9, <1>11, <1>14 DEF Inv

-----------------------------------------------------------------------------
(* The other operations keep the invariant.                                *)

\* A call that tells something and changes no byte of a stream.
Answers(w) ==
    /\ w \in DOMAIN win
    /\ DOMAIN win' = DOMAIN win /\ hist' = hist
    /\ \A v \in DOMAIN win : /\ win'[v].ub_list = win[v].ub_list /\ win'[v].lastSeq = win[v].lastSeq
    /\ ret' = [win |-> w, code |-> ret'.code, bytes |-> << >>] /\ ret'.code \in Int

\* The owners of the nodes when neither the nodes of a window nor the pool change.
LEMMA SameOwners ==
    ASSUME Inv, pool' = pool, heap' = heap, DOMAIN win' = DOMAIN win,
           \A v \in DOMAIN win : win'[v].nodes = win[v].nodes
    PROVE  Ownership'
<1>1. /\ \A w \in DOMAIN win : \A i \in 1 .. Len(win[w].nodes) : win[w].nodes[i] \in heap
      /\ \A i \in 1 .. Len(pool) : pool[i] \in heap
      /\ \A x \in heap :
            \/ \E w \in DOMAIN win : \E i \in 1 .. Len(win[w].nodes) : win[w].nodes[i] = x
            \/ \E i \in 1 .. Len(pool) : pool[i] = x
      /\ \A v, w \in DOMAIN win :
            \A i \in 1 .. Len(win[v].nodes), j \in 1 .. Len(win[w].nodes) :
               win[v].nodes[i] = win[w].nodes[j] => v = w /\ i = j
      /\ \A i, j \in 1 .. Len(pool) : pool[i] = pool[j] => i = j
      /\ \A w \in DOMAIN win : \A i \in 1 .. Len(win[w].nodes), j \in 1 .. Len(pool) :
            win[w].nodes[i] # pool[j]
      /\ DOMAIN win # {} => Len(pool) >= 1
  BY DEF Inv, Ownership
<1>a. ASSUME NEW w \in DOMAIN win', NEW i \in 1 .. Len(win'[w].nodes)
      PROVE  win'[w].nodes[i] \in heap'
  BY <1>1, <1>a
<1>c. ASSUME NEW x \in heap'
      PROVE  \/ \E w \in DOMAIN win' : \E i \in 1 .. Len(win'[w].nodes) : win'[w].nodes[i] = x
             \/ \E i \in 1 .. Len(pool') : pool'[i] = x
  BY <1>1, <1>c
<1>d. ASSUME NEW v \in DOMAIN win', NEW u \in DOMAIN win', NEW i \in 1 .. Len(win'[v].nodes),
             NEW j \in 1 .. Len(win'[u].nodes), win'[v].nodes[i] = win'[u].nodes[j]
      PROVE  v = u /\ i = j
  <2>1. v \in DOMAIN win /\ u \in DOMAIN win /\ win[v].nodes[i] = win[u].nodes[j]
        /\ i \in 1 .. Len(win[v].nodes) /\ j \in 1 .. Len(win[u].nodes)
    BY <1>d
  <2> QED
    BY ONLY <1>1, <2>1
<1>f. ASSUME NEW v \in DOMAIN win', NEW i \in 1 .. Len(win'[v].nodes), NEW j \in 1 .. Len(pool')
      PROVE  win'[v].nodes[i] # pool'[j]
  BY <1>1, <1>f
<1> QED
  BY <1>1, <1>a, <1>c, <1>d, <1>f DEF Ownership

\* altusWQSanitize finds the counters as they are.
LEMMA SanitizeInv ==
    ASSUME Inv, NEW w, Sanitize(w)
    PROVE  Inv' /\ Answers(w)
<1>1. PICK W, h : W = win[w] /\ h = hist[w]
  OBVIOUS
<1>2. /\ w \in DOMAIN win
      /\ pool' = pool /\ valid' = valid /\ mem' = mem /\ heap' = heap /\ hist' = hist
      /\ corrupt' = corrupt
  BY DEF Sanitize
<1>3. W \in Window /\ h \in History /\ Sound(W, h) /\ DOMAIN hist = DOMAIN win /\ Len(W.nodes) \in Nat
  BY <1>1, <1>2, WindowType DEF Inv, WindowInv, TypeOK
<1>4. W.safe_len = W.safe
  BY <1>3 DEF Sound, SoundIn, Numbers
<1>5. PICK V : V = [W EXCEPT !.safe_len = W.safe, !.unsafe_len = Len(W.nodes)]
  OBVIOUS
<1>6. /\ win' = [win EXCEPT ![w] = V]
      /\ ret'.win = w /\ ret'.code \in Int
      /\ ret' = [win |-> w, code |-> ret'.code, bytes |-> << >>]
  <2>1. PICK r, c :
           /\ r = (IF W.safe = 1 \/ W.safe < Len(W.nodes) THEN W.safe ELSE W.safe_len)
           /\ c = IF Len(W.nodes) > 2 * WindowSize THEN -2
                  ELSE IF Len(W.nodes) > WindowSize THEN -1
                  ELSE IF Len(W.nodes) < WindowSize \div 8 THEN 3
                  ELSE IF Len(W.nodes) < WindowSize \div 4 THEN 2
                  ELSE IF Len(W.nodes) < WindowSize \div 2 THEN 1
                  ELSE 0
    OBVIOUS
  <2>2. /\ win' = [win EXCEPT ![w].safe_len = r, ![w].unsafe_len = Len(W.nodes)]
        /\ ret' = [win |-> w, bytes |-> << >>, code |-> c]
    BY <1>1, <2>1 DEF Sanitize
  <2>3. r = W.safe /\ c \in Int
    BY <1>4, <2>1
  <2>4. win' = [win EXCEPT ![w] = V]
    BY <1>1, <1>5, <2>2, <2>3
  <2>5. ret'.win = w /\ ret'.code = c /\ ret' = [win |-> w, code |-> c, bytes |-> << >>]
    BY ONLY <2>2
  <2> QED
    BY <2>3, <2>4, <2>5
<1>7. /\ V \in Window /\ V.nodes = W.nodes /\ V.safe = W.safe /\ V.safe_len = W.safe_len
      /\ V.headDataOffset = W.headDataOffset /\ V.lastSeq = W.lastSeq /\ V.ub_list = W.ub_list
  <2>1. W.safe \in Nat /\ Len(W.nodes) \in Int
    BY <1>3, Fields
  <2>2. PICK s, c : s = W.safe /\ c = Len(W.nodes)
    OBVIOUS
  <2>3. W \in Window /\ s \in Nat /\ c \in Int /\ V = [W EXCEPT !.safe_len = s, !.unsafe_len = c]
    BY <1>3, <1>5, <2>1, <2>2
  <2>4. /\ V \in Window /\ V.nodes = W.nodes /\ V.safe = W.safe /\ V.safe_len = s
        /\ V.headDataOffset = W.headDataOffset /\ V.lastSeq = W.lastSeq /\ V.ub_list = W.ub_list
    BY ONLY <2>3 DEF Window
  <2> QED
    BY <1>4, <2>2, <2>4
<1>8. SoundIn(V, h, valid', mem')
  <2>1. /\ Numbers(W, h) /\ Listed(W, h) /\ Sized(W, h) /\ Filled(W, h, valid) /\ Bytes(W, h, mem)
    BY <1>3 DEF Sound, SoundIn
  <2>2. Numbers(V, h)
    BY <1>7, <2>1 DEF Numbers
  <2>3. Listed(V, h)
    BY <1>7, <2>1 DEF Listed
  <2>4. Sized(V, h)
    BY <1>7, <2>1 DEF Sized
  <2>5. Filled(V, h, valid')
    BY <1>2, <1>7, <2>1 DEF Filled
  <2>6. Bytes(V, h, mem')
    BY <1>2, <1>7, <2>1 DEF Bytes, Holds
  <2> QED
    BY <2>2, <2>3, <2>4, <2>5, <2>6 DEF SoundIn
<1>9. Changes(w, V, h)
  BY <1>1, <1>2, <1>3, <1>6, <1>7, <1>8 DEF Changes
<1>10. WindowInv'
  BY <1>9, OneWindow
<1>11. TypeOK'
  <2>1. /\ heap \subseteq Nodes /\ valid \in [Nodes -> 0 .. NodeSize] /\ pool \in Seq(Nodes)
        /\ mem \in [Nodes -> [Offsets -> Nat \cup {Junk}]]
    BY DEF Inv, TypeOK
  <2> QED
    BY <1>2, <1>6, <1>9, <2>1, TypesKept
<1>12. Bounded'
  <2>1. \A p \in Nat : Holds(V, h, p) <=> Holds(W, h, p)
    BY <1>7 DEF Holds
  <2>2. \A p \in Nat : Holds(W, h, p) => p < MaxPos
    BY <1>1, <1>2 DEF Inv, Bounded
  <2>3. \A p \in Nat : Holds(V, h, p) => p < MaxPos
    BY <2>1, <2>2
  <2> QED
    BY <1>9, <2>3, BoundedKept
<1>13. DOMAIN win' = DOMAIN win /\ \A v \in DOMAIN win : win'[v].nodes = win[v].nodes
  BY <1>1, <1>6, <1>7
<1>14. Ownership'
  BY <1>2, <1>13, SameOwners
<1>15. Answers(w)
  <2>1. \A v \in DOMAIN win : /\ win'[v].ub_list = win[v].ub_list /\ win'[v].lastSeq = win[v].lastSeq
    BY <1>1, <1>6, <1>7
  <2> QED
    BY <1>2, <1>6, <1>13, <2>1 DEF Answers
<1> QED
  BY <1>10, <1>11, <1>12, <1>14, <1>15 DEF Inv

\* The invariant does not depend on corrupt or on what was returned.
LEMMA SameInv ==
    ASSUME Inv, UNCHANGED << win, pool, valid, mem, heap, hist >>,
           corrupt' \in BOOLEAN, ret'.win \in Windows, ret'.code \in Int
    PROVE  Inv'
<1>1. TypeOK'
  BY DEF Inv, TypeOK
<1>2. Ownership'
  BY DEF Inv, Ownership
<1>3. WindowInv'
  BY DEF Inv, WindowInv, Sound
<1>4. Bounded'
  <2>1. DOMAIN win' = DOMAIN win /\ \A v \in DOMAIN win : \A p \in Nat :
           Holds(win'[v], hist'[v], p) => p < MaxPos
    BY DEF Inv, Bounded
  <2> QED
    BY <2>1 DEF Bounded, Holds, Covered
<1> QED
  BY <1>1, <1>2, <1>3, <1>4 DEF Inv

\* A refused block changes nothing.
LEMMA RefusedInv ==
    ASSUME Inv, NEW w, NEW pos, NEW length, PutRefused(w, pos, length)
    PROVE  Inv' /\ Answers(w)
<1>1. /\ w \in DOMAIN win /\ UNCHANGED << win, pool, valid, mem, heap, hist, corrupt >>
      /\ ret' = [win |-> w, code |-> PutCode(win[w], pos % SeqSpace, length), bytes |-> << >>]
  BY DEF PutRefused
<1>2. PutCode(win[w], pos % SeqSpace, length) \in Int
  BY DEF PutCode
<1>3. ret'.win = w /\ ret'.code \in Int /\ ret' = [win |-> w, code |-> ret'.code, bytes |-> << >>]
  BY <1>1, <1>2
<1>4. w \in Windows /\ corrupt' \in BOOLEAN
  BY <1>1 DEF Inv, TypeOK
<1>5. Inv'
  BY <1>1, <1>3, <1>4, SameInv
<1> QED
  BY <1>1, <1>3, <1>5 DEF Answers

\* A stray write is the last thing that happens.
LEMMA StrayInv ==
    ASSUME Inv, NEW w, NEW pos, NEW length, PutStray(w, pos, length)
    PROVE  Inv' /\ UNCHANGED << win, hist, ret >>
<1>1. UNCHANGED << win, pool, valid, mem, heap, hist, ret >> /\ corrupt' \in BOOLEAN
  BY DEF PutStray
<1>2. ret'.win \in Windows /\ ret'.code \in Int
  BY <1>1 DEF Inv, TypeOK
<1> QED
  BY <1>1, <1>2, SameInv

\* A new window holds nothing.
Opens(w) ==
    /\ w \in Windows /\ w \notin DOMAIN win
    /\ DOMAIN win' = DOMAIN win \cup {w}
    /\ \A v \in DOMAIN win : win'[v] = win[v] /\ hist'[v] = hist[v]
    /\ hist'[w].read = 0
    /\ \A p \in Nat : ~Holds(win'[w], hist'[w], p)
    /\ ret' = ret

\* The window altusNewWindow makes of one node whose count is zero is sound.
LEMMA FreshSound ==
    ASSUME NEW n \in Nodes, NEW count, count[n] = 0, NEW data, NEW V, NEW g,
           V = [nodes |-> << n >>, safe |-> 1, safe_len |-> 1, unsafe_len |-> 0,
                headDataOffset |-> 0, headSeq |-> 0, lastSeq |-> 0, ub_list |-> << >>],
           g = [last |-> 0, read |-> 0]
    PROVE  /\ V \in Window /\ g \in History /\ V.nodes = << n >> /\ g.read = 0
           /\ SoundIn(V, g, count, data)
           /\ \A p \in Nat : ~Holds(V, g, p)
<1>1. /\ V.nodes = << n >> /\ V.safe = 1 /\ V.safe_len = 1 /\ V.unsafe_len = 0
      /\ V.headDataOffset = 0 /\ V.lastSeq = 0 /\ V.ub_list = << >>
      /\ g.last = 0 /\ g.read = 0 /\ g \in History
  BY DEF History
<1>2. 0 % NodeSize = 0 /\ 0 \div NodeSize = 0 /\ 0 % SeqSpace = 0
  <2>1. \A d \in Nat \ {0} : 0 % d = 0 /\ 0 \div d = 0
    OBVIOUS
  <2>2. SeqSpace \in Nat \ {0} /\ NodeSize \in Nat \ {0}
    BY Sizes
  <2> QED
    BY <2>1, <2>2
<1>3. Place(g, 0) = 1
  BY <1>1, <1>2 DEF Place
<1>4. V \in Window
  <2>1. 0 \in Seqs /\ << n >> \in Seq(Nodes) /\ 0 \in 0 .. NodeSize /\ << >> \in Seq(Block)
    BY Sizes DEF Seqs
  <2> QED
    BY <2>1 DEF Window
<1>5. \A p : ~Covered(V.ub_list, g.last, p)
  BY <1>1 DEF Covered
<1>6. Numbers(V, g)
  BY <1>1, <1>2, <1>3, Sizes DEF Numbers
<1>7. Listed(V, g)
  BY <1>1, Sizes DEF Listed, Apart
<1>8. Len(V.nodes) = 1
  BY <1>1
<1>9. Fits(V.ub_list, Len(V.nodes), g, 0, 0)
  BY <1>1, <1>3, <1>5, <1>8, Sizes DEF Fits
<1>10. Sized(V, g)
  BY <1>9 DEF Sized
<1>11. Filled(V, g, count)
  <2>1. V.nodes[V.safe] = n
    BY <1>1
  <2> QED
    BY <1>1, <1>2, <2>1 DEF Filled
<1>12. \A p \in Nat : ~Holds(V, g, p)
  BY <1>1, <1>5 DEF Holds
<1>13. Bytes(V, g, data)
  BY <1>12 DEF Bytes
<1> QED
  BY <1>1, <1>4, <1>6, <1>7, <1>10, <1>11, <1>12, <1>13 DEF SoundIn

\* altusNewWindow keeps the invariant.
LEMMA NewWindowInv ==
    ASSUME Inv, NEW w \in Windows, NewWindow(w)
    PROVE  Inv' /\ Opens(w)
<1>1. PICK n : n = Malloc(1)[1]
  OBVIOUS
<1>2. n \in Nodes \ heap
  <2>1. Nodes \ heap # {}
    BY DEF NewWindow
  <2>2. IsFiniteSet(Nodes \ heap)
    BY Sizes, FS_Difference
  <2>3. Cardinality(Nodes \ heap) >= 1
    BY <2>1, <2>2, FS_EmptySet, FS_CardinalityType
  <2>4. \A i \in 1 .. 1 : Malloc(1)[i] \in Nodes \ heap
    BY <2>3, MallocGives
  <2> QED
    BY <1>1, <2>4
<1>3. PICK V, g :
         /\ V = [nodes |-> << n >>, safe |-> 1, safe_len |-> 1, unsafe_len |-> 0,
                 headDataOffset |-> 0, headSeq |-> 0, lastSeq |-> 0, ub_list |-> << >>]
         /\ g = [last |-> 0, read |-> 0]
  OBVIOUS
<1>4. /\ w \notin DOMAIN win /\ pool # << >>
      /\ win' = [x \in DOMAIN win \cup {w} |-> IF x = w THEN V ELSE win[x]]
      /\ hist' = [x \in DOMAIN hist \cup {w} |-> IF x = w THEN g ELSE hist[x]]
      /\ heap' = heap \cup {n}
      /\ valid' = [valid EXCEPT ![n] = 0]
      /\ pool' = pool /\ mem' = mem /\ ret' = ret /\ corrupt' = corrupt
  BY <1>1, <1>3 DEF NewWindow
<1>5. /\ DOMAIN hist = DOMAIN win /\ DOMAIN win \subseteq Windows
      /\ pool \in Seq(Nodes) /\ Len(pool) \in Nat /\ valid \in [Nodes -> 0 .. NodeSize]
      /\ mem \in [Nodes -> [Offsets -> Nat \cup {Junk}]] /\ heap \subseteq Nodes
      /\ ret.win \in Windows /\ ret.code \in Int /\ corrupt \in BOOLEAN
  BY LenProperties DEF Inv, TypeOK
<1>6. /\ DOMAIN win' = DOMAIN win \cup {w} /\ DOMAIN hist' = DOMAIN win \cup {w}
      /\ win'[w] = V /\ hist'[w] = g
      /\ \A v \in DOMAIN win : v # w /\ win'[v] = win[v] /\ hist'[v] = hist[v]
  BY <1>4, <1>5
<1>7. valid' \in [Nodes -> 0 .. NodeSize] /\ valid'[n] = 0 /\ \A x \in Nodes : x # n => valid'[x] = valid[x]
  BY <1>2, <1>4, <1>5, Sizes
<1>8. /\ V \in Window /\ g \in History /\ V.nodes = << n >> /\ g.read = 0
      /\ SoundIn(V, g, valid', mem')
      /\ \A p \in Nat : ~Holds(V, g, p)
  BY <1>2, <1>3, <1>7, FreshSound
<1>9. Len(V.nodes) = 1 /\ V.nodes[1] = n
  BY <1>8
<1>10. /\ \A v \in DOMAIN win : \A i \in 1 .. Len(win[v].nodes) : win[v].nodes[i] \in heap
       /\ \A i \in 1 .. Len(pool) : pool[i] \in heap
       /\ \A x \in heap :
             \/ \E v \in DOMAIN win : \E i \in 1 .. Len(win[v].nodes) : win[v].nodes[i] = x
             \/ \E i \in 1 .. Len(pool) : pool[i] = x
       /\ \A v, u \in DOMAIN win :
             \A i \in 1 .. Len(win[v].nodes), j \in 1 .. Len(win[u].nodes) :
                win[v].nodes[i] = win[u].nodes[j] => v = u /\ i = j
       /\ \A i, j \in 1 .. Len(pool) : pool[i] = pool[j] => i = j
       /\ \A v \in DOMAIN win : \A i \in 1 .. Len(win[v].nodes), j \in 1 .. Len(pool) :
             win[v].nodes[i] # pool[j]
  BY DEF Inv, Ownership
<1>11. \A v \in DOMAIN win : \A i \in 1 .. Len(win[v].nodes) :
          win[v].nodes[i] \in Nodes /\ win[v].nodes[i] # n
  BY <1>2, <1>5, <1>10
<1>12. ASSUME NEW v \in DOMAIN win'
       PROVE  /\ SoundIn(win'[v], hist'[v], valid', mem')
              /\ win'[v] \in Window /\ hist'[v] \in History
              /\ \A p \in Nat : Holds(win'[v], hist'[v], p) => p < MaxPos
  <2>1. CASE v = w
    BY <1>6, <1>8, <2>1
  <2>2. CASE v # w
    <3>1. PICK U, f : U = win[v] /\ f = hist[v]
      OBVIOUS
    <3>2. v \in DOMAIN win /\ win'[v] = U /\ hist'[v] = f
      BY <1>6, <1>12, <2>2, <3>1
    <3>3. U \in Window /\ f \in History /\ Sound(U, f)
          /\ \A p \in Nat : Holds(U, f, p) => p < MaxPos
      BY <3>1, <3>2, WindowType DEF Inv, WindowInv, Bounded
    <3>4. \A i \in 1 .. Len(U.nodes) : valid'[U.nodes[i]] = valid[U.nodes[i]]
                                       /\ mem'[U.nodes[i]] = mem[U.nodes[i]]
      BY <1>4, <1>7, <1>11, <3>1, <3>2
    <3>5. SoundIn(U, f, valid', mem')
      BY <3>3, <3>4, SoundKept
    <3> QED
      BY <3>2, <3>3, <3>5
  <2> QED
    BY <2>1, <2>2
<1>13. WindowInv' /\ Bounded'
  <2>1. WindowInv'
    BY <1>12 DEF WindowInv, Sound
  <2>2. Bounded'
    BY <1>12 DEF Bounded, Holds, Covered
  <2> QED
    BY <2>1, <2>2
<1>14. ASSUME NEW v \in DOMAIN win'
       PROVE  win'[v].safe \in DOMAIN win'[v].nodes /\ Len(win'[v].ub_list) <= MaxUB
  <2>1. PICK U, f : U = win'[v] /\ f = hist'[v]
    OBVIOUS
  <2>2. U \in Window /\ f \in History /\ Numbers(U, f) /\ Sized(U, f) /\ Listed(U, f)
    BY <1>12, <1>14, <2>1 DEF SoundIn
  <2>3. U.safe \in 1 .. Len(U.nodes) /\ U.nodes \in Seq(Nodes)
    BY <2>2, InNodes, Fields
  <2>4. Len(U.ub_list) <= MaxUB
    BY <2>2 DEF Listed
  <2> QED
    BY <2>1, <2>3, <2>4
<1>15. TypeOK'
  <2>1. DOMAIN win' \subseteq Windows /\ heap' \subseteq Nodes
    BY <1>2, <1>4, <1>5, <1>6
  <2> QED
    BY <1>4, <1>5, <1>6, <1>7, <1>12, <1>14, <2>1 DEF TypeOK, History
<1>16. Ownership'
  <2>a. ASSUME NEW v \in DOMAIN win', NEW i \in 1 .. Len(win'[v].nodes)
        PROVE  win'[v].nodes[i] \in heap'
    <3>1. CASE v = w
      BY <1>4, <1>6, <1>9, <2>a, <3>1
    <3>2. CASE v # w
      BY <1>4, <1>6, <1>10, <2>a, <3>2
    <3> QED
      BY <3>1, <3>2
  <2>b. ASSUME NEW i \in 1 .. Len(pool') PROVE pool'[i] \in heap'
    BY <1>4, <1>10, <2>b
  <2>c. ASSUME NEW x \in heap'
        PROVE  \/ \E v \in DOMAIN win' : \E i \in 1 .. Len(win'[v].nodes) : win'[v].nodes[i] = x
               \/ \E i \in 1 .. Len(pool') : pool'[i] = x
    <3>1. CASE x = n
      <4>1. w \in DOMAIN win' /\ 1 \in 1 .. Len(win'[w].nodes) /\ win'[w].nodes[1] = x
        BY <1>6, <1>9, <3>1
      <4> QED
        BY <4>1
    <3>2. CASE x \in heap
      BY <1>4, <1>6, <1>10, <3>2
    <3> QED
      BY <1>4, <2>c, <3>1, <3>2
  <2>d. ASSUME NEW v \in DOMAIN win', NEW u \in DOMAIN win', NEW i \in 1 .. Len(win'[v].nodes),
               NEW j \in 1 .. Len(win'[u].nodes), win'[v].nodes[i] = win'[u].nodes[j]
        PROVE  v = u /\ i = j
    <3>1. \A y \in DOMAIN win', a \in Nat : a \in 1 .. Len(win'[y].nodes) =>
             \/ y = w /\ a = 1 /\ win'[y].nodes[a] = n
             \/ y # w /\ y \in DOMAIN win /\ win'[y].nodes = win[y].nodes /\ win'[y].nodes[a] # n
      <4> SUFFICES ASSUME NEW y \in DOMAIN win', NEW a \in Nat, a \in 1 .. Len(win'[y].nodes)
                   PROVE  \/ y = w /\ a = 1 /\ win'[y].nodes[a] = n
                          \/ y # w /\ y \in DOMAIN win /\ win'[y].nodes = win[y].nodes /\ win'[y].nodes[a] # n
        OBVIOUS
      <4>1. CASE y = w
        <5>1. win'[y].nodes = V.nodes
          BY <1>6, <4>1
        <5>2. a = 1
          <6>1. Len(win'[y].nodes) = 1
            BY <1>9, <5>1
          <6>2. a \in 1 .. 1
            BY <6>1
          <6> QED
            BY ONLY <6>2
        <5> QED
          BY <1>9, <4>1, <5>1, <5>2
      <4>2. CASE y # w
        BY <1>6, <1>11, <4>2
      <4> QED
        BY <4>1, <4>2
    <3>2. CASE v = w
      BY <2>d, <3>1, <3>2
    <3>3. CASE v # w
      <4>1. v \in DOMAIN win /\ u \in DOMAIN win
            /\ win'[v].nodes = win[v].nodes /\ win'[u].nodes = win[u].nodes
        BY <2>d, <3>1, <3>3
      <4>2. i \in 1 .. Len(win[v].nodes) /\ j \in 1 .. Len(win[u].nodes) /\ win[v].nodes[i] = win[u].nodes[j]
        BY <2>d, <4>1
      <4> QED
        BY ONLY <1>10, <4>1, <4>2
    <3> QED
      BY <3>2, <3>3
  <2>f. ASSUME NEW v \in DOMAIN win', NEW i \in 1 .. Len(win'[v].nodes), NEW j \in 1 .. Len(pool')
        PROVE  win'[v].nodes[i] # pool'[j]
    <3>1. CASE v = w
      BY <1>2, <1>4, <1>6, <1>9, <1>10, <2>f, <3>1
    <3>2. CASE v # w
      BY <1>4, <1>6, <1>10, <2>f, <3>2
    <3> QED
      BY <3>1, <3>2
  <2>g. Len(pool') >= 1
    <3>1. Len(pool) # 0
      BY <1>4, <1>5, EmptySeq
    <3> QED
      BY <1>4, <1>5, <3>1
  <2> QED
    <3>1. \A i, j \in 1 .. Len(pool') : pool'[i] = pool'[j] => i = j
      BY <1>4, <1>10
    <3> QED
      BY <2>a, <2>b, <2>c, <2>d, <2>f, <2>g, <3>1 DEF Ownership
<1>17. Opens(w)
  BY <1>4, <1>6, <1>8 DEF Opens
<1> QED
  BY <1>13, <1>15, <1>16, <1>17 DEF Inv

\* A freed window is gone.
Closes(w) ==
    /\ w \in DOMAIN win
    /\ DOMAIN win' = DOMAIN win \ {w}
    /\ \A v \in DOMAIN win' : win'[v] = win[v] /\ hist'[v] = hist[v]
    /\ ret' = ret

\* altusFreeWQ keeps the invariant.
LEMMA FreeWQInv ==
    ASSUME Inv, NEW w, FreeWQ(w)
    PROVE  Inv' /\ Closes(w)
<1>1. PICK s, F : s = win[w].nodes /\ F = ToSet(s)
  OBVIOUS
<1>2. /\ w \in DOMAIN win
      /\ heap' = heap \ F
      /\ valid' = [n \in Nodes |-> IF n \in F THEN NodeSize ELSE valid[n]]
      /\ mem' = [n \in Nodes |-> IF n \in F THEN Garbage ELSE mem[n]]
      /\ win' = [x \in DOMAIN win \ {w} |-> win[x]]
      /\ hist' = [x \in DOMAIN hist \ {w} |-> hist[x]]
      /\ pool' = pool /\ ret' = ret /\ corrupt' = corrupt
  BY <1>1 DEF FreeWQ, FreedNodes
<1>3. /\ DOMAIN hist = DOMAIN win /\ DOMAIN win \subseteq Windows
      /\ pool \in Seq(Nodes) /\ valid \in [Nodes -> 0 .. NodeSize]
      /\ mem \in [Nodes -> [Offsets -> Nat \cup {Junk}]] /\ heap \subseteq Nodes
      /\ ret.win \in Windows /\ ret.code \in Int /\ corrupt \in BOOLEAN
  BY DEF Inv, TypeOK
<1>4. /\ DOMAIN win' = DOMAIN win \ {w} /\ DOMAIN hist' = DOMAIN win \ {w}
      /\ \A v \in DOMAIN win' : v # w /\ v \in DOMAIN win /\ win'[v] = win[v] /\ hist'[v] = hist[v]
  BY <1>2, <1>3
<1>5. \A x : x \in F <=> \E i \in 1 .. Len(s) : x = s[i]
  <2>1. s \in Seq(Nodes)
    BY <1>1, <1>2, WindowType DEF Inv
  <2>2. DOMAIN s = 1 .. Len(s)
    BY <2>1, LenProperties
  <2> QED
    BY <1>1, <2>2 DEF ToSet
<1>6. /\ \A v \in DOMAIN win : \A i \in 1 .. Len(win[v].nodes) : win[v].nodes[i] \in heap
      /\ \A i \in 1 .. Len(pool) : pool[i] \in heap
      /\ \A x \in heap :
            \/ \E v \in DOMAIN win : \E i \in 1 .. Len(win[v].nodes) : win[v].nodes[i] = x
            \/ \E i \in 1 .. Len(pool) : pool[i] = x
      /\ \A v, u \in DOMAIN win :
            \A i \in 1 .. Len(win[v].nodes), j \in 1 .. Len(win[u].nodes) :
               win[v].nodes[i] = win[u].nodes[j] => v = u /\ i = j
      /\ \A i, j \in 1 .. Len(pool) : pool[i] = pool[j] => i = j
      /\ \A v \in DOMAIN win : \A i \in 1 .. Len(win[v].nodes), j \in 1 .. Len(pool) :
            win[v].nodes[i] # pool[j]
      /\ Len(pool) >= 1
  BY <1>2 DEF Inv, Ownership
<1>7. ASSUME NEW v \in DOMAIN win', NEW i \in 1 .. Len(win[v].nodes)
      PROVE  win[v].nodes[i] \notin F
  <2>1. v \in DOMAIN win /\ v # w
    BY <1>4, <1>7
  <2> QED
    BY <1>1, <1>2, <1>5, <1>6, <1>7, <2>1
<1>8. \A j \in 1 .. Len(pool) : pool[j] \notin F
  BY <1>1, <1>2, <1>5, <1>6
<1>9. valid' \in [Nodes -> 0 .. NodeSize] /\ mem' \in [Nodes -> [Offsets -> Nat \cup {Junk}]]
  <2>1. Garbage \in [Offsets -> Nat \cup {Junk}] /\ NodeSize \in 0 .. NodeSize
    BY Sizes DEF Garbage
  <2>2. valid' \in [Nodes -> 0 .. NodeSize]
    BY <1>2, <1>3, <2>1
  <2>3. mem' \in [Nodes -> [Offsets -> Nat \cup {Junk}]]
    BY <1>2, <1>3, <2>1
  <2> QED
    BY <2>2, <2>3
<1>10. ASSUME NEW v \in DOMAIN win'
       PROVE  /\ SoundIn(win'[v], hist'[v], valid', mem')
              /\ \A p \in Nat : Holds(win'[v], hist'[v], p) => p < MaxPos
  <2>1. PICK U, f : U = win[v] /\ f = hist[v]
    OBVIOUS
  <2>2. v \in DOMAIN win /\ win'[v] = U /\ hist'[v] = f
    BY <1>4, <1>10, <2>1
  <2>3. U \in Window /\ f \in History /\ Sound(U, f)
        /\ \A p \in Nat : Holds(U, f, p) => p < MaxPos
    BY <2>1, <2>2, WindowType DEF Inv, WindowInv, Bounded
  <2>4. \A i \in 1 .. Len(U.nodes) : valid'[U.nodes[i]] = valid[U.nodes[i]]
                                     /\ mem'[U.nodes[i]] = mem[U.nodes[i]]
    <3>1. \A i \in 1 .. Len(U.nodes) : U.nodes[i] \in Nodes /\ U.nodes[i] \notin F
      BY <1>3, <1>6, <1>7, <1>10, <2>1, <2>2
    <3> QED
      BY <1>2, <3>1
  <2>5. SoundIn(U, f, valid', mem')
    BY <2>3, <2>4, SoundKept
  <2> QED
    BY <2>2, <2>3, <2>5
<1>11. WindowInv' /\ Bounded'
  <2>1. WindowInv'
    BY <1>10 DEF WindowInv, Sound
  <2>2. Bounded'
    BY <1>10 DEF Bounded, Holds, Covered
  <2> QED
    BY <2>1, <2>2
<1>12. TypeOK'
  <2>1. DOMAIN win' \subseteq Windows /\ heap' \subseteq Nodes
    BY <1>2, <1>3, <1>4
  <2>2. \A v \in DOMAIN win : /\ win[v] \in Window /\ win[v].safe \in DOMAIN win[v].nodes
                              /\ Len(win[v].ub_list) <= MaxUB /\ hist[v] \in [last : Nat, read : Nat]
    BY DEF Inv, TypeOK
  <2> QED
    BY <1>2, <1>3, <1>4, <1>9, <2>1, <2>2 DEF TypeOK
<1>13. Ownership'
  <2>a. ASSUME NEW v \in DOMAIN win', NEW i \in 1 .. Len(win'[v].nodes)
        PROVE  win'[v].nodes[i] \in heap'
    BY <1>2, <1>4, <1>6, <1>7, <2>a
  <2>b. ASSUME NEW i \in 1 .. Len(pool') PROVE pool'[i] \in heap'
    BY <1>2, <1>6, <1>8, <2>b
  <2>c. ASSUME NEW x \in heap'
        PROVE  \/ \E v \in DOMAIN win' : \E i \in 1 .. Len(win'[v].nodes) : win'[v].nodes[i] = x
               \/ \E i \in 1 .. Len(pool') : pool'[i] = x
    <3>1. x \in heap /\ x \notin F
      BY <1>2, <2>c
    <3>2. ASSUME NEW v \in DOMAIN win, NEW i \in 1 .. Len(win[v].nodes), win[v].nodes[i] = x
          PROVE  \E u \in DOMAIN win' : \E j \in 1 .. Len(win'[u].nodes) : win'[u].nodes[j] = x
      <4>1. v # w
        BY <1>1, <1>5, <3>1, <3>2
      <4>2. v \in DOMAIN win' /\ win'[v] = win[v]
        BY <1>4, <3>2, <4>1
      <4> QED
        BY <3>2, <4>2
    <3> QED
      BY <1>2, <1>6, <3>1, <3>2
  <2>d. ASSUME NEW v \in DOMAIN win', NEW u \in DOMAIN win', NEW i \in 1 .. Len(win'[v].nodes),
               NEW j \in 1 .. Len(win'[u].nodes), win'[v].nodes[i] = win'[u].nodes[j]
        PROVE  v = u /\ i = j
    <3>1. v \in DOMAIN win /\ u \in DOMAIN win /\ win[v].nodes[i] = win[u].nodes[j]
          /\ i \in 1 .. Len(win[v].nodes) /\ j \in 1 .. Len(win[u].nodes)
      BY <1>4, <2>d
    <3> QED
      BY ONLY <1>6, <3>1
  <2>f. ASSUME NEW v \in DOMAIN win', NEW i \in 1 .. Len(win'[v].nodes), NEW j \in 1 .. Len(pool')
        PROVE  win'[v].nodes[i] # pool'[j]
    BY <1>2, <1>4, <1>6, <2>f
  <2>g. Len(pool') >= 1 /\ \A i, j \in 1 .. Len(pool') : pool'[i] = pool'[j] => i = j
    BY <1>2, <1>6
  <2> QED
    BY <2>a, <2>b, <2>c, <2>d, <2>f, <2>g DEF Ownership
<1>14. Closes(w)
  BY <1>2, <1>4 DEF Closes
<1> QED
  BY <1>11, <1>12, <1>13, <1>14 DEF Inv

\* altusFreeP keeps the invariant: all nodes are free then.
LEMMA FreePInv ==
    ASSUME Inv, FreeP
    PROVE  Inv' /\ UNCHANGED << win, hist, ret >>
<1>1. /\ DOMAIN win = {} /\ pool' = << >> /\ heap' = heap \ ToSet(pool)
      /\ UNCHANGED << win, valid, mem, hist, ret, corrupt >>
  BY DEF FreeP
<1>2. \A x \in heap : \E i \in 1 .. Len(pool) : pool[i] = x
  BY <1>1 DEF Inv, Ownership
<1>3. DOMAIN pool = 1 .. Len(pool) /\ heap \subseteq Nodes
  BY LenProperties DEF Inv, TypeOK
<1>4. heap' = {}
  BY <1>1, <1>2, <1>3 DEF ToSet
<1>5. DOMAIN win' = {} /\ Len(pool') = 0
  BY <1>1
<1>6. Ownership'
  BY <1>4, <1>5 DEF Ownership
<1>7. WindowInv' /\ Bounded'
  BY <1>5 DEF WindowInv, Bounded
<1>8. TypeOK'
  <2>1. pool' \in Seq(Nodes) /\ heap' \subseteq Nodes
    BY <1>1, <1>4
  <2> QED
    BY <1>1, <2>1 DEF Inv, TypeOK
<1> QED
  BY <1>1, <1>6, <1>7, <1>8 DEF Inv

\* The invariant holds at the beginning.
LEMMA InitInv ==
    ASSUME Init
    PROVE  Inv
<1>1. PICK first : first = Min(Nodes)
  OBVIOUS
<1>2. first \in Nodes
  BY <1>1, Sizes, MinOfNats
<1>3. /\ win = << >> /\ hist = << >> /\ pool = << first >> /\ heap = {first}
      /\ valid = [n \in Nodes |-> IF n = first THEN 0 ELSE NodeSize]
      /\ mem = [n \in Nodes |-> Garbage]
      /\ ret = [win |-> CHOOSE w \in Windows : TRUE, code |-> 0, bytes |-> << >>]
      /\ corrupt = FALSE
  BY <1>1 DEF Init
<1>4. DOMAIN win = {} /\ DOMAIN hist = {}
  BY <1>3
<1>5. pool \in Seq(Nodes) /\ Len(pool) = 1 /\ pool[1] = first
  BY <1>2, <1>3
<1>6. Ownership
  BY <1>3, <1>4, <1>5 DEF Ownership
<1>7. WindowInv /\ Bounded
  BY <1>4 DEF WindowInv, Bounded
<1>8. TypeOK
  <2>1. valid \in [Nodes -> 0 .. NodeSize]
    BY <1>3, Sizes
  <2>2. mem \in [Nodes -> [Offsets -> Nat \cup {Junk}]]
    <3>1. Garbage \in [Offsets -> Nat \cup {Junk}]
      BY DEF Garbage
    <3> QED
      BY <1>3, <3>1
  <2>3. (CHOOSE w \in Windows : TRUE) \in Windows
    BY Sizes
  <2>4. ret.win \in Windows /\ ret.code \in Int
    BY <1>3, <2>3
  <2> QED
    BY <1>2, <1>3, <1>4, <1>5, <2>1, <2>2, <2>4 DEF TypeOK
<1> QED
  BY <1>6, <1>7, <1>8 DEF Inv

-----------------------------------------------------------------------------
(* What the invariant says.                                                *)

\* The positions of the bytes a window holds, as Held counts them.
LEMMA HeldIs ==
    ASSUME NEW W \in Window, NEW h \in History, W.lastSeq = h.last % SeqSpace
    PROVE  (h.read .. (h.last - 1)) \cup
           UNION {(h.last + Minus(b.head, W.lastSeq)) .. ((h.last + Minus(b.tail, W.lastSeq)) - 1) :
                     b \in ToSet(W.ub_list)}
           = {p \in Nat : Holds(W, h, p)}
<1>1. h.read \in Nat /\ h.last \in Nat /\ W.ub_list \in Seq(Block)
  BY Fields DEF History
<1>2. PICK l : l = W.ub_list
  OBVIOUS
<1>3. ToSet(l) = {l[i] : i \in 1 .. Len(l)}
  <2>1. DOMAIN l = 1 .. Len(l)
    BY <1>1, <1>2, LenProperties
  <2> QED
    BY <2>1 DEF ToSet
<1>4. \A i \in 1 .. Len(l) : Up(h.last, l[i].head) \in Nat /\ Up(h.last, l[i].tail) \in Nat
  BY <1>1, <1>2, BlockPositions
<1> DEFINE U == UNION {Up(h.last, b.head) .. (Up(h.last, b.tail) - 1) : b \in ToSet(l)}
<1>5. \A p : p \in U <=> p \in Nat /\ Covered(l, h.last, p)
  <2>1. ASSUME NEW p, p \in U PROVE p \in Nat /\ Covered(l, h.last, p)
    <3>1. PICK i \in 1 .. Len(l) : p \in Up(h.last, l[i].head) .. (Up(h.last, l[i].tail) - 1)
      BY <1>3, <2>1
    <3>2. Up(h.last, l[i].head) \in Nat /\ Up(h.last, l[i].tail) \in Nat
      BY <1>4
    <3>3. p \in Nat /\ Up(h.last, l[i].head) <= p /\ p < Up(h.last, l[i].tail)
      BY ONLY <3>1, <3>2
    <3> QED
      BY <3>3 DEF Covered
  <2>2. ASSUME NEW p \in Nat, Covered(l, h.last, p) PROVE p \in U
    <3>1. PICK i \in 1 .. Len(l) : Up(h.last, l[i].head) <= p /\ p < Up(h.last, l[i].tail)
      BY <2>2 DEF Covered
    <3>2. Up(h.last, l[i].head) \in Nat /\ Up(h.last, l[i].tail) \in Nat
      BY <1>4
    <3>3. p \in Up(h.last, l[i].head) .. (Up(h.last, l[i].tail) - 1)
      BY ONLY <2>2, <3>1, <3>2
    <3>4. l[i] \in ToSet(l)
      BY <1>3
    <3> QED
      BY <3>3, <3>4
  <2> QED
    BY <2>1, <2>2
<1>6. U = UNION {(h.last + Minus(b.head, W.lastSeq)) .. ((h.last + Minus(b.tail, W.lastSeq)) - 1) :
                     b \in ToSet(W.ub_list)}
  BY <1>2 DEF Up
<1> HIDE DEF U
<1>7. \A p : p \in h.read .. (h.last - 1) <=> p \in Nat /\ h.read <= p /\ p < h.last
  BY <1>1
<1>8. (h.read .. (h.last - 1)) \cup U = {p \in Nat : Holds(W, h, p)}
  BY <1>2, <1>5, <1>7 DEF Holds
<1> QED
  BY <1>6, <1>8

\* What the invariant says of one window.
LEMMA InvWindow ==
    ASSUME Inv, NEW w, w \in DOMAIN win
    PROVE  /\ win[w] \in Window /\ hist[w] \in History /\ Sound(win[w], hist[w])
           /\ win[w].lastSeq = hist[w].last % SeqSpace
           /\ Held(w) = {p \in Nat : Holds(win[w], hist[w], p)}
<1>1. win[w] \in Window /\ hist[w] \in History /\ Sound(win[w], hist[w])
  BY WindowType DEF Inv, WindowInv
<1>2. win[w].lastSeq = hist[w].last % SeqSpace
  BY <1>1 DEF Sound, SoundIn, Numbers
<1> QED
  BY <1>1, <1>2, HeldIs DEF Held, Position

\* The invariant implies that the counters are exact.
LEMMA InvCounts ==
    ASSUME Inv
    PROVE  CountsExact
<1> SUFFICES ASSUME NEW w \in DOMAIN win
             PROVE  /\ win[w].safe_len = win[w].safe
                    /\ \A i \in 1 .. (win[w].safe - 1) : valid[win[w].nodes[i]] = NodeSize
                    /\ valid[win[w].nodes[win[w].safe]] < NodeSize
                    /\ win[w].lastSeq = hist[w].last % SeqSpace
                    /\ Readable(win[w]) = hist[w].last - hist[w].read
  BY DEF CountsExact
<1>1. PICK W, h : W = win[w] /\ h = hist[w]
  OBVIOUS
<1>2. W \in Window /\ h \in History /\ Sound(W, h)
  BY <1>1, InvWindow
<1>3. Numbers(W, h) /\ Filled(W, h, valid)
  BY <1>2 DEF Sound, SoundIn
<1>4. Readable(W) = h.last - h.read
  BY <1>2, ReadableIs
<1>5. valid[W.nodes[W.safe]] < NodeSize
  <2>1. h.last \in Nat
    BY <1>2 DEF History
  <2>2. h.last % NodeSize \in 0 .. (NodeSize - 1)
    BY <2>1, Sizes, DivMod
  <2>3. valid[W.nodes[W.safe]] = h.last % NodeSize
    BY <1>3 DEF Filled
  <2> QED
    BY <2>2, <2>3, Sizes
<1> QED
  BY <1>1, <1>3, <1>4, <1>5 DEF Numbers, Filled

\* The invariant implies that every byte is in its place.
LEMMA InvBytes ==
    ASSUME Inv
    PROVE  BytesInPlace
<1> SUFFICES ASSUME NEW w \in DOMAIN win, NEW p \in Held(w)
             PROVE  ByteAt(win[w], win[w].headDataOffset + p - hist[w].read) = p
  BY DEF BytesInPlace
<1>1. p \in Nat /\ Holds(win[w], hist[w], p)
  BY InvWindow
<1> QED
  BY <1>1, InvWindow, ByteOf

\* The invariant implies that the list of blocks is in order.
LEMMA InvList ==
    ASSUME Inv
    PROVE  UBCanonical
<1> SUFFICES ASSUME NEW w \in DOMAIN win, NEW l, l = win[w].ub_list
             PROVE  /\ \A i \in DOMAIN l : /\ Position(w, l[i].head) > hist[w].last
                                           /\ Position(w, l[i].head) <= Position(w, l[i].tail)
                    /\ \A i \in 1 .. (Len(l) - 1) :
                          Position(w, l[i].tail) < Position(w, l[i+1].head)
  BY DEF UBCanonical
<1>1. PICK W, h : W = win[w] /\ h = hist[w]
  OBVIOUS
<1>2. W \in Window /\ h \in History /\ Listed(W, h) /\ W.lastSeq = h.last % SeqSpace
  BY <1>1, InvWindow DEF Sound, SoundIn
<1>3. \A s : Position(w, s) = Up(h.last, s)
  BY <1>1, <1>2 DEF Position, Up
<1>4. /\ Apart(l, h.last)
      /\ \A i \in 1 .. Len(l) : h.last < Up(h.last, l[i].head)
  BY <1>1, <1>2 DEF Listed
<1>5. l \in Seq(Block) /\ DOMAIN l = 1 .. Len(l) /\ Len(l) \in Nat /\ h.last \in Nat
  <2>1. l \in Seq(Block)
    BY <1>1, <1>2, Fields
  <2> QED
    BY <1>2, <2>1, LenProperties DEF History
<1>6. \A i \in 1 .. Len(l) : Up(h.last, l[i].head) \in Nat
  BY <1>5, BlockPositions
<1>7. \A i \in DOMAIN l : /\ Up(h.last, l[i].head) > h.last
                          /\ Up(h.last, l[i].head) <= Up(h.last, l[i].tail)
  BY <1>4, <1>5, <1>6 DEF Apart
<1>8. ASSUME NEW i \in 1 .. (Len(l) - 1) PROVE Up(h.last, l[i].tail) < Up(h.last, l[i+1].head)
  <2>1. i \in 1 .. Len(l) /\ i + 1 \in 1 .. Len(l) /\ i < i + 1
    BY <1>5
  <2> QED
    BY <1>4, <2>1 DEF Apart
<1> QED
  BY <1>1, <1>3, <1>7, <1>8

\* The invariant implies that the memory of a window is bounded.
LEMMA InvBound ==
    ASSUME Inv
    PROVE  NodeBound
<1> SUFFICES ASSUME NEW w \in DOMAIN win PROVE Len(win[w].nodes) <= WindowSize + 1
  BY DEF NodeBound
<1>1. win[w] \in Window /\ hist[w] \in History /\ Numbers(win[w], hist[w]) /\ Sized(win[w], hist[w])
  BY InvWindow DEF Sound, SoundIn
<1> QED
  BY <1>1, InNodes

\* The invariant implies that every node has one owner.
LEMMA InvOwned ==
    ASSUME Inv
    PROVE  NodesOwnedOnce
<1> DEFINE owned == [o \in DOMAIN win \cup {"pool"} |-> IF o \in DOMAIN win THEN win[o].nodes ELSE pool]
<1>1. /\ \A w \in DOMAIN win : \A i \in 1 .. Len(win[w].nodes) : win[w].nodes[i] \in heap
      /\ \A i \in 1 .. Len(pool) : pool[i] \in heap
      /\ \A x \in heap :
            \/ \E w \in DOMAIN win : \E i \in 1 .. Len(win[w].nodes) : win[w].nodes[i] = x
            \/ \E i \in 1 .. Len(pool) : pool[i] = x
      /\ \A v, w \in DOMAIN win :
            \A i \in 1 .. Len(win[v].nodes), j \in 1 .. Len(win[w].nodes) :
               win[v].nodes[i] = win[w].nodes[j] => v = w /\ i = j
      /\ \A i, j \in 1 .. Len(pool) : pool[i] = pool[j] => i = j
      /\ \A w \in DOMAIN win : \A i \in 1 .. Len(win[w].nodes), j \in 1 .. Len(pool) :
            win[w].nodes[i] # pool[j]
  BY DEF Inv, Ownership
<1>2. "pool" \notin DOMAIN win
  BY WindowType DEF Inv
<1>3. /\ DOMAIN owned = DOMAIN win \cup {"pool"} /\ owned["pool"] = pool
      /\ \A w \in DOMAIN win : owned[w] = win[w].nodes
  BY <1>2
<1>4. \A o \in DOMAIN owned : owned[o] \in Seq(Nodes)
  <2>1. \A w \in DOMAIN win : win[w].nodes \in Seq(Nodes)
    BY WindowType DEF Inv
  <2>2. pool \in Seq(Nodes)
    BY DEF Inv, TypeOK
  <2> QED
    BY <1>3, <2>1, <2>2
<1> HIDE DEF owned
<1>5. \A o \in DOMAIN owned : DOMAIN owned[o] = 1 .. Len(owned[o])
  BY <1>4, LenProperties
<1>6. \A o \in DOMAIN owned : \A x : x \in ToSet(owned[o]) <=> \E i \in 1 .. Len(owned[o]) : owned[o][i] = x
  BY <1>5 DEF ToSet
<1>7. heap = UNION {ToSet(owned[o]) : o \in DOMAIN owned}
  <2>1. ASSUME NEW x \in heap PROVE \E o \in DOMAIN owned : x \in ToSet(owned[o])
    <3>1. CASE \E w \in DOMAIN win : \E i \in 1 .. Len(win[w].nodes) : win[w].nodes[i] = x
      BY <1>3, <1>6, <3>1
    <3>2. CASE \E i \in 1 .. Len(pool) : pool[i] = x
      BY <1>3, <1>6, <3>2
    <3> QED
      BY <1>1, <2>1, <3>1, <3>2
  <2>2. ASSUME NEW o \in DOMAIN owned, NEW x \in ToSet(owned[o]) PROVE x \in heap
    <3>1. PICK i \in 1 .. Len(owned[o]) : owned[o][i] = x
      BY <1>6, <2>2
    <3>2. CASE o \in DOMAIN win
      BY <1>1, <1>3, <3>1, <3>2
    <3>3. CASE o = "pool"
      BY <1>1, <1>3, <3>1, <3>3
    <3> QED
      BY <1>3, <2>2, <3>2, <3>3
  <2> QED
    BY <2>1, <2>2
<1>8. ASSUME NEW o \in DOMAIN owned, NEW p \in DOMAIN owned, NEW i \in DOMAIN owned[o],
             NEW j \in DOMAIN owned[p], owned[o][i] = owned[p][j]
      PROVE  o = p /\ i = j
  <2>1. i \in 1 .. Len(owned[o]) /\ j \in 1 .. Len(owned[p])
    BY <1>5, <1>8
  <2>2. CASE o \in DOMAIN win /\ p \in DOMAIN win
    <3>1. owned[o] = win[o].nodes /\ owned[p] = win[p].nodes
      BY <1>3, <2>2
    <3> QED
      BY <1>1, <1>8, <2>1, <2>2, <3>1
  <2>3. CASE o \in DOMAIN win /\ p = "pool"
    BY <1>1, <1>3, <1>8, <2>1, <2>3
  <2>4. CASE o = "pool" /\ p \in DOMAIN win
    BY <1>1, <1>3, <1>8, <2>1, <2>4
  <2>5. CASE o = "pool" /\ p = "pool"
    BY <1>1, <1>3, <1>8, <2>1, <2>5
  <2> QED
    BY <1>3, <1>8, <2>2, <2>3, <2>4, <2>5
<1> QED
  BY <1>7, <1>8 DEF NodesOwnedOnce, owned

-----------------------------------------------------------------------------
(* Every step is a step of the abstract queue.                             *)

\* The streams that windows f with histories g stand for.
Streams(f, g) ==
    [w \in DOMAIN f |-> [held |-> {p \in Nat : Holds(f[w], g[w], p)}, read |-> g[w].read]]

\* The variable of the abstract specification, before and after a step.
LEMMA StreamIs ==
    /\ Inv => [w \in DOMAIN win |-> [held |-> Held(w), read |-> hist[w].read]] = Streams(win, hist)
    /\ Inv' => [w \in DOMAIN win |-> [held |-> Held(w), read |-> hist[w].read]]'
               = Streams(win', hist')
<1>1. ASSUME Inv
      PROVE  [w \in DOMAIN win |-> [held |-> Held(w), read |-> hist[w].read]] = Streams(win, hist)
  BY <1>1, InvWindow DEF Streams
<1>2. ASSUME Inv'
      PROVE  [w \in DOMAIN win |-> [held |-> Held(w), read |-> hist[w].read]]' = Streams(win', hist')
  <2>1. ASSUME NEW w \in DOMAIN win'
        PROVE  Held(w)' = {p \in Nat : Holds(win'[w], hist'[w], p)}
    <3>1. win'[w] \in Window /\ hist'[w] \in History
      BY <1>2, <2>1 DEF Inv, TypeOK, History
    <3>2. win'[w].lastSeq = hist'[w].last % SeqSpace
      BY <1>2, <2>1 DEF Inv, WindowInv, Sound, SoundIn, Numbers
    <3>3. PICK W, h : W = win'[w] /\ h = hist'[w]
      OBVIOUS
    <3>4. (h.read .. (h.last - 1)) \cup
          UNION {(h.last + Minus(b.head, W.lastSeq)) .. ((h.last + Minus(b.tail, W.lastSeq)) - 1) :
                    b \in ToSet(W.ub_list)}
          = {p \in Nat : Holds(W, h, p)}
      BY <3>1, <3>2, <3>3, HeldIs
    <3> QED
      BY <3>3, <3>4 DEF Held, Position
  <2> QED
    BY <2>1 DEF Streams
<1> QED
  BY <1>1, <1>2

\* An accepted block adds its bytes to the stream.
LEMMA TakesStep ==
    ASSUME Inv, NEW w, NEW pos \in Nat, NEW n \in Nat, Takes(w, pos, n)
    PROVE  /\ w \in DOMAIN Streams(win, hist)
           /\ pos \in Streams(win, hist)[w].read .. MaxPos /\ n \in 0 .. (MaxPos - pos)
           /\ (pos .. (pos + n - 1)) \cap Streams(win, hist)[w].held = {}
           /\ Streams(win', hist') =
                 [Streams(win, hist) EXCEPT ![w].held = @ \cup (pos .. (pos + n - 1))]
<1>1. PICK S, T : S = Streams(win, hist) /\ T = Streams(win', hist')
  OBVIOUS
<1>2. /\ w \in DOMAIN win /\ hist[w].read <= pos /\ pos + n <= MaxPos
      /\ DOMAIN win' = DOMAIN win
      /\ \A v \in DOMAIN win : v # w => win'[v] = win[v] /\ hist'[v] = hist[v]
      /\ hist'[w].read = hist[w].read
      /\ \A p \in Nat : pos <= p /\ p < pos + n => ~Holds(win[w], hist[w], p)
      /\ \A p \in Nat : Holds(win'[w], hist'[w], p) <=>
                           Holds(win[w], hist[w], p) \/ (pos <= p /\ p < pos + n)
  BY DEF Takes
<1>3. hist[w].read \in Nat
  BY <1>2, WindowType DEF Inv, History
<1>4. /\ DOMAIN S = DOMAIN win /\ DOMAIN T = DOMAIN win
      /\ S[w] = [held |-> {p \in Nat : Holds(win[w], hist[w], p)}, read |-> hist[w].read]
      /\ T[w] = [held |-> {p \in Nat : Holds(win'[w], hist'[w], p)}, read |-> hist[w].read]
      /\ \A v \in DOMAIN win : v # w => T[v] = S[v]
      /\ S = [v \in DOMAIN win |-> S[v]] /\ T = [v \in DOMAIN win |-> T[v]]
  BY <1>1, <1>2 DEF Streams
<1>5. \A p : p \in pos .. (pos + n - 1) <=> p \in Nat /\ pos <= p /\ p < pos + n
  OBVIOUS
<1>6. PICK A, I : A = {p \in Nat : Holds(win[w], hist[w], p)} /\ I = pos .. (pos + n - 1)
  OBVIOUS
<1>7. {p \in Nat : Holds(win'[w], hist'[w], p)} = A \cup I /\ I \cap A = {}
  BY <1>2, <1>5, <1>6
<1>8. S[w] = [held |-> A, read |-> hist[w].read] /\ T[w] = [held |-> A \cup I, read |-> hist[w].read]
  BY <1>4, <1>6, <1>7
<1>9. T = [S EXCEPT ![w].held = @ \cup I]
  <2>1. [S[w] EXCEPT !.held = S[w].held \cup I] = T[w]
    <3>1. PICK R, Q, B, r : R = S[w] /\ Q = T[w] /\ B = A \cup I /\ r = hist[w].read
      OBVIOUS
    <3>2. R = [held |-> A, read |-> r] /\ Q = [held |-> B, read |-> r] /\ S[w].held \cup I = B
      BY <1>8, <3>1
    <3>3. [R EXCEPT !.held = B] = Q
      BY ONLY <3>2
    <3> QED
      BY ONLY <3>1, <3>2, <3>3
  <2>2. w \in DOMAIN S
    BY <1>2, <1>4
  <2>3. T = [S EXCEPT ![w] = T[w]]
    BY ONLY <1>4, <2>2
  <2> QED
    BY ONLY <2>1, <2>2, <2>3
<1>10. pos \in hist[w].read .. MaxPos /\ n \in 0 .. (MaxPos - pos)
  BY <1>2, <1>3, Sizes
<1>11. S[w].held = A /\ S[w].read = hist[w].read
  BY ONLY <1>8
<1> QED
  BY <1>1, <1>2, <1>4, <1>6, <1>7, <1>9, <1>10, <1>11

\* A read takes the next bytes from the stream.
LEMMA DeliversStep ==
    ASSUME Inv, NEW w, NEW n, Delivers(w, n)
    PROVE  /\ w \in DOMAIN Streams(win, hist) /\ n \in 0 .. MaxPos
           /\ Streams(win, hist)[w].read = hist[w].read
           /\ (hist[w].read .. (hist[w].read + n - 1)) \subseteq Streams(win, hist)[w].held
           /\ Streams(win', hist') =
                 [Streams(win, hist) EXCEPT ![w].held = @ \ (hist[w].read .. (hist[w].read + n - 1)),
                                            ![w].read = @ + n]
<1>1. PICK S, T : S = Streams(win, hist) /\ T = Streams(win', hist')
  OBVIOUS
<1>2. /\ w \in DOMAIN win /\ n \in Nat /\ n <= MaxPos
      /\ DOMAIN win' = DOMAIN win
      /\ \A v \in DOMAIN win : v # w => win'[v] = win[v] /\ hist'[v] = hist[v]
      /\ hist'[w].read = hist[w].read + n
      /\ \A p \in Nat : hist[w].read <= p /\ p < hist[w].read + n => Holds(win[w], hist[w], p)
      /\ \A p \in Nat : Holds(win'[w], hist'[w], p) <=>
                           Holds(win[w], hist[w], p) /\ hist[w].read + n <= p
  BY DEF Delivers
<1>3. PICK r \in Nat : r = hist[w].read
  BY <1>2, WindowType DEF Inv, History
<1>4. /\ DOMAIN S = DOMAIN win /\ DOMAIN T = DOMAIN win
      /\ S[w] = [held |-> {p \in Nat : Holds(win[w], hist[w], p)}, read |-> r]
      /\ T[w] = [held |-> {p \in Nat : Holds(win'[w], hist'[w], p)}, read |-> r + n]
      /\ \A v \in DOMAIN win : v # w => T[v] = S[v]
      /\ S = [v \in DOMAIN win |-> S[v]] /\ T = [v \in DOMAIN win |-> T[v]]
  BY <1>1, <1>2, <1>3 DEF Streams
<1>5. \A p : p \in r .. (r + n - 1) <=> p \in Nat /\ r <= p /\ p < r + n
  BY <1>2, <1>3
<1>6. PICK A, I : A = {p \in Nat : Holds(win[w], hist[w], p)} /\ I = r .. (r + n - 1)
  OBVIOUS
<1>7. \A p \in Nat : Holds(win[w], hist[w], p) => r <= p
  <2>1. win[w] \in Window /\ hist[w] \in History /\ Numbers(win[w], hist[w]) /\ Sized(win[w], hist[w])
    BY <1>2, InvWindow DEF Sound, SoundIn
  <2> QED
    BY <1>3, <2>1, InNodes
<1>8. {p \in Nat : Holds(win'[w], hist'[w], p)} = A \ I
  BY <1>2, <1>3, <1>5, <1>6, <1>7
<1>9. I \subseteq A
  BY <1>2, <1>3, <1>5, <1>6
<1>10. S[w] = [held |-> A, read |-> r] /\ T[w] = [held |-> A \ I, read |-> r + n]
  BY <1>4, <1>6, <1>8
<1>11. S[w].held = A /\ S[w].read = r
  BY ONLY <1>10
<1>12. T = [S EXCEPT ![w].held = @ \ I, ![w].read = @ + n]
  <2>1. [S[w] EXCEPT !.held = S[w].held \ I, !.read = S[w].read + n] = T[w]
    <3>1. PICK R, Q, B, z : R = S[w] /\ Q = T[w] /\ B = A \ I /\ z = r + n
      OBVIOUS
    <3>2. /\ R = [held |-> A, read |-> r] /\ Q = [held |-> B, read |-> z]
          /\ S[w].held \ I = B /\ S[w].read + n = z
      BY <1>10, <1>11, <3>1
    <3>3. [R EXCEPT !.held = B, !.read = z] = Q
      <4>1. DOMAIN R = {"held", "read"} /\ R = [x \in {"held", "read"} |-> R[x]]
        BY ONLY <3>2
      <4>2. PICK Y : Y = [R EXCEPT !.held = B, !.read = z]
        OBVIOUS
      <4>3. Y.held = B /\ Y.read = z /\ Y = [x \in {"held", "read"} |-> Y[x]]
        BY ONLY <4>1, <4>2
      <4>4. Q.held = B /\ Q.read = z /\ Q = [x \in {"held", "read"} |-> Q[x]]
        BY ONLY <3>2
      <4>5. Y = Q
        BY ONLY <4>3, <4>4
      <4> QED
        BY ONLY <4>2, <4>5
    <3> QED
      BY ONLY <3>1, <3>2, <3>3
  <2>2. w \in DOMAIN S
    BY <1>2, <1>4
  <2>3. T = [S EXCEPT ![w] = T[w]]
    BY ONLY <1>4, <2>2
  <2>4. [S EXCEPT ![w].held = @ \ I, ![w].read = @ + n] =
           [S EXCEPT ![w] = [S[w] EXCEPT !.held = S[w].held \ I, !.read = S[w].read + n]]
    BY ONLY <1>10, <2>2
  <2> QED
    BY ONLY <2>1, <2>3, <2>4
<1> QED
  <2>1. /\ w \in DOMAIN S /\ S[w].read = r /\ I \subseteq S[w].held
        /\ T = [S EXCEPT ![w].held = @ \ I, ![w].read = @ + n]
    BY <1>2, <1>4, <1>9, <1>11, <1>12
  <2>2. n \in 0 .. MaxPos
    BY <1>2, Sizes
  <2> QED
    BY ONLY <1>1, <1>3, <1>6, <2>1, <2>2

\* Calls that change no byte leave the streams as they are.
LEMMA AnswersStep ==
    ASSUME Inv, NEW w, Answers(w)
    PROVE  Streams(win', hist') = Streams(win, hist)
<1>1. /\ DOMAIN win' = DOMAIN win /\ hist' = hist
      /\ \A v \in DOMAIN win : win'[v].ub_list = win[v].ub_list
  BY DEF Answers
<1>2. ASSUME NEW v \in DOMAIN win
      PROVE  {p \in Nat : Holds(win'[v], hist'[v], p)} = {p \in Nat : Holds(win[v], hist[v], p)}
  BY <1>1, <1>2 DEF Holds
<1> QED
  BY <1>1, <1>2 DEF Streams

\* Windows come and go as the queues of the abstract specification do.
LEMMA OpensStep ==
    ASSUME NEW w, Opens(w)
    PROVE  /\ w \notin DOMAIN Streams(win, hist)
           /\ Streams(win', hist') =
                 [x \in DOMAIN Streams(win, hist) \cup {w} |->
                     IF x = w THEN [held |-> {}, read |-> 0] ELSE Streams(win, hist)[x]]
<1>1. /\ w \notin DOMAIN win /\ DOMAIN win' = DOMAIN win \cup {w}
      /\ \A v \in DOMAIN win : win'[v] = win[v] /\ hist'[v] = hist[v]
      /\ hist'[w].read = 0
      /\ {p \in Nat : Holds(win'[w], hist'[w], p)} = {}
  BY DEF Opens
<1>2. /\ DOMAIN Streams(win, hist) = DOMAIN win
      /\ \A v \in DOMAIN win : Streams(win, hist)[v] = Streams(win', hist')[v]
      /\ Streams(win', hist')[w] = [held |-> {}, read |-> 0]
      /\ Streams(win', hist') = [x \in DOMAIN win' |-> Streams(win', hist')[x]]
  BY <1>1 DEF Streams
<1> QED
  BY <1>1, <1>2

\* A freed window's stream is gone.
LEMMA ClosesStep ==
    ASSUME NEW w, Closes(w)
    PROVE  /\ w \in DOMAIN Streams(win, hist)
           /\ Streams(win', hist') =
                 [x \in DOMAIN Streams(win, hist) \ {w} |-> Streams(win, hist)[x]]
  BY DEF Closes, Streams

-----------------------------------------------------------------------------
(* Theorems.                                                               *)

\* A step keeps the invariant and is a step of the abstract queue, or none.
LEMMA StepKeeps ==
    ASSUME Inv, [Next]_vars
    PROVE  /\ Inv'
           /\ \/ \E w \in Windows :
                   \/ Opens(w) \/ Closes(w) \/ Answers(w)
                   \/ \E n : Delivers(w, n)
                   \/ /\ \E pos \in Nat, n \in Nat : Takes(w, pos, n)
                      /\ ret' = [win |-> w, code |-> 0, bytes |-> << >>]
              \/ UNCHANGED << win, hist, ret >>
<1>1. ASSUME NEW w \in Windows, NewWindow(w) PROVE Inv' /\ Opens(w)
  BY <1>1, NewWindowInv
<1>2. ASSUME NEW w \in Windows, Put(w)
      PROVE  /\ Inv'
             /\ \/ Answers(w)
                \/ /\ \E pos \in Nat, n \in Nat : Takes(w, pos, n)
                   /\ ret' = [win |-> w, code |-> 0, bytes |-> << >>]
                \/ UNCHANGED << win, hist, ret >>
  <2>1. PICK pos \in Positions, length \in 0 .. MaxLen :
           /\ w \in DOMAIN win /\ pos + length <= MaxPos
           /\ pos - hist[w].last \in (1 - Half) .. (Half - 1)
           /\ \/ PutRefused(w, pos, length)
              \/ PutStray(w, pos, length)
              \/ PutAccepted(w, pos, length)
    BY <1>2 DEF Put, Half
  <2>2. CASE PutRefused(w, pos, length)
    BY <2>2, RefusedInv
  <2>3. CASE PutStray(w, pos, length)
    BY <2>3, StrayInv
  <2>4. CASE PutAccepted(w, pos, length)
    <3>1. Inv' /\ Takes(w, pos, length)
      BY <2>1, <2>4, PutInv
    <3>2. ret' = [win |-> w, code |-> 0, bytes |-> << >>]
      BY <2>4 DEF PutAccepted
    <3>3. pos \in Nat /\ length \in Nat
      BY <2>1, Sizes DEF Positions
    <3> QED
      BY <3>1, <3>2, <3>3
  <2> QED
    BY <2>1, <2>2, <2>3, <2>4
<1>3. ASSUME NEW w \in Windows, NEW length \in 0 .. MaxLen, Pop(w, length)
      PROVE  Inv' /\ \E n : Delivers(w, n)
  <2>1. w \in DOMAIN win
    BY <1>3 DEF Pop
  <2> QED
    BY <1>3, <2>1, PopInv
<1>4. ASSUME NEW w \in Windows, Sanitize(w) PROVE Inv' /\ Answers(w)
  BY <1>4, SanitizeInv
<1>5. ASSUME NEW w \in Windows, FreeWQ(w) PROVE Inv' /\ Closes(w)
  BY <1>5, FreeWQInv
<1>6. CASE FreeP
  BY <1>6, FreePInv
<1>7. CASE UNCHANGED vars
  <2>1. /\ UNCHANGED << win, pool, valid, mem, heap, hist >> /\ UNCHANGED << win, hist, ret >>
        /\ corrupt' = corrupt /\ ret' = ret
    BY <1>7 DEF vars
  <2>2. corrupt \in BOOLEAN /\ ret.win \in Windows /\ ret.code \in Int
    BY DEF Inv, TypeOK
  <2> QED
    BY <2>1, <2>2, SameInv
<1> QED
  BY <1>1, <1>2, <1>3, <1>4, <1>5, <1>6, <1>7 DEF Next

\* The state of a host's windows and of its node pool satisfies the invariant
\* after any calls of windowedqueue.c, for any sizes.
LEMMA Invariance == Spec => []Inv
<1>1. Init => Inv
  BY InitInv
<1>2. Inv /\ [Next]_vars => Inv'
  BY StepKeeps
<1> QED
  BY <1>1, <1>2, PTL DEF Spec

\* The state variables of windows and pool have the shape windowedqueue.h
\* declares, and a window always has the node safe_tail points to.
THEOREM TypeCorrect == Spec => []TypeOK
<1>1. Inv => TypeOK
  BY DEF Inv
<1> QED
  BY <1>1, Invariance, PTL

\* Every node that was allocated is in one window or in the pool, at one place,
\* whatever altusWQPut, altusWQPop, altusFreeWQ and altusFreeP do.
THEOREM NodesHaveOneOwner == Spec => []NodesOwnedOnce
<1>1. Inv => NodesOwnedOnce
  BY InvOwned
<1> QED
  BY <1>1, Invariance, PTL

\* The counters safe_len, validBlockCount and lastSeq, which altusWQPut and
\* altusWQPop decide by, are exact.
THEOREM CountersAreExact == Spec => []CountsExact
<1>1. Inv => CountsExact
  BY InvCounts
<1> QED
  BY <1>1, Invariance, PTL

\* Every byte that altusWQPut took over is at the place where altusWQPop looks
\* for it.
THEOREM BytesAreInPlace == Spec => []BytesInPlace
<1>1. Inv => BytesInPlace
  BY InvBytes
<1> QED
  BY <1>1, Invariance, PTL

\* The list of blocks of a window stays ahead of lastSeq, in order and with gaps
\* between the blocks.
THEOREM ListIsCanonical == Spec => []UBCanonical
<1>1. Inv => UBCanonical
  BY InvList
<1> QED
  BY <1>1, Invariance, PTL

\* A window never has more than windowSize + 1 nodes.
THEOREM MemoryIsBounded == Spec => []NodeBound
<1>1. Inv => NodeBound
  BY InvBound
<1> QED
  BY <1>1, Invariance, PTL

\* windowedqueue.c implements the abstract reassembly queue: blocks are taken
\* over whole or not at all, and the bytes come out in order, once, unaltered.
THEOREM Refinement == Spec => ImplementsReassembly
<1> DEFINE stream == [w \in DOMAIN win |-> [held |-> Held(w), read |-> hist[w].read]]
<1>1. Init => Promise!Init
  <2> SUFFICES ASSUME Init PROVE stream = << >> /\ ret \in [win : Windows, code : {0}, bytes : {<< >>}]
    BY DEF Promise!Init
  <2>1. win = << >> /\ ret = [win |-> CHOOSE w \in Windows : TRUE, code |-> 0, bytes |-> << >>]
    BY DEF Init
  <2>2. DOMAIN win = {}
    BY <2>1
  <2>3. stream = << >>
    BY <2>2
  <2>4. (CHOOSE w \in Windows : TRUE) \in Windows
    BY Sizes
  <2> QED
    BY <2>1, <2>3, <2>4
<1>2. ASSUME Inv, [Next]_vars PROVE [Promise!Next]_<< stream, ret >>
  <2>1. Inv /\ Inv'
    BY <1>2, StepKeeps
  <2>2. stream = Streams(win, hist) /\ stream' = Streams(win', hist')
    BY <2>1, StreamIs
  <2> HIDE DEF stream
  <2>3. ASSUME NEW w \in Windows, Opens(w) PROVE Promise!Next
    <3>1. ret' = ret
      BY <2>3 DEF Opens
    <3>2. /\ w \notin DOMAIN stream
          /\ stream' = [x \in DOMAIN stream \cup {w} |->
                           IF x = w THEN [held |-> {}, read |-> 0] ELSE stream[x]]
      <4>1. /\ w \notin DOMAIN Streams(win, hist)
            /\ Streams(win', hist') =
                  [x \in DOMAIN Streams(win, hist) \cup {w} |->
                      IF x = w THEN [held |-> {}, read |-> 0] ELSE Streams(win, hist)[x]]
        BY <2>3, OpensStep
      <4> QED
        BY ONLY <2>2, <4>1
    <3>3. Promise!Open(w)
      BY <3>1, <3>2 DEF Promise!Open, stream
    <3> QED
      BY <3>3 DEF Promise!Next
  <2>4. ASSUME NEW w \in Windows, Closes(w) PROVE Promise!Next
    <3>1. ret' = ret
      BY <2>4 DEF Closes
    <3>2. w \in DOMAIN stream /\ stream' = [x \in DOMAIN stream \ {w} |-> stream[x]]
      BY <2>2, <2>4, ClosesStep
    <3>3. Promise!Close(w)
      BY <3>1, <3>2 DEF Promise!Close, stream
    <3> QED
      BY <3>3 DEF Promise!Next
  <2>5. ASSUME NEW w \in Windows, Answers(w) PROVE Promise!Next
    <3>1. w \in DOMAIN win /\ ret' = [win |-> w, code |-> ret'.code, bytes |-> << >>] /\ ret'.code \in Int
      BY <2>5 DEF Answers
    <3>2. stream' = stream
      BY <2>1, <2>2, <2>5, AnswersStep
    <3>3. Promise!Answer(w)
      BY <3>1, <3>2 DEF Promise!Answer, stream
    <3> QED
      BY <3>3 DEF Promise!Next
  <2>6. ASSUME NEW w \in Windows, NEW n, Delivers(w, n) PROVE Promise!Next
    <3>1. PICK r : r = hist[w].read
      OBVIOUS
    <3>2. ret' = [win |-> w, code |-> n, bytes |-> [j \in 1 .. n |-> r + j - 1]]
      BY <2>6, <3>1 DEF Delivers
    <3>3. /\ w \in DOMAIN stream /\ n \in 0 .. MaxPos /\ stream[w].read = r
          /\ (r .. (r + n - 1)) \subseteq stream[w].held
          /\ stream' = [stream EXCEPT ![w].held = @ \ (r .. (r + n - 1)), ![w].read = @ + n]
      <4>1. /\ w \in DOMAIN Streams(win, hist) /\ n \in 0 .. MaxPos
            /\ Streams(win, hist)[w].read = r
            /\ (r .. (r + n - 1)) \subseteq Streams(win, hist)[w].held
            /\ Streams(win', hist') =
                  [Streams(win, hist) EXCEPT ![w].held = @ \ (r .. (r + n - 1)), ![w].read = @ + n]
        BY <2>1, <2>6, <3>1, DeliversStep
      <4> QED
        BY ONLY <2>2, <4>1
    <3>4. Promise!Deliver(w)
      BY <3>2, <3>3 DEF Promise!Deliver, Promise!Interval, stream
    <3> QED
      BY <3>4 DEF Promise!Next
  <2>7. ASSUME NEW w \in Windows, NEW pos \in Nat, NEW n \in Nat, Takes(w, pos, n),
               ret' = [win |-> w, code |-> 0, bytes |-> << >>]
        PROVE  Promise!Next
    <3>1. /\ w \in DOMAIN stream /\ pos \in stream[w].read .. MaxPos /\ n \in 0 .. (MaxPos - pos)
          /\ (pos .. (pos + n - 1)) \cap stream[w].held = {}
          /\ stream' = [stream EXCEPT ![w].held = @ \cup (pos .. (pos + n - 1))]
      <4>1. /\ w \in DOMAIN Streams(win, hist)
            /\ pos \in Streams(win, hist)[w].read .. MaxPos /\ n \in 0 .. (MaxPos - pos)
            /\ (pos .. (pos + n - 1)) \cap Streams(win, hist)[w].held = {}
            /\ Streams(win', hist') =
                  [Streams(win, hist) EXCEPT ![w].held = @ \cup (pos .. (pos + n - 1))]
        BY <2>1, <2>7, TakesStep
      <4> QED
        BY ONLY <2>2, <4>1
    <3>2. Promise!Accept(w)
      BY <2>7, <3>1 DEF Promise!Accept, Promise!Interval, stream
    <3> QED
      BY <3>2 DEF Promise!Next
  <2>8. ASSUME UNCHANGED << win, hist, ret >> PROVE UNCHANGED << stream, ret >>
    BY <2>2, <2>8
  <2> QED
    BY <1>2, <2>3, <2>4, <2>5, <2>6, <2>7, <2>8, StepKeeps
<1> QED
  BY <1>1, <1>2, Invariance, PTL DEF Spec, ImplementsReassembly, Promise!Spec
=============================================================================
