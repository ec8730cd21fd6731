------------------------- MODULE FileStreamsProofs -------------------------
(***************************************************************************)
(* Proofs about the file streams, for any number of streams, nodes and     *)
(* packets and any sizes.                                                  *)
(***************************************************************************)
EXTENDS FileStreams, UBListProofs, FiniteSetTheorems

Blocks == [head : Int, tail : Int]

\* what a stream keeps, crowded or not
StreamType ==
    [head : Nodes, headSeq : Nat, headByteCount : 0 .. NodeSize, lastSeq : Nat,
     ub_list : Seq(Blocks), file : Seq(Int), final : {"no", "done", "threw"},
     finals : Nat, arrived : Seq(PacketIds), plain : BOOLEAN]

\* Links lead from nodes obtained from new to such nodes.
LinkInv ==
    /\ heap \subseteq Nodes
    /\ to_tail \in [Nodes -> Nodes \cup {Null}]
    /\ \A n \in heap : to_tail[n] \in heap \cup {Null}
    /\ \A n \in Nodes \ heap : to_tail[n] = Null

PoolInv ==
    /\ pool \in [head : heap \cup {Null}, tail : heap \cup {Null}, size : Int]
    /\ pool.size <= MaxPool
    /\ pool.head # Null => pool.tail # Null

\* The two threads: the Listener between pop's test and its taking the node,
\* the application inside the destructor of a stream that is still there.
ThreadInv ==
    /\ listener \in [pc : {"idle", "take", "ended"}, stream : Streams \cup {Null}, saw : BOOLEAN]
    /\ listener.pc = "take" =>
        /\ listener.stream \in Streams \ DOMAIN st
        /\ listener.saw => pool.head # Null
    /\ killer \in [stream : Streams \cup {Null}, node : heap \cup {Null}]
    /\ killer # NoKill => killer.stream \in DOMAIN st /\ killer.node # Null
    /\ crowded \in BOOLEAN

StreamsInv ==
    /\ mem \in [Nodes -> [Offsets -> Int]]
    /\ DOMAIN st \subseteq Streams
    /\ st \in [DOMAIN st -> StreamType]
    /\ \A s \in DOMAIN st : st[s].head \in heap /\ Len(st[s].ub_list) <= MaxUB

BaseInv == LinkInv /\ PoolInv /\ ThreadInv /\ StreamsInv

-----------------------------------------------------------------------------
\* The node where the nodes of a stream begin: the destructor gives them away
\* one by one.
First(s) == IF killer.stream = s THEN killer.node ELSE st[s].head

\* The list that begins at n is two nodes long at most.
Short(n) == to_tail[n] # Null => to_tail[n] # n /\ to_tail[to_tail[n]] = Null

\* Two short lists have no node in common.
Apart(m, n) ==
    /\ m # n /\ to_tail[m] # n /\ to_tail[n] # m
    /\ to_tail[m] = to_tail[n] => to_tail[m] = Null

\* While the pool was never crowded it holds one node at most, and streams and
\* pool share none.
OwnInv ==
    ~crowded =>
        /\ \A s \in DOMAIN st : Short(First(s))
        /\ \A s, t \in DOMAIN st : s # t => Apart(First(s), First(t))
        /\ pool.size = IF pool.head = Null THEN 0 ELSE 1
        /\ pool.head # Null =>
            /\ to_tail[pool.head] = Null
            /\ \A s \in DOMAIN st : Apart(pool.head, First(s))

-----------------------------------------------------------------------------
\* the node of byte p of a stream that begins at node n
NodeOf(n, p) == IF p < NodeSize THEN n ELSE to_tail[n]

\* byte p has its place
Placed(n, p) ==
    /\ p < 2 * NodeSize
    /\ NodeOf(n, p) # Null
    /\ mem[NodeOf(n, p)][p % NodeSize] = p

\* entries of the list: whole packets, in order, with gaps between them
Gaps(l, last) ==
    /\ \A i \in 1 .. Len(l) :
        /\ \E k \in PacketIds : l[i].head = Start(k)
        /\ last < l[i].head /\ l[i].head < l[i].tail /\ l[i].tail <= FileSize
    /\ \A i, j \in 1 .. Len(l) : i < j => l[i].tail < l[j].head

\* packet k lies inside an entry
Waits(l, k) ==
    \E i \in 1 .. Len(l) : l[i].head <= Start(k) /\ Start(k) + Length(k) <= l[i].tail

\* packet k is accounted for
Covered(S, k) == Start(k) + Length(k) <= S.lastSeq \/ Waits(S.ub_list, k)

Distinct(q) == \A i, j \in DOMAIN q : q[i] = q[j] => i = j

\* the list of a stream that closed no gap
PlainList(S) ==
    /\ S.lastSeq = S.headByteCount
    /\ S.lastSeq <= FileSize
    /\ Gaps(S.ub_list, S.lastSeq)
    /\ \A k \in ToSet(S.arrived) : Covered(S, k)
    /\ Distinct(S.arrived)

\* its bytes
PlainBytes(S) ==
    /\ \A p \in 0 .. (S.lastSeq - 1) : mem[S.head][p] = p
    /\ \A k \in ToSet(S.arrived) : \A p \in Start(k) .. (Start(k) + Length(k) - 1) :
          Placed(S.head, p)

\* its file
PlainFile(S) ==
    /\ S.headSeq = 0
    /\ S.finals = 0 => S.file = << >>
    /\ S.finals <= 1 => \A i \in DOMAIN S.file : S.file[i] = i - 1
    /\ \A i \in DOMAIN S.file : S.file[i] # 0 => i > 1 /\ S.file[i] = S.file[i - 1] + 1

PlainInv ==
    \A s \in DOMAIN st : st[s].plain =>
        /\ PlainList(st[s])
        /\ ~crowded => PlainFile(st[s]) /\ (killer.stream # s => PlainBytes(st[s]))

Inv == BaseInv /\ OwnInv /\ PlainInv

-----------------------------------------------------------------------------
(* Sizes, packets and nodes.                                               *)

\* FileAssumption, for use in proofs.
LEMMA Sizes ==
    /\ Nodes \subseteq Nat \ {Null} /\ Null \notin Nodes /\ Null \notin Streams
    /\ NodeSize \in Nat \ {0} /\ MaxNodes \in Nat \ {0}
    /\ PacketSize \in 1 .. NodeSize /\ FileSize \in Nat
    /\ MaxArrivals \in Nat /\ MaxLives \in Nat /\ MaxPool \in Nat
  BY FileAssumption

\* Everything in a file, and a window behind it, fits into half of SeqSpace.
LEMMA FileFits == 2 * FileSize < SeqSpace /\ SeqSpace \in Nat
<1>1. MaxNodes * NodeSize \in Nat \ {0}
  BY Sizes
<1> QED
  BY <1>1, FileAssumption, SeqSpaceAssumption

\* A packet is not empty, not longer than PacketSize, and inside the file.
LEMMA PacketFits ==
    ASSUME NEW k \in PacketIds
    PROVE  /\ k \in Nat /\ Start(k) \in Nat
           /\ Length(k) \in 1 .. PacketSize
           /\ Start(k) + Length(k) <= FileSize
<1>1. k \in Nat /\ k * PacketSize < FileSize
  BY Sizes DEF PacketIds
<1>2. k * PacketSize \in Nat
  BY <1>1, Sizes
<1> DEFINE a == k * PacketSize
<1> HIDE DEF a
<1>3. a \in Nat /\ a < FileSize
  BY <1>1, <1>2 DEF a
<1>4. Length(k) = Min({PacketSize, FileSize - a}) /\ Start(k) = a
  BY DEF Length, Start, a
<1>5. Length(k) = IF PacketSize <= FileSize - a THEN PacketSize ELSE FileSize - a
  BY <1>3, <1>4, Sizes, MinOfTwo
<1> QED
  BY <1>1, <1>3, <1>4, <1>5, Sizes

\* Packets do not overlap.
LEMMA PacketsApart ==
    ASSUME NEW k \in PacketIds, NEW m \in PacketIds, Start(k) < Start(m)
    PROVE  Start(k) + Length(k) <= Start(m)
<1>1. k \in Nat /\ m \in Nat /\ PacketSize \in Nat
  BY PacketFits, Sizes
<1>2. k < m
  <2> SUFFICES ASSUME m <= k PROVE FALSE
    BY <1>1
  <2>1. m * PacketSize <= k * PacketSize
    BY <1>1
  <2>2. m * PacketSize \in Nat /\ k * PacketSize \in Nat
    BY <1>1
  <2> QED
    BY <2>1, <2>2 DEF Start
<1>3. (k + 1) * PacketSize <= m * PacketSize
  BY <1>1, <1>2
<1>4. (k + 1) * PacketSize = k * PacketSize + PacketSize
  BY <1>1
<1>5. Start(k) + PacketSize <= Start(m)
  BY <1>3, <1>4 DEF Start
<1>6. Start(k) \in Nat /\ Start(m) \in Nat /\ Length(k) \in 1 .. PacketSize
  BY PacketFits
<1> QED
  BY <1>5, <1>6, Sizes

\* The block of a packet: no sequence number wraps round.
LEMMA BlockFits ==
    ASSUME NEW k \in PacketIds
    PROVE  /\ BlockOf(k) = [head |-> Start(k), tail |-> Start(k) + Length(k)]
           /\ BlockOf(k) \in Blocks
<1>1. Start(k) \in Nat /\ Length(k) \in Nat /\ Start(k) + Length(k) <= FileSize
  BY PacketFits, Sizes
<1>2. Start(k) + Length(k) < SeqSpace
  BY <1>1, FileFits, Sizes, SeqSpaceAssumption
<1>3. (Start(k) + Length(k)) % SeqSpace = Start(k) + Length(k)
  BY <1>1, <1>2, SeqSpaceAssumption
<1> QED
  BY <1>1, <1>3 DEF BlockOf, Plus, Blocks

\* Inside a file After is the order of the numbers.
LEMMA AfterIsGreater ==
    ASSUME NEW a \in 0 .. FileSize, NEW b \in 0 .. FileSize
    PROVE  After(a, b) <=> a > b
<1>1. FileSize \in Nat /\ SeqSpace \in Nat /\ SeqSpace > 2 /\ SeqSpace % 2 = 0 /\ 2 * FileSize < SeqSpace
  BY FileFits, Sizes, SeqSpaceAssumption
<1>2. SeqSpace \div 2 \in Nat /\ 2 * (SeqSpace \div 2) = SeqSpace
  BY <1>1
<1>3. CASE a > b
  <2>1. (a - b) % SeqSpace = a - b
    BY <1>1, <1>3
  <2> QED
    BY <1>1, <1>2, <1>3, <2>1 DEF After, Minus
<1>4. CASE a = b
  BY <1>1, <1>4 DEF After, Minus
<1>5. CASE a < b
  <2>1. (a - b) % SeqSpace = a - b + SeqSpace
    BY <1>1, <1>5
  <2> QED
    BY <1>1, <1>2, <1>5, <2>1 DEF After, Minus
<1> QED
  BY <1>3, <1>4, <1>5

\* new yields a node that was not obtained before.
LEMMA FreshNode ==
    ASSUME Nodes \ heap # {}
    PROVE  Fresh \in Nodes \ heap /\ Fresh # Null
<1>1. Nodes \ heap \in SUBSET Nat
  BY Sizes
<1> QED
  BY <1>1, MinOfNats, Sizes DEF Fresh

\* Max of a set of numbers up to m that is not empty belongs to it.
LEMMA MaxOfRange ==
    ASSUME NEW m \in Nat, NEW S \in SUBSET (0 .. m), S # {}
    PROVE  Max(S) \in S
<1> DEFINE T == {m - x : x \in S}
<1>1. T \in SUBSET Nat /\ T # {}
  <2>1. \A x \in S : m - x \in Nat
    OBVIOUS
  <2> QED
    BY <2>1
<1>2. PICK t \in T : \A y \in T : t <= y
  BY <1>1, MinOfNats
<1>3. PICK x \in S : t = m - x
  OBVIOUS
<1>4. \A y \in S : x >= y
  <2> TAKE y \in S
  <2>1. m - x <= m - y
    BY <1>2, <1>3
  <2> QED
    BY <2>1
<1> QED
  BY <1>4 DEF Max

-----------------------------------------------------------------------------
(* CheckUB.                                                                *)

\* the loop of CheckUB returns at entry i
StopsAt(l, i, b) ==
    \/ After(l[i].head, b.head) \/ After(l[i].tail, b.head) \/ l[i].tail = b.head

\* it returns at entry i and not before
StopsFirst(l, i, b) ==
    i \in 1 .. Len(l) /\ StopsAt(l, i, b) /\ \A j \in 1 .. (i - 1) : ~StopsAt(l, j, b)

\* the ways in which CheckUB accepts a block that does not follow lastSeq
Accepted(l, b, c) ==
    \/ /\ c.msg = "ADDED" /\ Len(l) < MaxUB /\ c.list = Append(l, b)
       /\ \A j \in 1 .. Len(l) : ~StopsAt(l, j, b)
    \/ \E i \in 1 .. Len(l) :
        /\ StopsFirst(l, i, b)
        /\ \/ /\ c.msg = "ADDED" /\ Len(l) < MaxUB /\ c.list = InsertAt(l, i, b)
              /\ After(l[i].head, b.head) /\ After(l[i].head, b.tail)
           \/ /\ c.msg = "EXTENDED"
              /\ c.list = ReplaceAt(l, i, [head |-> b.head, tail |-> l[i].tail])
              /\ After(l[i].head, b.head) /\ l[i].head = b.tail
           \/ /\ c.msg = "EXTENDED" /\ i < Len(l) /\ l[i+1].head = b.tail
              /\ c.list = RemoveAt(ReplaceAt(l, i, [head |-> l[i].head, tail |-> l[i+1].tail]), i + 1)
              /\ ~After(l[i].head, b.head) /\ l[i].tail = b.head
           \/ /\ c.msg = "EXTENDED" /\ (i < Len(l) => l[i+1].head # b.tail)
              /\ c.list = ReplaceAt(l, i, [head |-> l[i].head, tail |-> b.tail])
              /\ ~After(l[i].head, b.head) /\ l[i].tail = b.head

\* What CheckUB may answer.
LEMMA CheckCases ==
    ASSUME NEW S, S.ub_list \in Seq(Blocks), S.lastSeq \in Nat, NEW b \in Blocks
    PROVE  LET l == S.ub_list
               c == CheckUB(S, b)
           IN  \/ /\ c.msg = "ONSEQ" /\ c.list = l /\ b.head = S.lastSeq
                  /\ l = << >> \/ After(l[1].head, b.tail)
               \/ c.msg = "MERGING" /\ c.list = l /\ b.head = S.lastSeq /\ l # << >>
               \/ c.msg \in {"MALICIOUS", "FULL", "OVERLAP"} /\ c.list = l
               \/ b.head # S.lastSeq /\ Accepted(l, b, c)
<1> DEFINE l == S.ub_list
           c == CheckUB(S, b)
           stops == {i \in DOMAIN l : \/ After(l[i].head, b.head)
                                      \/ After(l[i].tail, b.head)
                                      \/ l[i].tail = b.head}
           i == Min(stops)
<1>l. Len(l) \in Nat /\ DOMAIN l = 1 .. Len(l) /\ \A j \in 1 .. Len(l) : l[j] \in Blocks
  BY LenProperties, ElementOfSeq
<1> USE DEF Message
<1>1. CASE b.head = S.lastSeq
  BY <1>1, <1>l DEF CheckUB
<1>2. CASE b.head # S.lastSeq /\ stops = {}
  <2>1. c = IF Len(l) >= MaxUB \/ TooFar(S, b) THEN Message("FULL", l)
            ELSE Message("ADDED", Append(l, b))
    BY <1>2 DEF CheckUB
  <2>2. \A j \in 1 .. Len(l) : ~StopsAt(l, j, b)
    BY <1>2, <1>l DEF StopsAt
  <2>3. CASE Len(l) >= MaxUB \/ TooFar(S, b)
    BY <2>1, <2>3
  <2>4. CASE ~(Len(l) >= MaxUB \/ TooFar(S, b))
    <3>1. Len(l) < MaxUB
      BY <1>l, <2>4, MaxUBAssumption
    <3>2. c = Message("ADDED", Append(l, b))
      BY <2>1, <2>4
    <3> QED
      BY <1>2, <2>2, <3>1, <3>2 DEF Accepted
  <2> QED
    BY <2>3, <2>4
<1>3. CASE b.head # S.lastSeq /\ stops # {}
  <2>1. i \in stops /\ \A j \in stops : i <= j
    <3>1. stops \in SUBSET Nat
      BY <1>l
    <3> QED
      BY <1>3, <3>1, MinOfNats
  <2> HIDE DEF i
  <2>0. i \in 1 .. Len(l) /\ l[i] \in Blocks
    BY <1>l, <2>1
  <2>2. StopsFirst(l, i, b)
    <3>1. StopsAt(l, i, b)
      BY <2>1 DEF StopsAt
    <3>2. ASSUME NEW j \in 1 .. (i - 1) PROVE ~StopsAt(l, j, b)
      <4>1. j \in DOMAIN l /\ j < i /\ i \in Int /\ j \in Int
        BY <1>l, <2>0
      <4>2. j \notin stops
        <5> HIDE DEF stops
        <5> QED
          BY <2>1, <4>1
      <4> QED
        BY <4>1, <4>2 DEF StopsAt
    <3> QED
      BY <2>0, <3>1, <3>2 DEF StopsFirst
  <2>3. c = IF After(l[i].head, b.head)
            THEN IF After(l[i].head, b.tail)
                 THEN IF Len(l) < MaxUB THEN Message("ADDED", InsertAt(l, i, b))
                      ELSE Message("FULL", l)
                 ELSE IF l[i].head = b.tail
                 THEN Message("EXTENDED", ReplaceAt(l, i, [l[i] EXCEPT !.head = b.head]))
                 ELSE Message("MALICIOUS", l)
            ELSE IF After(l[i].tail, b.head) THEN Message(Inside(l[i], b), l)
            ELSE Behind(S, i, b)
    BY <1>3 DEF CheckUB, i
  <2>4. /\ i \in 1 .. Len(l) /\ l[i] \in Blocks
        /\ [l[i] EXCEPT !.head = b.head] = [head |-> b.head, tail |-> l[i].tail]
        /\ [l[i] EXCEPT !.tail = b.tail] = [head |-> l[i].head, tail |-> b.tail]
        /\ [l[i] EXCEPT !.tail = l[i+1].tail] = [head |-> l[i].head, tail |-> l[i+1].tail]
    <3>1. \A e \in Blocks : \A x :
            /\ [e EXCEPT !.head = x] = [head |-> x, tail |-> e.tail]
            /\ [e EXCEPT !.tail = x] = [head |-> e.head, tail |-> x]
      BY DEF Blocks
    <3> HIDE DEF stops, c, l
    <3> QED
      BY <2>0, <3>1
  <2> HIDE DEF i, stops, c, l
  <2>5. CASE After(l[i].head, b.head)
    <3>1. CASE After(l[i].head, b.tail) /\ Len(l) < MaxUB
      <4>1. c.msg = "ADDED" /\ c.list = InsertAt(l, i, b)
        BY <2>3, <2>5, <3>1
      <4> QED
        BY <1>3, <2>2, <2>4, <2>5, <3>1, <4>1 DEF Accepted, l, c
    <3>2. CASE After(l[i].head, b.tail) /\ ~(Len(l) < MaxUB)
      BY <2>3, <2>5, <3>2 DEF l, c
    <3>3. CASE ~After(l[i].head, b.tail) /\ l[i].head = b.tail
      <4>1. c.msg = "EXTENDED" /\ c.list = ReplaceAt(l, i, [head |-> b.head, tail |-> l[i].tail])
        BY <2>3, <2>4, <2>5, <3>3
      <4> QED
        BY <1>3, <2>2, <2>4, <2>5, <3>3, <4>1 DEF Accepted, l, c
    <3>4. CASE ~After(l[i].head, b.tail) /\ l[i].head # b.tail
      BY <2>3, <2>5, <3>4 DEF l, c
    <3> QED
      BY <3>1, <3>2, <3>3, <3>4
  <2>6. CASE ~After(l[i].head, b.head) /\ After(l[i].tail, b.head)
    BY <2>3, <2>6 DEF Inside, l, c
  <2>7. CASE ~After(l[i].head, b.head) /\ ~After(l[i].tail, b.head)
    <3>1. l[i].tail = b.head
      BY <2>2, <2>7 DEF StopsFirst, StopsAt
    <3>2. c = Behind(S, i, b)
      BY <2>3, <2>7
    <3>3. CASE i < Len(l) /\ l[i+1].head = b.tail
      <4>1. c.msg = "EXTENDED"
            /\ c.list = RemoveAt(ReplaceAt(l, i, [head |-> l[i].head, tail |-> l[i+1].tail]), i + 1)
        BY <2>4, <3>2, <3>3 DEF Behind, l
      <4> QED
        BY <1>3, <2>2, <2>4, <2>7, <3>1, <3>3, <4>1 DEF Accepted, l, c
    <3>4. CASE ~(i < Len(l) /\ l[i+1].head = b.tail) /\ TooFar(S, b)
      BY <3>2, <3>4 DEF Behind, l, c
    <3>5. CASE ~(i < Len(l) /\ l[i+1].head = b.tail) /\ ~TooFar(S, b)
      <4>1. c.msg = "EXTENDED" /\ c.list = ReplaceAt(l, i, [head |-> l[i].head, tail |-> b.tail])
        BY <2>4, <3>2, <3>5 DEF Behind, l
      <4> QED
        BY <1>3, <2>2, <2>4, <2>7, <3>1, <3>5, <4>1 DEF Accepted, l, c
    <3> QED
      BY <3>3, <3>4, <3>5
  <2> QED
    BY <2>5, <2>6, <2>7
<1> QED
  BY <1>1, <1>2, <1>3

\* The list remains a list of blocks within its limit.
LEMMA CheckKeepsList ==
    ASSUME NEW S, S.ub_list \in Seq(Blocks), S.lastSeq \in Nat, Len(S.ub_list) <= MaxUB,
           NEW b \in Blocks
    PROVE  CheckUB(S, b).list \in Seq(Blocks) /\ Len(CheckUB(S, b).list) <= MaxUB
<1> DEFINE l == S.ub_list
           c == CheckUB(S, b)
<1>1. c.list = l \/ Accepted(l, b, c)
  BY CheckCases
<1> HIDE DEF c
<1>l. Len(l) \in Nat /\ DOMAIN l = 1 .. Len(l) /\ \A j \in 1 .. Len(l) : l[j] \in Blocks
  BY LenProperties, ElementOfSeq
<1> HIDE DEF l
<1>k. l \in Seq(Blocks) /\ Len(l) <= MaxUB
  BY DEF l
<1>j. \A x, y \in Blocks : [head |-> x.head, tail |-> y.tail] \in Blocks
  BY DEF Blocks
<1>2. CASE c.list = l
  BY <1>2, <1>k DEF c
<1>3. CASE Len(l) < MaxUB /\ c.list = Append(l, b)
  <2>1. Append(l, b) \in Seq(Blocks) /\ Len(Append(l, b)) = Len(l) + 1
    BY <1>k, AppendProperties
  <2> QED
    BY <1>3, <1>l, <2>1, MaxUBAssumption DEF c
<1>4. ASSUME NEW i \in 1 .. Len(l), Len(l) < MaxUB /\ c.list = InsertAt(l, i, b)
      PROVE  c.list \in Seq(Blocks) /\ Len(c.list) <= MaxUB
  <2>1. InsertAt(l, i, b) \in Seq(Blocks) /\ Len(InsertAt(l, i, b)) = Len(l) + 1
    BY <1>k, InsertedAt
  <2> QED
    BY <1>4, <1>l, <2>1, MaxUBAssumption
<1>5. ASSUME NEW i \in 1 .. Len(l), NEW e \in Blocks
      PROVE  ReplaceAt(l, i, e) \in Seq(Blocks) /\ Len(ReplaceAt(l, i, e)) = Len(l)
  BY <1>k, ExceptSeq DEF ReplaceAt
<1>6. ASSUME NEW i \in 1 .. Len(l), i < Len(l),
             c.list = RemoveAt(ReplaceAt(l, i, [head |-> l[i].head, tail |-> l[i+1].tail]), i + 1)
      PROVE  c.list \in Seq(Blocks) /\ Len(c.list) <= MaxUB
  <2> DEFINE r == ReplaceAt(l, i, [head |-> l[i].head, tail |-> l[i+1].tail])
  <2>1. [head |-> l[i].head, tail |-> l[i+1].tail] \in Blocks
    BY <1>6, <1>l, <1>j
  <2>2. r \in Seq(Blocks) /\ Len(r) = Len(l)
    BY <1>5, <2>1
  <2> HIDE DEF r
  <2>3. i + 1 \in 1 .. Len(r)
    BY <1>6, <1>l, <2>2
  <2>4. RemoveAt(r, i + 1) \in Seq(Blocks) /\ Len(RemoveAt(r, i + 1)) = Len(r) - 1
    BY <2>2, <2>3, RemovedAt
  <2>5. c.list = RemoveAt(r, i + 1)
    BY <1>6 DEF r
  <2> QED
    BY <1>l, <1>k, <2>2, <2>4, <2>5, MaxUBAssumption
<1>7. ASSUME NEW i \in 1 .. Len(l),
             \/ c.list = ReplaceAt(l, i, [head |-> b.head, tail |-> l[i].tail])
             \/ c.list = ReplaceAt(l, i, [head |-> l[i].head, tail |-> b.tail])
      PROVE  c.list \in Seq(Blocks) /\ Len(c.list) <= MaxUB
  <2>1. /\ [head |-> b.head, tail |-> l[i].tail] \in Blocks
        /\ [head |-> l[i].head, tail |-> b.tail] \in Blocks
    BY <1>l, <1>j
  <2> QED
    BY <1>7, <1>5, <1>k, <2>1
<1> QED
  BY <1>1, <1>2, <1>3, <1>4, <1>6, <1>7 DEF Accepted, c

-----------------------------------------------------------------------------
(* The list of a stream that closed no gap.                                *)

\* A packet that was not taken yet can be added to those that were.
LEMMA DistinctAppend ==
    ASSUME NEW q \in Seq(PacketIds), Distinct(q), NEW k \in PacketIds, k \notin ToSet(q)
    PROVE  Distinct(Append(q, k)) /\ ToSet(Append(q, k)) = ToSet(q) \cup {k}
<1>1. Len(q) \in Nat /\ DOMAIN q = 1 .. Len(q)
  BY LenProperties
<1>2. /\ DOMAIN Append(q, k) = 1 .. (Len(q) + 1)
      /\ \A i \in 1 .. Len(q) : Append(q, k)[i] = q[i]
      /\ Append(q, k)[Len(q) + 1] = k
  BY AppendProperties, LenProperties
<1>3. \A i \in 1 .. (Len(q) + 1) : i \in 1 .. Len(q) \/ i = Len(q) + 1
  BY <1>1
<1>4. Len(q) + 1 \in 1 .. (Len(q) + 1) /\ 1 .. Len(q) \subseteq 1 .. (Len(q) + 1)
  BY <1>1
<1>5. Distinct(Append(q, k))
  <2> SUFFICES ASSUME NEW i \in 1 .. (Len(q) + 1), NEW j \in 1 .. (Len(q) + 1),
                      Append(q, k)[i] = Append(q, k)[j]
               PROVE  i = j
    BY <1>2 DEF Distinct
  <2>1. \A x \in 1 .. Len(q) : q[x] # k
    BY <1>1 DEF ToSet
  <2> QED
    BY <1>1, <1>2, <1>3, <2>1 DEF Distinct
<1>6. ToSet(Append(q, k)) = ToSet(q) \cup {k}
  BY <1>1, <1>2, <1>3, <1>4 DEF ToSet
<1> QED
  BY <1>5, <1>6

\* the numbers of a list with gaps
LEMMA GapNumbers ==
    ASSUME NEW last \in Nat, NEW l \in Seq(Blocks), Gaps(l, last), NEW k \in PacketIds
    PROVE  /\ Len(l) \in Nat
           /\ Start(k) \in 0 .. FileSize /\ Start(k) + Length(k) \in 0 .. FileSize
           /\ Start(k) < Start(k) + Length(k)
           /\ \A i \in 1 .. Len(l) : l[i].head \in 0 .. FileSize /\ l[i].tail \in 0 .. FileSize
           /\ \A i \in 1 .. Len(l) : StopsAt(l, i, BlockOf(k)) <=> l[i].tail >= Start(k)
<1>1. Len(l) \in Nat /\ \A j \in 1 .. Len(l) : l[j] \in Blocks
  BY LenProperties, ElementOfSeq
<1>2. /\ Start(k) \in 0 .. FileSize /\ Start(k) + Length(k) \in 0 .. FileSize
      /\ Start(k) < Start(k) + Length(k)
  BY PacketFits, Sizes
<1>3. \A i \in 1 .. Len(l) : l[i].head \in 0 .. FileSize /\ l[i].tail \in 0 .. FileSize
  BY <1>1, Sizes DEF Gaps, Blocks
<1>4. \A i \in 1 .. Len(l) : l[i].head < l[i].tail
  BY DEF Gaps
<1>5. \A i \in 1 .. Len(l) : /\ After(l[i].head, Start(k)) <=> l[i].head > Start(k)
                             /\ After(l[i].tail, Start(k)) <=> l[i].tail > Start(k)
  BY <1>2, <1>3, AfterIsGreater
<1>6. BlockOf(k).head = Start(k)
  BY DEF BlockOf
<1>7. ASSUME NEW i \in 1 .. Len(l)
      PROVE  StopsAt(l, i, BlockOf(k)) <=> l[i].tail >= Start(k)
  BY <1>2, <1>3, <1>4, <1>5, <1>6, Sizes DEF StopsAt
<1> QED
  BY <1>1, <1>2, <1>3, <1>7

\* What an accepted block needs to become part of a list n.
Joins(l, k, n, last) ==
    /\ n \in Seq(Blocks)
    /\ Gaps(n, last)
    /\ Waits(n, k)
    /\ \A i \in 1 .. Len(l) : \E j \in 1 .. Len(n) :
          n[j].head <= l[i].head /\ l[i].tail <= n[j].tail
    /\ ~Waits(l, k)

\* the block goes behind the last entry
LEMMA JoinsAppend ==
    ASSUME NEW last \in Nat, NEW l \in Seq(Blocks), Gaps(l, last), NEW k \in PacketIds,
           last < Start(k), \A j \in 1 .. Len(l) : ~StopsAt(l, j, BlockOf(k))
    PROVE  Joins(l, k, Append(l, BlockOf(k)), last)
<1> DEFINE b == BlockOf(k)
           n == Append(l, b)
           m == Len(l)
<1>1. /\ m \in Nat
      /\ Start(k) \in 0 .. FileSize /\ Start(k) + Length(k) \in 0 .. FileSize
      /\ Start(k) < Start(k) + Length(k)
      /\ \A i \in 1 .. m : l[i].head \in 0 .. FileSize /\ l[i].tail \in 0 .. FileSize
      /\ \A i \in 1 .. m : l[i].tail < Start(k)
  BY GapNumbers
<1>2. b \in Blocks /\ b.head = Start(k) /\ b.tail = Start(k) + Length(k)
  BY BlockFits
<1>3. /\ n \in Seq(Blocks) /\ Len(n) = m + 1
      /\ \A i \in 1 .. m : n[i] = l[i]
      /\ n[m + 1] = b
  BY <1>2, AppendProperties
<1> HIDE DEF b, n, m
<1>4. \A i \in 1 .. (m + 1) : i \in 1 .. m \/ i = m + 1
  BY <1>1
<1>5. m + 1 \in 1 .. (m + 1) /\ \A i \in 1 .. m : i \in 1 .. (m + 1)
  BY <1>1
<1>g. /\ \A i \in 1 .. m :
          /\ \E x \in PacketIds : l[i].head = Start(x)
          /\ last < l[i].head /\ l[i].head < l[i].tail /\ l[i].tail <= FileSize
      /\ \A i, j \in 1 .. m : i < j => l[i].tail < l[j].head
  BY DEF Gaps, m
<1>6. \A i \in 1 .. (m + 1) :
        /\ \E x \in PacketIds : n[i].head = Start(x)
        /\ last < n[i].head /\ n[i].head < n[i].tail /\ n[i].tail <= FileSize
  <2>1. \A i \in 1 .. m :
          /\ \E x \in PacketIds : n[i].head = Start(x)
          /\ last < n[i].head /\ n[i].head < n[i].tail /\ n[i].tail <= FileSize
    BY <1>g, <1>3
  <2>2. /\ \E x \in PacketIds : n[m + 1].head = Start(x)
        /\ last < n[m + 1].head /\ n[m + 1].head < n[m + 1].tail /\ n[m + 1].tail <= FileSize
    BY <1>1, <1>2, <1>3
  <2> QED
    BY <1>4, <2>1, <2>2
<1>7. ASSUME NEW i \in 1 .. (m + 1), NEW j \in 1 .. (m + 1), i < j
      PROVE  n[i].tail < n[j].head
  <2>1. i \in 1 .. m
    BY <1>1, <1>7
  <2> QED
    BY <1>g, <1>1, <1>2, <1>3, <1>4, <1>7, <2>1
<1>8. Gaps(n, last)
  BY <1>3, <1>6, <1>7 DEF Gaps
<1>9. Waits(n, k)
  BY <1>1, <1>2, <1>3, <1>5 DEF Waits
<1>10. ~Waits(l, k)
  BY <1>1 DEF Waits, m
<1>11. \A i \in 1 .. m : n[i].head <= l[i].head /\ l[i].tail <= n[i].tail
  BY <1>1, <1>3, Sizes
<1> QED
  BY <1>3, <1>5, <1>8, <1>9, <1>10, <1>11 DEF Joins, b, n, m

\* the block goes before entry i
LEMMA JoinsInsert ==
    ASSUME NEW last \in Nat, NEW l \in Seq(Blocks), Gaps(l, last), NEW k \in PacketIds,
           last < Start(k), NEW i \in 1 .. Len(l), StopsFirst(l, i, BlockOf(k)),
           After(l[i].head, BlockOf(k).head), After(l[i].head, BlockOf(k).tail)
    PROVE  Joins(l, k, InsertAt(l, i, BlockOf(k)), last)
<1> DEFINE b == BlockOf(k)
           n == InsertAt(l, i, b)
           m == Len(l)
<1>1. /\ m \in Nat
      /\ Start(k) \in 0 .. FileSize /\ Start(k) + Length(k) \in 0 .. FileSize
      /\ Start(k) < Start(k) + Length(k)
      /\ \A x \in 1 .. m : l[x].head \in 0 .. FileSize /\ l[x].tail \in 0 .. FileSize
      /\ \A x \in 1 .. m : StopsAt(l, x, b) <=> l[x].tail >= Start(k)
  BY GapNumbers
<1>2. b \in Blocks /\ b.head = Start(k) /\ b.tail = Start(k) + Length(k)
  BY BlockFits
<1>3. /\ n \in Seq(Blocks) /\ Len(n) = m + 1
      /\ \A x \in 1 .. (m + 1) : n[x] = IF x < i THEN l[x] ELSE IF x = i THEN b ELSE l[x - 1]
  BY <1>2, InsertedAt
<1>t. l[i].head > Start(k) /\ l[i].head > Start(k) + Length(k)
  BY <1>1, <1>2, AfterIsGreater
<1>s. \A x \in 1 .. (i - 1) : x \in 1 .. m /\ l[x].tail < Start(k)
  <2> TAKE x \in 1 .. (i - 1)
  <2>1. x \in 1 .. m
    BY <1>1
  <2>2. ~StopsAt(l, x, b)
    BY DEF StopsFirst
  <2> QED
    BY <1>1, <2>1, <2>2, Sizes
<1>g. /\ \A x \in 1 .. m :
          /\ \E y \in PacketIds : l[x].head = Start(y)
          /\ last < l[x].head /\ l[x].head < l[x].tail /\ l[x].tail <= FileSize
      /\ \A x, y \in 1 .. m : x < y => l[x].tail < l[y].head
  BY DEF Gaps, m
<1>i. i \in 1 .. m
  BY DEF m
<1> HIDE DEF b, n, m
<1>4. \A x \in 1 .. (m + 1) : \/ x \in 1 .. (i - 1) /\ n[x] = l[x]
                              \/ x = i /\ n[x] = b
                              \/ x > i /\ x - 1 \in i .. m /\ x - 1 \in 1 .. m /\ n[x] = l[x - 1]
  BY <1>1, <1>3, <1>i
<1>5. \A x \in i .. m : x \in 1 .. m /\ l[x].head > Start(k) + Length(k)
  <2> TAKE x \in i .. m
  <2>1. x \in 1 .. m
    BY <1>1, <1>i
  <2>2. CASE x = i
    BY <2>1, <2>2, <1>t
  <2>3. CASE x > i
    <3>1. l[i].tail < l[x].head /\ l[i].head < l[i].tail
      BY <1>g, <1>i, <2>1, <2>3
    <3> QED
      BY <1>1, <1>i, <1>t, <2>1, <3>1, Sizes
  <2> QED
    BY <1>1, <1>i, <2>2, <2>3
<1>6. \A x \in 1 .. (m + 1) :
        /\ \E y \in PacketIds : n[x].head = Start(y)
        /\ last < n[x].head /\ n[x].head < n[x].tail /\ n[x].tail <= FileSize
  <2> TAKE x \in 1 .. (m + 1)
  <2>1. CASE x \in 1 .. (i - 1) /\ n[x] = l[x]
    BY <2>1, <1>g, <1>s
  <2>2. CASE n[x] = b
    BY <1>1, <1>2, <2>2
  <2>3. CASE x - 1 \in 1 .. m /\ n[x] = l[x - 1]
    BY <2>3, <1>g
  <2> QED
    BY <1>4, <2>1, <2>2, <2>3
<1>7. ASSUME NEW x \in 1 .. (m + 1), NEW y \in 1 .. (m + 1), x < y
      PROVE  n[x].tail < n[y].head
  <2>1. CASE y \in 1 .. (i - 1) /\ n[y] = l[y]
    <3>1. x \in 1 .. (i - 1) /\ n[x] = l[x]
      BY <1>1, <1>i, <1>4, <1>7, <2>1
    <3> QED
      BY <1>7, <2>1, <3>1, <1>g, <1>s
  <2>2. CASE y = i /\ n[y] = b
    <3>1. x \in 1 .. (i - 1) /\ n[x] = l[x]
      BY <1>1, <1>i, <1>4, <1>7, <2>2
    <3> QED
      BY <2>2, <3>1, <1>2, <1>s
  <2>3. CASE y > i /\ y - 1 \in i .. m /\ y - 1 \in 1 .. m /\ n[y] = l[y - 1]
    <3>1. CASE x \in 1 .. (i - 1) /\ n[x] = l[x]
      <4>1. x \in 1 .. m /\ x < y - 1
        BY <1>s, <1>i, <1>1, <2>3, <3>1
      <4> QED
        BY <4>1, <2>3, <3>1, <1>g
    <3>2. CASE x = i /\ n[x] = b
      BY <1>1, <1>2, <1>5, <2>3, <3>2
    <3>3. CASE x - 1 \in 1 .. m /\ n[x] = l[x - 1]
      <4>1. x - 1 < y - 1
        BY <1>1, <1>7
      <4> QED
        BY <4>1, <2>3, <3>3, <1>g
    <3> QED
      BY <1>4, <3>1, <3>2, <3>3
  <2> QED
    BY <1>4, <2>1, <2>2, <2>3
<1>8. Gaps(n, last)
  BY <1>3, <1>6, <1>7 DEF Gaps
<1>9. Waits(n, k)
  <2>1. i \in 1 .. (m + 1) /\ n[i] = b
    BY <1>1, <1>3, <1>i
  <2> QED
    BY <1>1, <1>2, <1>3, <2>1, Sizes DEF Waits
<1>10. ~Waits(l, k)
  <2> SUFFICES ASSUME NEW x \in 1 .. m,
                      l[x].head <= Start(k), Start(k) + Length(k) <= l[x].tail
               PROVE  FALSE
    BY DEF Waits, m
  <2>1. x \in 1 .. (i - 1) \/ x \in i .. m
    BY <1>1, <1>i
  <2> QED
    BY <1>1, <1>s, <1>5, <2>1, Sizes
<1>r. \A x \in 1 .. m : l[x].head <= l[x].head /\ l[x].tail <= l[x].tail
  BY <1>1, Sizes
<1>11. ASSUME NEW x \in 1 .. m
       PROVE  \E y \in 1 .. (m + 1) : n[y].head <= l[x].head /\ l[x].tail <= n[y].tail
  <2>1. CASE x < i
    <3>1. x \in 1 .. (m + 1)
      BY <1>1
    <3>2. n[x] = l[x]
      BY <1>3, <2>1, <3>1
    <3> QED
      BY <1>r, <3>1, <3>2
  <2>2. CASE x >= i
    <3>1. x + 1 \in 1 .. (m + 1) /\ n[x + 1] = l[x]
      BY <1>1, <1>3, <1>i, <2>2
    <3> QED
      BY <1>r, <3>1
  <2> QED
    BY <1>1, <1>i, <2>1, <2>2
<1> QED
  BY <1>3, <1>8, <1>9, <1>10, <1>11 DEF Joins, b, n, m

\* the block ends where entry i begins
LEMMA JoinsHead ==
    ASSUME NEW last \in Nat, NEW l \in Seq(Blocks), Gaps(l, last), NEW k \in PacketIds,
           last < Start(k), NEW i \in 1 .. Len(l), StopsFirst(l, i, BlockOf(k)),
           l[i].head = BlockOf(k).tail
    PROVE  Joins(l, k, ReplaceAt(l, i, [head |-> BlockOf(k).head, tail |-> l[i].tail]), last)
<1> DEFINE b == BlockOf(k)
           e == [head |-> b.head, tail |-> l[i].tail]
           n == ReplaceAt(l, i, e)
           m == Len(l)
<1>1. /\ m \in Nat
      /\ Start(k) \in 0 .. FileSize /\ Start(k) + Length(k) \in 0 .. FileSize
      /\ Start(k) < Start(k) + Length(k)
      /\ \A x \in 1 .. m : l[x].head \in 0 .. FileSize /\ l[x].tail \in 0 .. FileSize
      /\ \A x \in 1 .. m : StopsAt(l, x, b) <=> l[x].tail >= Start(k)
  BY GapNumbers
<1>2. b \in Blocks /\ b.head = Start(k) /\ b.tail = Start(k) + Length(k)
  BY BlockFits
<1>e. e \in Blocks /\ e.head = Start(k) /\ e.tail = l[i].tail /\ l[i].head = Start(k) + Length(k)
  BY <1>1, <1>2, Sizes DEF Blocks
<1>3. /\ n \in Seq(Blocks) /\ Len(n) = m
      /\ \A x \in 1 .. m : n[x] = IF x = i THEN e ELSE l[x]
  <2> HIDE DEF e
  <2> QED
    BY <1>e, ExceptSeq DEF ReplaceAt
<1>s. \A x \in 1 .. m : x < i => l[x].tail < Start(k)
  <2> SUFFICES ASSUME NEW x \in 1 .. m, x < i PROVE l[x].tail < Start(k)
    OBVIOUS
  <2>1. x \in 1 .. (i - 1)
    BY <1>1
  <2>2. ~StopsAt(l, x, b)
    BY <2>1 DEF StopsFirst
  <2> QED
    BY <1>1, <2>2, Sizes
<1>g. /\ \A x \in 1 .. m :
          /\ \E y \in PacketIds : l[x].head = Start(y)
          /\ last < l[x].head /\ l[x].head < l[x].tail /\ l[x].tail <= FileSize
      /\ \A x, y \in 1 .. m : x < y => l[x].tail < l[y].head
  BY DEF Gaps, m
<1>i. i \in 1 .. m
  BY DEF m
<1> HIDE DEF b, n, m, e
<1>6. \A x \in 1 .. m :
        /\ \E y \in PacketIds : n[x].head = Start(y)
        /\ last < n[x].head /\ n[x].head < n[x].tail /\ n[x].tail <= FileSize
  <2> TAKE x \in 1 .. m
  <2>1. CASE x = i
    <3>1. n[x] = e
      BY <1>3, <2>1
    <3>2. Start(k) < l[i].tail /\ l[i].tail <= FileSize
      BY <1>1, <1>e, <1>g, <1>i, Sizes
    <3> QED
      BY <1>e, <3>1, <3>2
  <2>2. CASE x # i
    BY <1>3, <1>g, <2>2
  <2> QED
    BY <2>1, <2>2
<1>7. ASSUME NEW x \in 1 .. m, NEW y \in 1 .. m, x < y
      PROVE  n[x].tail < n[y].head
  <2>1. n[x].tail = l[x].tail
    BY <1>3, <1>e
  <2>2. CASE y = i
    <3>1. n[y].head = Start(k)
      BY <1>3, <1>e, <2>2
    <3>2. l[x].tail < Start(k)
      BY <1>s, <1>7, <2>2
    <3> QED
      BY <2>1, <3>1, <3>2
  <2>3. CASE y # i
    <3>1. n[y] = l[y]
      BY <1>3, <2>3
    <3> QED
      BY <1>g, <1>7, <2>1, <3>1
  <2> QED
    BY <2>2, <2>3
<1>8. Gaps(n, last)
  BY <1>3, <1>6, <1>7 DEF Gaps
<1>9. Waits(n, k)
  <2>1. n[i] = e
    BY <1>3, <1>i
  <2>2. Start(k) <= Start(k) /\ Start(k) + Length(k) <= l[i].tail
    BY <1>1, <1>e, <1>g, <1>i, Sizes
  <2> QED
    BY <1>3, <1>e, <1>i, <2>1, <2>2 DEF Waits
<1>10. ~Waits(l, k)
  <2> SUFFICES ASSUME NEW x \in 1 .. m,
                      l[x].head <= Start(k), Start(k) + Length(k) <= l[x].tail
               PROVE  FALSE
    BY DEF Waits, m
  <2>1. CASE x < i
    BY <1>1, <1>s, <2>1, Sizes
  <2>2. CASE x = i
    BY <1>1, <1>e, <2>2, Sizes
  <2>3. CASE x > i
    <3>1. l[i].tail < l[x].head /\ l[i].head < l[i].tail
      BY <1>g, <1>i, <2>3
    <3> QED
      BY <1>1, <1>e, <1>i, <3>1, Sizes
  <2> QED
    BY <1>1, <1>i, <2>1, <2>2, <2>3
<1>11. \A x \in 1 .. m : n[x].head <= l[x].head /\ l[x].tail <= n[x].tail
  BY <1>1, <1>3, <1>e, Sizes
<1> QED
  BY <1>3, <1>8, <1>9, <1>10, <1>11 DEF Joins, b, n, m, e

\* What lies behind entry i begins a packet later at least.
LEMMA NextEntry ==
    ASSUME NEW last \in Nat, NEW l \in Seq(Blocks), Gaps(l, last), NEW k \in PacketIds,
           NEW i \in 1 .. Len(l), l[i].tail = Start(k), NEW x \in 1 .. Len(l), x > i
    PROVE  Start(k) + Length(k) <= l[x].head
<1>1. l[i].tail < l[x].head
  BY DEF Gaps
<1>2. PICK y \in PacketIds : l[x].head = Start(y)
  BY DEF Gaps
<1> QED
  BY <1>1, <1>2, PacketsApart

\* the block begins where entry i ends
LEMMA JoinsTail ==
    ASSUME NEW last \in Nat, NEW l \in Seq(Blocks), Gaps(l, last), NEW k \in PacketIds,
           NEW i \in 1 .. Len(l), l[i].tail = BlockOf(k).head,
           i < Len(l) => l[i+1].head # BlockOf(k).tail
    PROVE  Joins(l, k, ReplaceAt(l, i, [head |-> l[i].head, tail |-> BlockOf(k).tail]), last)
<1> DEFINE b == BlockOf(k)
           e == [head |-> l[i].head, tail |-> b.tail]
           n == ReplaceAt(l, i, e)
           m == Len(l)
<1>1. /\ m \in Nat
      /\ Start(k) \in 0 .. FileSize /\ Start(k) + Length(k) \in 0 .. FileSize
      /\ Start(k) < Start(k) + Length(k)
      /\ \A x \in 1 .. m : l[x].head \in 0 .. FileSize /\ l[x].tail \in 0 .. FileSize
  BY GapNumbers
<1>2. b \in Blocks /\ b.head = Start(k) /\ b.tail = Start(k) + Length(k)
  BY BlockFits
<1>e. e \in Blocks /\ e.head = l[i].head /\ e.tail = Start(k) + Length(k) /\ l[i].tail = Start(k)
  BY <1>1, <1>2, Sizes DEF Blocks
<1>3. /\ n \in Seq(Blocks) /\ Len(n) = m
      /\ \A x \in 1 .. m : n[x] = IF x = i THEN e ELSE l[x]
  <2> HIDE DEF e
  <2> QED
    BY <1>e, ExceptSeq DEF ReplaceAt
<1>g. /\ \A x \in 1 .. m :
          /\ \E y \in PacketIds : l[x].head = Start(y)
          /\ last < l[x].head /\ l[x].head < l[x].tail /\ l[x].tail <= FileSize
      /\ \A x, y \in 1 .. m : x < y => l[x].tail < l[y].head
  BY DEF Gaps, m
<1>i. i \in 1 .. m
  BY DEF m
<1>s. \A x \in 1 .. m : x > i => Start(k) + Length(k) < l[x].head
  <2> SUFFICES ASSUME NEW x \in 1 .. m, x > i PROVE Start(k) + Length(k) < l[x].head
    OBVIOUS
  <2>1. CASE x = i + 1
    <3>1. Start(k) + Length(k) <= l[x].head
      BY <1>e, NextEntry
    <3>2. l[x].head # Start(k) + Length(k)
      BY <1>1, <1>2, <1>i, <2>1
    <3> QED
      BY <1>1, <3>1, <3>2, Sizes
  <2>2. CASE x > i + 1
    <3>1. i + 1 \in 1 .. m /\ i + 1 > i
      BY <1>1, <1>i, <2>2
    <3>2. Start(k) + Length(k) <= l[i + 1].head
      BY <1>e, <3>1, NextEntry DEF m
    <3>3. l[i + 1].head < l[i + 1].tail /\ l[i + 1].tail < l[x].head
      BY <1>g, <2>2, <3>1
    <3> QED
      BY <1>1, <3>1, <3>2, <3>3, Sizes
  <2> QED
    BY <1>1, <1>i, <2>1, <2>2
<1> HIDE DEF b, n, m, e
<1>6. \A x \in 1 .. m :
        /\ \E y \in PacketIds : n[x].head = Start(y)
        /\ last < n[x].head /\ n[x].head < n[x].tail /\ n[x].tail <= FileSize
  <2> TAKE x \in 1 .. m
  <2>1. CASE x = i
    <3>1. n[x] = e
      BY <1>3, <2>1
    <3>2. l[i].head < Start(k) + Length(k) /\ Start(k) + Length(k) <= FileSize
      BY <1>1, <1>e, <1>g, <1>i, Sizes
    <3> QED
      BY <1>e, <1>g, <1>i, <3>1, <3>2
  <2>2. CASE x # i
    BY <1>3, <1>g, <2>2
  <2> QED
    BY <2>1, <2>2
<1>7. ASSUME NEW x \in 1 .. m, NEW y \in 1 .. m, x < y
      PROVE  n[x].tail < n[y].head
  <2>1. n[y].head = l[y].head
    BY <1>3, <1>e
  <2>2. CASE x = i
    <3>1. n[x].tail = Start(k) + Length(k)
      BY <1>3, <1>e, <2>2
    <3>2. Start(k) + Length(k) < l[y].head
      BY <1>s, <1>7, <2>2
    <3> QED
      BY <2>1, <3>1, <3>2
  <2>3. CASE x # i
    <3>1. n[x] = l[x]
      BY <1>3, <2>3
    <3> QED
      BY <1>g, <1>7, <2>1, <3>1
  <2> QED
    BY <2>2, <2>3
<1>8. Gaps(n, last)
  BY <1>3, <1>6, <1>7 DEF Gaps
<1>9. Waits(n, k)
  <2>1. n[i] = e
    BY <1>3, <1>i
  <2>2. l[i].head <= Start(k) /\ Start(k) + Length(k) <= Start(k) + Length(k)
    BY <1>1, <1>e, <1>g, <1>i, Sizes
  <2> QED
    BY <1>3, <1>e, <1>i, <2>1, <2>2 DEF Waits
<1>10. ~Waits(l, k)
  <2> SUFFICES ASSUME NEW x \in 1 .. m,
                      l[x].head <= Start(k), Start(k) + Length(k) <= l[x].tail
               PROVE  FALSE
    BY DEF Waits, m
  <2>1. CASE x > i
    BY <1>1, <1>s, <2>1, Sizes
  <2>2. CASE x = i
    BY <1>1, <1>e, <2>2, Sizes
  <2>3. CASE x < i
    <3>1. l[x].tail < l[i].head /\ l[i].head < l[i].tail
      BY <1>g, <1>i, <2>3
    <3> QED
      BY <1>1, <1>e, <1>i, <3>1, Sizes
  <2> QED
    BY <1>1, <1>i, <2>1, <2>2, <2>3
<1>11. \A x \in 1 .. m : n[x].head <= l[x].head /\ l[x].tail <= n[x].tail
  BY <1>1, <1>3, <1>e, Sizes
<1> QED
  BY <1>3, <1>8, <1>9, <1>10, <1>11 DEF Joins, b, n, m, e

\* the block closes the gap between entries i and i + 1
LEMMA JoinsBoth ==
    ASSUME NEW last \in Nat, NEW l \in Seq(Blocks), Gaps(l, last), NEW k \in PacketIds,
           NEW i \in 1 .. Len(l), i < Len(l),
           l[i].tail = BlockOf(k).head, l[i+1].head = BlockOf(k).tail
    PROVE  Joins(l, k, RemoveAt(ReplaceAt(l, i, [head |-> l[i].head, tail |-> l[i+1].tail]), i + 1),
                 last)
<1> DEFINE b == BlockOf(k)
           e == [head |-> l[i].head, tail |-> l[i+1].tail]
           r == ReplaceAt(l, i, e)
           n == RemoveAt(r, i + 1)
           m == Len(l)
<1>1. /\ m \in Nat
      /\ Start(k) \in 0 .. FileSize /\ Start(k) + Length(k) \in 0 .. FileSize
      /\ Start(k) < Start(k) + Length(k)
      /\ \A x \in 1 .. m : l[x].head \in 0 .. FileSize /\ l[x].tail \in 0 .. FileSize
  BY GapNumbers
<1>2. b \in Blocks /\ b.head = Start(k) /\ b.tail = Start(k) + Length(k)
  BY BlockFits
<1>i. i \in 1 .. m /\ i + 1 \in 1 .. m /\ i \in 1 .. (m - 1)
  BY <1>1
<1>e. /\ e \in Blocks /\ e.head = l[i].head /\ e.tail = l[i+1].tail
      /\ l[i].tail = Start(k) /\ l[i+1].head = Start(k) + Length(k)
  <2>1. l[i].head \in Int /\ l[i+1].tail \in Int
    <3>1. l[i].head \in 0 .. FileSize /\ l[i+1].tail \in 0 .. FileSize
      BY <1>1, <1>i
    <3>2. 0 .. FileSize \subseteq Int
      BY Sizes
    <3> QED
      BY <3>1, <3>2
  <2>2. l[i].tail = Start(k) /\ l[i+1].head = Start(k) + Length(k)
    BY <1>2
  <2> QED
    BY <2>1, <2>2 DEF Blocks
<1>r. /\ r \in Seq(Blocks) /\ Len(r) = m
      /\ \A x \in 1 .. m : r[x] = IF x = i THEN e ELSE l[x]
  <2> HIDE DEF e
  <2> QED
    BY <1>e, ExceptSeq DEF ReplaceAt
<1> HIDE DEF r, e, b
<1>3. /\ n \in Seq(Blocks) /\ Len(n) = m - 1
      /\ \A x \in 1 .. (m - 1) : n[x] = IF x < i + 1 THEN r[x] ELSE r[x + 1]
  <2>1. i + 1 \in 1 .. Len(r)
    BY <1>i, <1>r
  <2>2. /\ n \in Seq(Blocks) /\ Len(n) = Len(r) - 1
        /\ \A x \in 1 .. (Len(r) - 1) : n[x] = IF x < i + 1 THEN r[x] ELSE r[x + 1]
    BY <1>r, <2>1, RemovedAt
  <2> QED
    BY <1>r, <2>2
<1>g. /\ \A x \in 1 .. m :
          /\ \E y \in PacketIds : l[x].head = Start(y)
          /\ last < l[x].head /\ l[x].head < l[x].tail /\ l[x].tail <= FileSize
      /\ \A x, y \in 1 .. m : x < y => l[x].tail < l[y].head
  BY DEF Gaps, m
<1> HIDE DEF n, m
<1>4. ASSUME NEW x \in 1 .. (m - 1)
      PROVE  /\ x < i => x \in 1 .. m /\ n[x] = l[x]
             /\ x = i => n[x] = e
             /\ x > i => x + 1 \in 1 .. m /\ n[x] = l[x + 1]
  <2>1. x \in 1 .. m /\ x + 1 \in 1 .. m
    BY <1>1
  <2>2. CASE x < i
    <3>1. x < i + 1 /\ x # i
      BY <2>2
    <3> QED
      BY <1>3, <1>r, <2>1, <2>2, <3>1
  <2>3. CASE x = i
    <3>1. x < i + 1
      BY <2>3
    <3> QED
      BY <1>3, <1>r, <1>i, <2>3, <3>1
  <2>4. CASE x > i
    <3>1. ~(x < i + 1) /\ x + 1 # i
      BY <2>4
    <3> QED
      BY <1>3, <1>r, <2>1, <2>4, <3>1
  <2> QED
    BY <1>1, <1>i, <2>2, <2>3, <2>4
<1>o. \A x \in 1 .. (m - 1) : x < i \/ x = i \/ x > i
  BY <1>1, <1>i
<1>h. l[i].head < l[i+1].tail /\ l[i].head <= Start(k) /\ Start(k) + Length(k) <= l[i+1].tail
  BY <1>1, <1>e, <1>g, <1>i, Sizes
<1>6. \A x \in 1 .. (m - 1) :
        /\ \E y \in PacketIds : n[x].head = Start(y)
        /\ last < n[x].head /\ n[x].head < n[x].tail /\ n[x].tail <= FileSize
  <2> TAKE x \in 1 .. (m - 1)
  <2>1. CASE x = i
    BY <1>4, <1>e, <1>g, <1>i, <1>h, <2>1
  <2>2. CASE x < i
    BY <1>4, <1>g, <2>2
  <2>3. CASE x > i
    BY <1>4, <1>g, <2>3
  <2> QED
    BY <1>o, <2>1, <2>2, <2>3
<1>7. ASSUME NEW x \in 1 .. (m - 1), NEW y \in 1 .. (m - 1), x < y
      PROVE  n[x].tail < n[y].head
  <2>1. CASE y < i
    <3>1. x < i
      BY <1>7, <2>1, <1>1, <1>i
    <3> QED
      BY <1>4, <1>g, <1>7, <2>1, <3>1
  <2>2. CASE y = i
    <3>1. x < i
      BY <1>7, <2>2
    <3> QED
      BY <1>4, <1>e, <1>g, <1>i, <1>7, <2>2, <3>1
  <2>3. CASE y > i /\ x < i
    <3>1. x < y + 1
      BY <1>1, <1>7
    <3> QED
      BY <1>4, <1>g, <2>3, <3>1
  <2>4. CASE y > i /\ x = i
    <3>1. i + 1 < y + 1
      BY <1>1, <1>i, <2>4
    <3> QED
      BY <1>4, <1>e, <1>g, <1>i, <2>4, <3>1
  <2>5. CASE y > i /\ x > i
    <3>1. x + 1 < y + 1
      BY <1>1, <1>7
    <3> QED
      BY <1>4, <1>g, <2>5, <3>1
  <2> QED
    BY <1>o, <2>1, <2>2, <2>3, <2>4, <2>5
<1>8. Gaps(n, last)
  BY <1>3, <1>6, <1>7 DEF Gaps
<1>9. Waits(n, k)
  <2>1. n[i] = e
    BY <1>4, <1>i
  <2> QED
    BY <1>3, <1>e, <1>i, <1>h, <2>1 DEF Waits
<1>10. ~Waits(l, k)
  <2> SUFFICES ASSUME NEW x \in 1 .. m,
                      l[x].head <= Start(k), Start(k) + Length(k) <= l[x].tail
               PROVE  FALSE
    BY DEF Waits, m
  <2>1. CASE x > i
    <3>1. Start(k) + Length(k) <= l[x].head
      BY <1>e, <2>1, NextEntry DEF m
    <3> QED
      BY <1>1, <3>1, Sizes
  <2>2. CASE x = i
    BY <1>1, <1>e, <2>2, Sizes
  <2>3. CASE x < i
    <3>1. l[x].tail < l[i].head /\ l[i].head < l[i].tail
      BY <1>g, <1>i, <2>3
    <3> QED
      BY <1>1, <1>e, <1>i, <3>1, Sizes
  <2> QED
    BY <1>1, <1>i, <2>1, <2>2, <2>3
<1>q. \A x \in 1 .. m : l[x].head <= l[x].head /\ l[x].tail <= l[x].tail
  BY <1>1, Sizes
<1>11. ASSUME NEW x \in 1 .. m
       PROVE  \E y \in 1 .. (m - 1) : n[y].head <= l[x].head /\ l[x].tail <= n[y].tail
  <2>1. CASE x < i
    <3>1. x \in 1 .. (m - 1)
      BY <1>1, <1>i, <2>1
    <3> QED
      BY <1>4, <1>q, <2>1, <3>1
  <2>2. CASE x = i \/ x = i + 1
    <3>1. n[i] = e
      BY <1>4, <1>i
    <3>2. e.head <= l[x].head /\ l[x].tail <= e.tail
      BY <1>1, <1>e, <1>g, <1>i, <1>h, <2>2, Sizes
    <3> QED
      BY <1>i, <3>1, <3>2
  <2>3. CASE x > i + 1
    <3>1. x - 1 \in 1 .. (m - 1) /\ x - 1 > i /\ (x - 1) + 1 = x
      BY <1>1, <1>i, <2>3
    <3>2. n[x - 1] = l[x]
      BY <1>4, <3>1
    <3> QED
      BY <1>q, <3>1, <3>2
  <2> QED
    BY <1>1, <1>i, <2>1, <2>2, <2>3
<1> QED
  BY <1>3, <1>8, <1>9, <1>10, <1>11 DEF Joins, b, n, m, e, r

\* A block that CheckUB accepts was not there, and its list keeps its form.
LEMMA AcceptedJoins ==
    ASSUME NEW last \in Nat, NEW l \in Seq(Blocks), Gaps(l, last), NEW k \in PacketIds,
           last < Start(k), NEW c, Accepted(l, BlockOf(k), c)
    PROVE  Joins(l, k, c.list, last)
<1> DEFINE b == BlockOf(k)
<1>1. CASE c.list = Append(l, b) /\ \A j \in 1 .. Len(l) : ~StopsAt(l, j, b)
  BY <1>1, JoinsAppend
<1>2. ASSUME NEW i \in 1 .. Len(l), StopsFirst(l, i, b), c.list = InsertAt(l, i, b),
             After(l[i].head, b.head), After(l[i].head, b.tail)
      PROVE  Joins(l, k, c.list, last)
  BY <1>2, JoinsInsert
<1>3. ASSUME NEW i \in 1 .. Len(l), StopsFirst(l, i, b), l[i].head = b.tail,
             c.list = ReplaceAt(l, i, [head |-> b.head, tail |-> l[i].tail])
      PROVE  Joins(l, k, c.list, last)
  BY <1>3, JoinsHead
<1>4. ASSUME NEW i \in 1 .. Len(l), i < Len(l), l[i].tail = b.head, l[i+1].head = b.tail,
             c.list = RemoveAt(ReplaceAt(l, i, [head |-> l[i].head, tail |-> l[i+1].tail]), i + 1)
      PROVE  Joins(l, k, c.list, last)
  BY <1>4, JoinsBoth
<1>5. ASSUME NEW i \in 1 .. Len(l), i < Len(l) => l[i+1].head # b.tail, l[i].tail = b.head,
             c.list = ReplaceAt(l, i, [head |-> l[i].head, tail |-> b.tail])
      PROVE  Joins(l, k, c.list, last)
  BY <1>5, JoinsTail
<1> HIDE DEF b
<1>6. Accepted(l, b, c)
  BY DEF b
<1> QED
  BY <1>1, <1>2, <1>3, <1>4, <1>5, <1>6 DEF Accepted

\* ADDED, EXTENDED: the stream remains plain.
LEMMA ParkedPlain ==
    ASSUME NEW S \in StreamType, PlainList(S), NEW k \in PacketIds,
           ~After(S.lastSeq, Start(k)),
           CheckUB(S, BlockOf(k)).msg \in {"ADDED", "EXTENDED"}
    PROVE  /\ PlainList(Parked(S, k, CheckUB(S, BlockOf(k)).list))
           /\ S.lastSeq <= Start(k)
<1> DEFINE l == S.ub_list
           c == CheckUB(S, BlockOf(k))
           R == Parked(S, k, c.list)
<1>1. l \in Seq(Blocks) /\ S.lastSeq \in Nat /\ S.arrived \in Seq(PacketIds)
  BY DEF StreamType
<1>2. Gaps(l, S.lastSeq) /\ S.lastSeq <= FileSize /\ Distinct(S.arrived)
      /\ S.lastSeq = S.headByteCount /\ \A m \in ToSet(S.arrived) : Covered(S, m)
  BY DEF PlainList
<1>3. /\ Start(k) \in 0 .. FileSize /\ Start(k) + Length(k) \in 0 .. FileSize
      /\ Start(k) < Start(k) + Length(k)
  BY <1>1, <1>2, GapNumbers
<1>4. S.lastSeq <= Start(k)
  BY <1>1, <1>2, <1>3, AfterIsGreater, Sizes
<1>5. BlockOf(k) \in Blocks /\ BlockOf(k).head = Start(k)
  BY BlockFits
<1>6. Start(k) # S.lastSeq /\ Accepted(l, BlockOf(k), c)
  BY <1>1, <1>5, CheckCases
<1>7. Joins(l, k, c.list, S.lastSeq)
  BY <1>1, <1>2, <1>3, <1>4, <1>6, AcceptedJoins, Sizes
<1> HIDE DEF c
<1>8. /\ R.lastSeq = S.lastSeq /\ R.headByteCount = S.headByteCount
      /\ R.ub_list = c.list /\ R.arrived = Append(S.arrived, k)
  BY DEF Parked, StreamType
<1> HIDE DEF R
<1>9. k \notin ToSet(S.arrived)
  <2> SUFFICES ASSUME Covered(S, k) PROVE FALSE
    BY <1>2
  <2> QED
    BY <1>1, <1>3, <1>4, <1>7, Sizes DEF Joins, Covered
<1>10. Distinct(R.arrived) /\ ToSet(R.arrived) = ToSet(S.arrived) \cup {k}
  BY <1>1, <1>2, <1>8, <1>9, DistinctAppend
<1>11. ASSUME NEW m \in ToSet(R.arrived) PROVE Covered(R, m)
  <2>1. CASE m = k
    BY <1>7, <1>8, <2>1 DEF Joins, Covered
  <2>2. CASE m \in ToSet(S.arrived)
    <3>1. CASE Start(m) + Length(m) <= S.lastSeq
      BY <1>8, <3>1 DEF Covered
    <3>2. CASE Waits(l, m)
      <4>1. PICK i \in 1 .. Len(l) : l[i].head <= Start(m) /\ Start(m) + Length(m) <= l[i].tail
        BY <3>2 DEF Waits
      <4>2. PICK j \in 1 .. Len(c.list) :
                c.list[j].head <= l[i].head /\ l[i].tail <= c.list[j].tail
        BY <1>7 DEF Joins
      <4>3. m \in PacketIds
        BY <1>1, <2>2, ElementOfSeq, LenProperties DEF ToSet
      <4>4. Start(m) \in Int /\ Start(m) + Length(m) \in Int
        BY <4>3, PacketFits, Sizes
      <4>5. l[i] \in Blocks /\ c.list[j] \in Blocks
        BY <1>1, <1>7, ElementOfSeq DEF Joins
      <4>6. c.list[j].head <= Start(m) /\ Start(m) + Length(m) <= c.list[j].tail
        <5>1. /\ l[i].head \in Int /\ l[i].tail \in Int
              /\ c.list[j].head \in Int /\ c.list[j].tail \in Int
          BY <4>5 DEF Blocks
        <5>2. \A x, y, z \in Int : x <= y /\ y <= z => x <= z
          OBVIOUS
        <5> QED
          BY <4>1, <4>2, <4>4, <5>1, <5>2
      <4> QED
        BY <1>8, <4>6 DEF Covered, Waits
    <3> QED
      BY <1>2, <2>2, <3>1, <3>2 DEF Covered
  <2> QED
    BY <1>10, <2>1, <2>2
<1>12. Gaps(R.ub_list, R.lastSeq)
  BY <1>7, <1>8 DEF Joins
<1> QED
  BY <1>2, <1>4, <1>8, <1>10, <1>11, <1>12 DEF PlainList, R, c

\* ONSEQ inside the head node: the stream remains plain.
LEMMA FollowedPlain ==
    ASSUME NEW S \in StreamType, PlainList(S), NEW k \in PacketIds,
           CheckUB(S, BlockOf(k)).msg = "ONSEQ"
    PROVE  PlainList(Followed(S, k)) /\ S.lastSeq = Start(k)
<1> DEFINE l == S.ub_list
           R == Followed(S, k)
<1>1. l \in Seq(Blocks) /\ S.lastSeq \in Nat /\ S.arrived \in Seq(PacketIds)
      /\ S.headByteCount \in Nat
  BY Sizes DEF StreamType
<1>2. Gaps(l, S.lastSeq) /\ S.lastSeq <= FileSize /\ Distinct(S.arrived)
      /\ S.lastSeq = S.headByteCount /\ \A m \in ToSet(S.arrived) : Covered(S, m)
  BY DEF PlainList
<1>3. /\ Start(k) \in 0 .. FileSize /\ Start(k) + Length(k) \in 0 .. FileSize
      /\ Start(k) < Start(k) + Length(k) /\ Len(l) \in Nat
      /\ \A i \in 1 .. Len(l) : l[i].head \in 0 .. FileSize /\ l[i].tail \in 0 .. FileSize
  BY <1>1, <1>2, GapNumbers
<1>4. BlockOf(k) \in Blocks /\ BlockOf(k).head = Start(k) /\ BlockOf(k).tail = Start(k) + Length(k)
  BY BlockFits
<1>5. Start(k) = S.lastSeq /\ (l = << >> \/ After(l[1].head, Start(k) + Length(k)))
  <2>1. ~Accepted(l, BlockOf(k), CheckUB(S, BlockOf(k)))
    BY DEF Accepted
  <2> QED
    BY <1>1, <1>4, <2>1, CheckCases
<1>6. ASSUME NEW i \in 1 .. Len(l) PROVE Start(k) + Length(k) < l[i].head
  <2>1. 1 \in 1 .. Len(l) /\ i >= 1 /\ l # << >>
    BY <1>1, <1>3, EmptySeq
  <2>2. l[1].head > Start(k) + Length(k)
    BY <1>3, <1>5, <2>1, AfterIsGreater
  <2>3. CASE i = 1
    BY <1>3, <2>2, <2>3
  <2>4. CASE i > 1
    <3>1. l[1].tail < l[i].head /\ l[1].head < l[1].tail
      BY <1>2, <2>1, <2>4 DEF Gaps
    <3> QED
      BY <1>3, <2>1, <2>2, <3>1, Sizes
  <2> QED
    BY <1>3, <2>1, <2>3, <2>4
<1>7. /\ R.lastSeq = Start(k) + Length(k) /\ R.headByteCount = Start(k) + Length(k)
      /\ R.ub_list = l /\ R.arrived = Append(S.arrived, k)
  BY <1>2, <1>5 DEF Followed, StreamType
<1> HIDE DEF R
<1>8. Gaps(l, R.lastSeq)
  BY <1>2, <1>6, <1>7 DEF Gaps
<1>9. k \notin ToSet(S.arrived)
  <2> SUFFICES ASSUME Covered(S, k) PROVE FALSE
    BY <1>2
  <2>1. Waits(l, k)
    BY <1>3, <1>5, Sizes DEF Covered
  <2>2. PICK i \in 1 .. Len(l) : l[i].head <= Start(k)
    BY <2>1 DEF Waits
  <2> QED
    BY <1>3, <1>6, <2>2, Sizes
<1>10. Distinct(R.arrived) /\ ToSet(R.arrived) = ToSet(S.arrived) \cup {k}
  BY <1>1, <1>2, <1>7, <1>9, DistinctAppend
<1>11. ASSUME NEW m \in ToSet(R.arrived) PROVE Covered(R, m)
  <2>1. CASE m = k
    BY <1>3, <1>7, <2>1, Sizes DEF Covered
  <2>2. CASE m \in ToSet(S.arrived)
    <3>1. CASE Start(m) + Length(m) <= S.lastSeq
      <4>1. m \in PacketIds
        BY <1>1, <2>2, ElementOfSeq, LenProperties DEF ToSet
      <4>2. Start(m) + Length(m) \in Int
        BY <4>1, PacketFits, Sizes
      <4> QED
        BY <1>1, <1>3, <1>5, <1>7, <3>1, <4>2, Sizes DEF Covered
    <3>2. CASE Waits(l, m)
      BY <1>7, <3>2 DEF Covered
    <3> QED
      BY <1>2, <2>2, <3>1, <3>2 DEF Covered
  <2> QED
    BY <1>10, <2>1, <2>2
<1> QED
  BY <1>3, <1>5, <1>7, <1>8, <1>10, <1>11, Sizes DEF PlainList, R

-----------------------------------------------------------------------------
(* Walking along to_tail, and copying packets.                             *)

\* The nodes of a list that is not longer than two.
LEMMA HopShort ==
    ASSUME NEW n, NEW L, NEW j \in Nat, n # Null, L[n] # Null => L[L[n]] = Null
    PROVE  Hop(n, j, L) = IF j = 0 THEN n ELSE IF j = 1 THEN L[n] ELSE Null
<1> DEFINE E(f) == [i \in 0 .. j |->
                       IF i = 0 THEN n ELSE IF f[i-1] = Null THEN Null ELSE L[f[i-1]]]
           g == [i \in 0 .. j |-> IF i = 0 THEN n ELSE IF i = 1 THEN L[n] ELSE Null]
           h == CHOOSE f : f = E(f)
<1>1. Hop(n, j, L) = h[j]
  BY DEF Hop
<1>2. g = E(g)
  <2>1. ASSUME NEW i \in 0 .. j
        PROVE  g[i] = IF i = 0 THEN n ELSE IF g[i-1] = Null THEN Null ELSE L[g[i-1]]
    <3>1. CASE i = 0
      BY <3>1
    <3>2. CASE i = 1
      BY <3>2
    <3>3. CASE i = 2
      BY <3>3
    <3>4. CASE i > 2
      BY <3>4
    <3> QED
      BY <3>1, <3>2, <3>3, <3>4
  <2> QED
    BY <2>1
<1>3. h = E(h)
  <2> HIDE DEF g
  <2> QED
    BY <1>2
<1> HIDE DEF h
<1>4. \A i \in 0 .. j : h[i] = IF i = 0 THEN n ELSE IF h[i-1] = Null THEN Null ELSE L[h[i-1]]
  BY <1>3
<1>5. \A i \in 0 .. j : g[i] = IF i = 0 THEN n ELSE IF g[i-1] = Null THEN Null ELSE L[g[i-1]]
  BY <1>2
<1> DEFINE D == {i \in 0 .. j : h[i] # g[i]}
<1>6. D = {}
  <2> SUFFICES ASSUME D # {} PROVE FALSE
    OBVIOUS
  <2>1. PICK x \in D : \A y \in D : x <= y
    <3>1. D \in SUBSET Nat
      OBVIOUS
    <3> QED
      BY <3>1, MinOfNats
  <2>2. x # 0
    BY <1>4
  <2>3. x - 1 \in 0 .. j /\ x - 1 \notin D
    BY <2>1, <2>2
  <2>4. h[x - 1] = g[x - 1]
    BY <2>3
  <2>5. h[x] = g[x]
    <3> HIDE DEF g
    <3> QED
      BY <1>4, <1>5, <2>4
  <2> QED
    BY <2>5
<1>7. h[j] = g[j]
  BY <1>6
<1> QED
  BY <1>1, <1>7

\* Copying keeps the type of the memory.
LEMMA CopiedType ==
    ASSUME mem \in [Nodes -> [Offsets -> Int]], NEW k \in PacketIds, NEW head, NEW links, NEW off
    PROVE  Copied(head, links, off, k) \in [Nodes -> [Offsets -> Int]]
<1> SUFFICES ASSUME NEW n \in Nodes, NEW o \in Offsets
             PROVE  Copied(head, links, off, k)[n][o] \in Int
  BY DEF Copied
<1> DEFINE hit == {d \in 0 .. (Length(k) - 1) :
                     Hop(head, (off + d) \div NodeSize, links) = n /\ (off + d) % NodeSize = o}
<1>1. Copied(head, links, off, k)[n][o] = IF hit = {} THEN mem[n][o] ELSE Start(k) + Max(hit)
  BY DEF Copied
<1>2. Length(k) - 1 \in Nat /\ Start(k) \in Nat
  BY PacketFits
<1>3. hit \in SUBSET (0 .. (Length(k) - 1))
  OBVIOUS
<1> HIDE DEF hit
<1>4. ASSUME hit # {} PROVE Max(hit) \in Nat
  <2>1. Max(hit) \in hit
    BY <1>2, <1>3, <1>4, MaxOfRange
  <2>2. Max(hit) \in 0 .. (Length(k) - 1)
    BY <1>3, <2>1
  <2>3. \A a \in Nat : 0 .. a \subseteq Nat
    OBVIOUS
  <2> QED
    BY <1>2, <2>2, <2>3
<1> QED
  BY <1>1, <1>2, <1>4

\* Where copying puts a packet in a list of two nodes at most: byte d of it at
\* place off + d, and nothing else changes.
LEMMA CopiedPlaces ==
    ASSUME NEW k \in PacketIds, NEW head \in Nodes, NEW links \in [Nodes -> Nodes \cup {Null}],
           links[head] # Null => links[head] # head /\ links[links[head]] = Null,
           NEW off \in Nat,
           NEW n \in Nodes, NEW o \in Offsets
    PROVE  LET c == Copied(head, links, off, k)[n][o]
               At(p) == p < 2 * NodeSize /\ n = (IF p < NodeSize THEN head ELSE links[head])
                        /\ o = p % NodeSize
           IN  \/ c = mem[n][o] /\ \A d \in 0 .. (Length(k) - 1) : ~At(off + d)
               \/ \E d \in 0 .. (Length(k) - 1) : At(off + d) /\ c = Start(k) + d
<1> DEFINE c == Copied(head, links, off, k)[n][o]
           At(p) == p < 2 * NodeSize /\ n = (IF p < NodeSize THEN head ELSE links[head])
                    /\ o = p % NodeSize
           hit == {d \in 0 .. (Length(k) - 1) :
                     Hop(head, (off + d) \div NodeSize, links) = n /\ (off + d) % NodeSize = o}
<1>1. c = IF hit = {} THEN mem[n][o] ELSE Start(k) + Max(hit)
  BY DEF Copied
<1>2. Length(k) - 1 \in Nat /\ Start(k) \in Nat
  BY PacketFits
<1>3. ASSUME NEW p \in Nat
      PROVE  Hop(head, p \div NodeSize, links) = n /\ p % NodeSize = o <=> At(p)
  <2>1. p \div NodeSize \in Nat
    BY Sizes
  <2>2. /\ p < NodeSize <=> p \div NodeSize = 0
        /\ p < 2 * NodeSize <=> p \div NodeSize = 0 \/ p \div NodeSize = 1
    BY Sizes
  <2>3. Hop(head, p \div NodeSize, links) =
          IF p \div NodeSize = 0 THEN head ELSE IF p \div NodeSize = 1 THEN links[head] ELSE Null
    BY <2>1, HopShort, Sizes
  <2>4. n # Null
    BY Sizes
  <2> QED
    BY <2>1, <2>2, <2>3, <2>4
<1>4. ASSUME NEW d \in 0 .. (Length(k) - 1) PROVE d \in hit <=> At(off + d)
  <2>1. off + d \in Nat
    OBVIOUS
  <2> QED
    BY <1>3, <2>1
<1>5. hit \in SUBSET (0 .. (Length(k) - 1))
  OBVIOUS
<1> HIDE DEF hit, At, c
<1>6. CASE hit = {}
  BY <1>1, <1>4, <1>6 DEF c, At
<1>7. CASE hit # {}
  <2>1. Max(hit) \in hit
    BY <1>2, <1>5, <1>7, MaxOfRange
  <2>2. Max(hit) \in 0 .. (Length(k) - 1) /\ At(off + Max(hit)) /\ c = Start(k) + Max(hit)
    BY <1>1, <1>4, <1>5, <1>7, <2>1
  <2> QED
    BY <2>2 DEF c, At
<1> QED
  BY <1>6, <1>7

-----------------------------------------------------------------------------
(* What Append does, in the terms of the invariant.                        *)

\* The record R of stream s after packet k was copied to place off, if the
\* stream remains plain.
StaysPlain(s, k, R, off) ==
    /\ st[s].plain
    /\ to_tail' = to_tail \/ to_tail[st[s].head] = Null
    /\ \/ /\ CheckUB(st[s], BlockOf(k)).msg = "ONSEQ"
          /\ R = Followed(st[s], k)
          /\ off = st[s].headByteCount
          /\ st[s].headByteCount + Length(k) <= NodeSize
       \/ /\ CheckUB(st[s], BlockOf(k)).msg \in {"ADDED", "EXTENDED"}
          /\ ~After(st[s].lastSeq, Start(k))
          /\ R = Parked(st[s], k, CheckUB(st[s], BlockOf(k)).list)
          /\ off = Start(k) - st[s].headSeq
          /\ Hop(st[s].head, (off + Length(k) - 1) \div NodeSize, to_tail') # Null

\* Packet k was copied into stream s, perhaps with a new node behind the head.
Wrote(s, k) ==
    /\ s \in DOMAIN st /\ killer.stream # s /\ listener = Idle
    /\ \/ UNCHANGED << to_tail, heap, pool >>
       \/ Obtain /\ to_tail' = [to_tail EXCEPT ![st[s].head] = Obtained]
    /\ UNCHANGED << killer, crowded >>
    /\ listener' \in {Idle, Ended}
    /\ \E R \in StreamType, off \in Nat :
        /\ st' = [st EXCEPT ![s] = R]
        /\ mem' = Copied(st[s].head, to_tail', off, k)
        /\ R.head = st[s].head /\ Len(R.ub_list) <= MaxUB
        /\ R.plain => StaysPlain(s, k, R, off)

\* FlushNode leaves a stream that has its type.
LEMMA FlushedType ==
    ASSUME NEW S \in StreamType, NEW c \in [Nodes -> [Offsets -> Int]]
    PROVE  /\ Flushed(S, c) \in StreamType
           /\ Flushed(S, c).head = S.head /\ Flushed(S, c).ub_list = S.ub_list
           /\ Flushed(S, c).plain = S.plain
<1> DEFINE n == NodeBytes(c, S.head)
<1>1. S.head \in Nodes /\ S.file \in Seq(Int) /\ S.headSeq \in Nat
  BY DEF StreamType
<1>2. n \in Seq(Int)
  <2>1. c[S.head] \in [Offsets -> Int]
    BY <1>1
  <2>2. \A i \in 1 .. NodeSize : i - 1 \in Offsets
    BY Sizes DEF Offsets
  <2>3. \A i \in 1 .. NodeSize : c[S.head][i - 1] \in Int
    BY <2>1, <2>2
  <2> QED
    BY <2>3, Sizes DEF NodeBytes
<1> HIDE DEF n
<1>3. S.file \o n \in Seq(Int)
  BY <1>1, <1>2, ConcatProperties
<1>4. S.headSeq + NodeSize \in Nat /\ 0 \in 0 .. NodeSize
  BY <1>1, Sizes
<1>5. Flushed(S, c) = [S EXCEPT !.file = S.file \o n, !.headSeq = S.headSeq + NodeSize,
                                !.headByteCount = 0]
  BY DEF Flushed, n
<1> QED
  BY <1>3, <1>4, <1>5 DEF StreamType

\* Append copies the packet or ends the Listener.
LEMMA AppendEffect ==
    ASSUME BaseInv, NEW s \in Streams, NEW k \in PacketIds, FileAppend(s, k)
    PROVE  Dies \/ Wrote(s, k)
<1> DEFINE S == st[s]
           c == Check(s, k)
<1>1. s \in DOMAIN st /\ killer.stream # s /\ listener = Idle /\ ~After(S.lastSeq, Start(k))
  BY DEF FileAppend, AppendUnSeq, AppendFits, AppendCrosses, AppendMerges, AppendThrows, Appending
<1>2. S \in StreamType /\ Len(S.ub_list) <= MaxUB
  BY <1>1 DEF BaseInv, StreamsInv
<1>3. /\ S.ub_list \in Seq(Blocks) /\ S.lastSeq \in Nat /\ S.headByteCount \in 0 .. NodeSize
      /\ S.arrived \in Seq(PacketIds) /\ S.headSeq \in Nat /\ S.head \in Nodes
  BY <1>2 DEF StreamType
<1>4. Append(S.arrived, k) \in Seq(PacketIds)
  BY <1>3, AppendProperties
<1>5. Start(k) \in Nat /\ Length(k) \in 1 .. PacketSize /\ Length(k) \in Nat
  BY PacketFits, Sizes
<1>6. BlockOf(k) \in Blocks
  BY BlockFits
<1>7. c.list \in Seq(Blocks) /\ Len(c.list) <= MaxUB
  BY <1>2, <1>3, <1>6, CheckKeepsList DEF Check
<1>m. mem \in [Nodes -> [Offsets -> Int]]
  BY DEF BaseInv, StreamsInv
<1>c. c = CheckUB(S, BlockOf(k))
  BY DEF Check
<1> HIDE DEF c
<1>8. ASSUME AppendUnSeq(s, k), ~Dies PROVE Wrote(s, k)
  <2> DEFINE off == Start(k) - S.headSeq
             last == (off + Length(k) - 1) \div NodeSize
             new == last >= 1 /\ to_tail[S.head] = Null
             links == IF new THEN [to_tail EXCEPT ![S.head] = Obtained] ELSE to_tail
             R == Parked(S, k, c.list)
  <2>1. /\ c.msg \in {"ADDED", "EXTENDED"} /\ ~(off < 0 \/ Hop(S.head, last, links) = Null)
        /\ IF new THEN Obtain ELSE UNCHANGED << pool, heap >>
        /\ to_tail' = links /\ mem' = Copied(S.head, links, off, k)
        /\ st' = [st EXCEPT ![s] = R]
        /\ UNCHANGED << listener, killer, lives, crowded >>
    BY <1>8 DEF AppendUnSeq, c
  <2>2. R \in StreamType /\ R.head = S.head /\ R.ub_list = c.list /\ R.plain = S.plain
    BY <1>2, <1>4, <1>7 DEF Parked, StreamType
  <2>3. off \in Nat
    BY <1>3, <1>5, <2>1
  <2>4. R.plain => StaysPlain(s, k, R, off)
    <3> HIDE DEF R, last
    <3>1. to_tail' = to_tail \/ to_tail[S.head] = Null
      BY <2>1
    <3>2. Hop(S.head, last, to_tail') # Null
      BY <2>1
    <3> HIDE DEF off, links, new
    <3>3. S.plain => StaysPlain(s, k, R, off)
      BY <1>1, <1>c, <2>1, <2>3, <3>1, <3>2 DEF StaysPlain, R, last, off
    <3> QED
      BY <2>2, <3>3
  <2>5. \/ UNCHANGED << to_tail, heap, pool >>
        \/ Obtain /\ to_tail' = [to_tail EXCEPT ![st[s].head] = Obtained]
    <3> HIDE DEF last
    <3> QED
      BY <2>1
  <2>6. mem' = Copied(st[s].head, to_tail', off, k)
    BY <2>1
  <2>7. \E Q \in StreamType, f \in Nat :
          /\ st' = [st EXCEPT ![s] = Q]
          /\ mem' = Copied(st[s].head, to_tail', f, k)
          /\ Q.head = st[s].head /\ Len(Q.ub_list) <= MaxUB
          /\ Q.plain => StaysPlain(s, k, Q, f)
    <3> HIDE DEF off, R, last, links, new
    <3> QED
      BY <1>7, <2>1, <2>2, <2>3, <2>4, <2>6
  <2> QED
    BY <1>1, <2>1, <2>5, <2>7 DEF Wrote
<1>9. ASSUME AppendFits(s, k) PROVE Wrote(s, k)
  <2> DEFINE off == S.headByteCount
             R == Followed(S, k)
  <2>1. /\ c.msg = "ONSEQ" /\ S.headByteCount + Length(k) <= NodeSize
        /\ mem' = Copied(S.head, to_tail, off, k)
        /\ st' = [st EXCEPT ![s] = R]
        /\ UNCHANGED << to_tail, heap, pool, listener, killer, lives, crowded >>
    BY <1>9 DEF AppendFits, c
  <2>2. S.lastSeq + Length(k) \in Nat /\ S.headByteCount + Length(k) \in 0 .. NodeSize
    <3>1. S.lastSeq \in Nat /\ S.headByteCount \in Nat /\ Length(k) \in Nat
      BY <1>3, <1>5, Sizes
    <3> QED
      BY <2>1, <3>1, Sizes
  <2>3. R \in StreamType /\ R.head = S.head /\ R.ub_list = S.ub_list /\ R.plain = S.plain
    BY <1>2, <1>4, <2>2 DEF Followed, StreamType
  <2>4. S.plain => StaysPlain(s, k, R, off)
    <3> HIDE DEF R
    <3> QED
      BY <1>c, <2>1 DEF StaysPlain, R
  <2>5. off \in Nat
    BY <1>3, Sizes
  <2>6. \E Q \in StreamType, f \in Nat :
          /\ st' = [st EXCEPT ![s] = Q]
          /\ mem' = Copied(st[s].head, to_tail', f, k)
          /\ Q.head = st[s].head /\ Len(Q.ub_list) <= MaxUB
          /\ Q.plain => StaysPlain(s, k, Q, f)
    <3> HIDE DEF off, R
    <3> QED
      BY <1>2, <2>1, <2>3, <2>4, <2>5
  <2> QED
    BY <1>1, <2>1, <2>6 DEF Wrote
<1>10. ASSUME AppendCrosses(s, k) PROVE Wrote(s, k)
  <2> DEFINE off == S.headByteCount
             F == Flushed(S, mem')
             R == Crossed(S, k, mem')
  <2>1. /\ Obtain /\ to_tail' = [to_tail EXCEPT ![S.head] = Obtained]
        /\ mem' = Copied(S.head, to_tail', off, k)
        /\ st' = [st EXCEPT ![s] = R]
        /\ UNCHANGED << listener, killer, lives, crowded >>
    BY <1>10 DEF AppendCrosses
  <2>2. mem' \in [Nodes -> [Offsets -> Int]]
    BY <1>m, <2>1, CopiedType
  <2>3. F \in StreamType /\ F.head = S.head /\ F.ub_list = S.ub_list
    BY <1>2, <2>2, FlushedType
  <2> HIDE DEF F
  <2>a. F.arrived \in Seq(PacketIds)
    BY <2>3 DEF StreamType
  <2>b. Append(F.arrived, k) \in Seq(PacketIds)
    BY <2>a, AppendProperties
  <2>4. R \in StreamType /\ R.head = S.head /\ R.ub_list = S.ub_list /\ R.plain = FALSE
    BY <2>3, <2>b DEF StreamType, Crossed, F
  <2>5. off \in Nat
    BY <1>3, Sizes
  <2>6. \E Q \in StreamType, f \in Nat :
          /\ st' = [st EXCEPT ![s] = Q]
          /\ mem' = Copied(st[s].head, to_tail', f, k)
          /\ Q.head = st[s].head /\ Len(Q.ub_list) <= MaxUB
          /\ Q.plain => StaysPlain(s, k, Q, f)
    <3> HIDE DEF off, R
    <3> QED
      BY <1>2, <2>1, <2>4, <2>5
  <2> QED
    BY <1>1, <2>1, <2>6 DEF Wrote
<1>11. ASSUME AppendMerges(s, k), ~Dies PROVE Wrote(s, k)
  <2> DEFINE off == S.headByteCount
             merged == Length(k) + Minus(S.ub_list[1].tail, S.ub_list[1].head)
             next == [S EXCEPT !.headByteCount = (@ + merged) % NodeSize, !.lastSeq = @ + merged,
                               !.arrived = Append(@, k), !.plain = FALSE]
             F == Flushed(next, mem')
             R == IF merged < NodeSize THEN F ELSE next
  <2>1. /\ c.msg = "MERGING"
        /\ mem' = Copied(S.head, to_tail, off, k)
        /\ st' = [st EXCEPT ![s] = R]
        /\ listener' = IF merged < NodeSize THEN Ended ELSE listener
        /\ UNCHANGED << to_tail, heap, pool, killer, lives, crowded >>
    BY <1>11 DEF AppendMerges, c
  <2>2. S.ub_list # << >>
    <3>1. ~Accepted(S.ub_list, BlockOf(k), CheckUB(S, BlockOf(k)))
      BY <1>c, <2>1 DEF Accepted
    <3> QED
      BY <1>3, <1>6, <1>c, <2>1, <3>1, CheckCases
  <2>3. S.ub_list[1] \in Blocks
    <3>1. 1 \in 1 .. Len(S.ub_list)
      BY <1>3, <2>2, EmptySeq
    <3> QED
      BY <1>3, <3>1, ElementOfSeq
  <2>4. Minus(S.ub_list[1].tail, S.ub_list[1].head) \in Nat
    BY <2>3, SeqSpaceAssumption DEF Blocks, Minus
  <2>5. merged \in Nat
    BY <1>5, <2>4
  <2> HIDE DEF merged
  <2>6. (S.headByteCount + merged) % NodeSize \in 0 .. NodeSize /\ S.lastSeq + merged \in Nat
    <3>1. S.headByteCount + merged \in Nat /\ S.lastSeq + merged \in Nat
      BY <1>3, <2>5
    <3>2. \A x \in Nat : x % NodeSize \in 0 .. NodeSize
      BY Sizes
    <3> QED
      BY <3>1, <3>2
  <2>7. next \in StreamType /\ next.head = S.head /\ next.ub_list = S.ub_list /\ next.plain = FALSE
    BY <1>2, <1>4, <2>6 DEF StreamType
  <2> HIDE DEF next
  <2>8. mem' \in [Nodes -> [Offsets -> Int]]
    BY <1>m, <2>1, CopiedType
  <2>9. F \in StreamType /\ F.head = S.head /\ F.ub_list = S.ub_list /\ F.plain = FALSE
    BY <2>7, <2>8, FlushedType
  <2> HIDE DEF F
  <2>10. R \in StreamType /\ R.head = S.head /\ R.ub_list = S.ub_list /\ R.plain = FALSE
    BY <2>7, <2>9
  <2>11. off \in Nat
    BY <1>3, Sizes
  <2>12. \E Q \in StreamType, f \in Nat :
          /\ st' = [st EXCEPT ![s] = Q]
          /\ mem' = Copied(st[s].head, to_tail', f, k)
          /\ Q.head = st[s].head /\ Len(Q.ub_list) <= MaxUB
          /\ Q.plain => StaysPlain(s, k, Q, f)
    <3> HIDE DEF off, R
    <3> QED
      BY <1>2, <2>1, <2>10, <2>11
  <2> QED
    BY <1>1, <2>1, <2>12 DEF Wrote
<1>12. AppendThrows(s, k) => Dies
  BY DEF AppendThrows
<1> QED
  BY <1>8, <1>9, <1>10, <1>11, <1>12 DEF FileAppend

-----------------------------------------------------------------------------
(* Types, links and threads.                                               *)

\* What pop takes.
LEMMA PopEffect ==
    ASSUME LinkInv, PoolInv, pool.head # Null
    PROVE  /\ PoolAfterPop \in [head : heap \cup {Null}, tail : heap \cup {Null}, size : Int]
           /\ PoolAfterPop.head = to_tail[pool.head]
           /\ PoolAfterPop.tail = pool.tail /\ pool.tail \in heap /\ pool.tail # Null
           /\ PoolAfterPop.size = pool.size - 1 /\ pool.size - 1 <= MaxPool
           /\ pool.head \in heap /\ pool.head \in Nodes
           /\ to_tail[pool.head] \in heap \cup {Null}
<1> DEFINE H == heap \cup {Null}
<1>1. /\ pool \in [head : H, tail : H, size : Int]
      /\ pool.size <= MaxPool /\ pool.head \in heap /\ pool.tail \in heap /\ pool.tail # Null
  BY DEF PoolInv
<1>2. pool.head \in Nodes /\ to_tail[pool.head] \in H
  BY <1>1 DEF LinkInv
<1>3. pool.size - 1 \in Int /\ pool.size - 1 <= MaxPool
  BY <1>1, Sizes
<1> HIDE DEF H
<1>4. /\ PoolAfterPop \in [head : H, tail : H, size : Int]
      /\ PoolAfterPop.head = to_tail[pool.head]
      /\ PoolAfterPop.tail = pool.tail
      /\ PoolAfterPop.size = pool.size - 1
  BY <1>1, <1>2, <1>3 DEF PoolAfterPop
<1> QED
  BY <1>1, <1>2, <1>3, <1>4 DEF H

\* What a step obtains that takes a node from the pool or from new.
LEMMA ObtainEffect ==
    ASSUME LinkInv, PoolInv, Obtain
    PROVE  /\ Obtained \in heap' /\ Obtained \in Nodes /\ Obtained # Null
           /\ heap \subseteq heap' /\ heap' \subseteq Nodes
           /\ \/ pool.head # Null /\ Obtained = pool.head /\ pool' = PoolAfterPop /\ heap' = heap
              \/ /\ pool.head = Null /\ Obtained \in Nodes \ heap
                 /\ pool' = pool /\ heap' = heap \cup {Obtained}
<1>1. CASE pool.head # Null
  BY <1>1, PopEffect DEF Obtain, Obtained, LinkInv
<1>2. CASE pool.head = Null
  <2>1. Nodes \ heap # {}
    BY <1>2 DEF Obtain, HasNode
  <2>2. Fresh \in Nodes \ heap /\ Fresh # Null
    BY <2>1, FreshNode
  <2>3. Obtained = Fresh /\ pool' = pool /\ heap' = heap \cup {Fresh}
    BY <1>2 DEF Obtain, Obtained
  <2> QED
    BY <1>2, <2>2, <2>3 DEF LinkInv
<1> QED
  BY <1>1, <1>2

\* Every step keeps the links inside the heap and the pool in its form.
LEMMA LinkStep == BaseInv /\ [Next]_vars => LinkInv' /\ PoolInv'
<1> SUFFICES ASSUME BaseInv, [Next]_vars PROVE LinkInv' /\ PoolInv'
  OBVIOUS
<1>i. LinkInv /\ PoolInv /\ ThreadInv /\ StreamsInv
  BY DEF BaseInv
<1>u. UNCHANGED << to_tail, heap, pool >> => LinkInv' /\ PoolInv'
  BY <1>i DEF LinkInv, PoolInv
<1>o. ASSUME pool.head # Null, pool' = PoolAfterPop, heap' = heap, to_tail' = to_tail
      PROVE  LinkInv' /\ PoolInv'
  BY <1>o, <1>i, PopEffect DEF LinkInv, PoolInv
<1>1. ASSUME NEW s \in Streams, MakeTest(s) PROVE LinkInv' /\ PoolInv'
  BY <1>1, <1>u DEF MakeTest
<1>2. ASSUME MakeTake PROVE LinkInv' /\ PoolInv'
  <2>1. CASE listener.saw
    BY <1>2, <1>o, <2>1 DEF MakeTake
  <2>2. CASE ~listener.saw
    <3>1. Nodes \ heap # {} /\ pool' = pool /\ heap' = heap \cup {Fresh} /\ to_tail' = to_tail
      BY <1>2, <2>2 DEF MakeTake
    <3>2. Fresh \in Nodes \ heap
      BY <3>1, FreshNode
    <3> QED
      BY <1>i, <3>1, <3>2 DEF LinkInv, PoolInv
  <2> QED
    BY <2>1, <2>2
<1>3. ASSUME NEW s \in Streams, DestroyBegin(s) PROVE LinkInv' /\ PoolInv'
  BY <1>3, <1>u DEF DestroyBegin
<1>4. ASSUME DestroyStep PROVE LinkInv' /\ PoolInv'
  <2> DEFINE n == killer.node
  <2>1. n \in heap /\ n \in Nodes /\ n # Null
    BY <1>4, <1>i, Sizes DEF DestroyStep, ThreadInv, LinkInv
  <2>2. /\ pool.size < MaxPool
        /\ pool' = [head |-> IF pool.head = Null THEN n ELSE pool.head,
                    tail |-> IF pool.head = Null THEN n ELSE pool.tail,
                    size |-> pool.size + 1]
        /\ to_tail' = IF pool.head = Null THEN [to_tail EXCEPT ![n] = Null]
                      ELSE [to_tail EXCEPT ![n] = Null, ![pool.tail] = n]
        /\ heap' = heap
    BY <1>4 DEF DestroyStep, Push
  <2> HIDE DEF n
  <2>3. LinkInv'
    <3>1. CASE pool.head = Null
      BY <1>i, <2>1, <2>2, <3>1 DEF LinkInv
    <3>2. CASE pool.head # Null
      <4>1. pool.tail \in heap
        BY <1>i, <3>2 DEF PoolInv
      <4> QED
        BY <1>i, <2>1, <2>2, <3>2, <4>1 DEF LinkInv
    <3> QED
      BY <3>1, <3>2
  <2>4. PoolInv'
    BY <1>i, <2>1, <2>2, Sizes DEF PoolInv
  <2> QED
    BY <2>3, <2>4
<1>5. ASSUME NEW s \in Streams, Finalize(s) PROVE LinkInv' /\ PoolInv'
  BY <1>5, <1>u DEF Finalize
<1>6. ASSUME NEW s \in Streams, NEW k \in PacketIds, FileAppend(s, k) PROVE LinkInv' /\ PoolInv'
  <2>1. CASE Dies
    BY <2>1, <1>u DEF Dies
  <2>2. CASE Wrote(s, k) /\ UNCHANGED << to_tail, heap, pool >>
    BY <2>2, <1>u
  <2>3. CASE /\ Wrote(s, k)
             /\ Obtain /\ to_tail' = [to_tail EXCEPT ![st[s].head] = Obtained]
    <3> DEFINE h == st[s].head
               o == Obtained
    <3>1. h \in heap
      BY <2>3, <1>i DEF Wrote, StreamsInv
    <3>2. /\ o \in heap' /\ o \in Nodes /\ o # Null
          /\ heap \subseteq heap' /\ heap' \subseteq Nodes
          /\ \/ pool.head # Null /\ o = pool.head /\ pool' = PoolAfterPop /\ heap' = heap
             \/ pool.head = Null /\ o \in Nodes \ heap /\ pool' = pool /\ heap' = heap \cup {o}
      BY <1>i, <2>3, ObtainEffect
    <3>3. to_tail' = [to_tail EXCEPT ![h] = o]
      BY <2>3
    <3> HIDE DEF h, o
    <3>4. LinkInv'
      BY <1>i, <3>1, <3>2, <3>3 DEF LinkInv
    <3>5. PoolInv'
      <4>1. CASE pool' = PoolAfterPop /\ heap' = heap /\ pool.head # Null
        BY <4>1, <1>i, PopEffect DEF PoolInv
      <4>2. CASE pool' = pool
        BY <4>2, <1>i, <3>2 DEF PoolInv
      <4> QED
        BY <3>2, <4>1, <4>2
    <3> QED
      BY <3>4, <3>5
  <2>4. Dies \/ Wrote(s, k)
    BY <1>6, AppendEffect
  <2> QED
    BY <2>1, <2>2, <2>3, <2>4 DEF Wrote
<1>7. UNCHANGED vars => LinkInv' /\ PoolInv'
  BY <1>u DEF vars
<1> QED
  BY <1>1, <1>2, <1>3, <1>4, <1>5, <1>6, <1>7 DEF Next

\* The effect of making a stream.
LEMMA MakeEffect ==
    ASSUME BaseInv, MakeTake
    PROVE  \E n \in heap' :
              /\ n \in Nodes /\ n # Null
              /\ st' = [x \in DOMAIN st \cup {listener.stream} |->
                          IF x = listener.stream THEN NewStream(n) ELSE st[x]]
              /\ \/ pool.head # Null /\ n = pool.head /\ pool' = PoolAfterPop /\ heap' = heap
                 \/ n \in Nodes \ heap /\ pool' = pool /\ heap' = heap \cup {n}
              /\ listener.stream \in Streams \ DOMAIN st
              /\ listener' = Idle
              /\ UNCHANGED << to_tail, mem, killer, crowded >>
<1>i. LinkInv /\ PoolInv /\ ThreadInv /\ StreamsInv
  BY DEF BaseInv
<1>1. listener.stream \in Streams \ DOMAIN st
  BY <1>i DEF MakeTake, ThreadInv
<1>2. CASE listener.saw
  <2>1. pool.head # Null
    BY <1>2 DEF MakeTake
  <2>2. pool.head \in heap /\ pool.head \in Nodes
    BY <1>i, <2>1, PopEffect
  <2>3. /\ st' = [x \in DOMAIN st \cup {listener.stream} |->
                    IF x = listener.stream THEN NewStream(pool.head) ELSE st[x]]
        /\ pool' = PoolAfterPop /\ heap' = heap /\ listener' = Idle
        /\ UNCHANGED << to_tail, mem, killer, crowded >>
    BY <1>2 DEF MakeTake
  <2> QED
    BY <1>1, <2>1, <2>2, <2>3
<1>3. CASE ~listener.saw
  <2>1. /\ st' = [x \in DOMAIN st \cup {listener.stream} |->
                    IF x = listener.stream THEN NewStream(Fresh) ELSE st[x]]
        /\ Nodes \ heap # {} /\ pool' = pool /\ heap' = heap \cup {Fresh} /\ listener' = Idle
        /\ UNCHANGED << to_tail, mem, killer, crowded >>
    BY <1>3 DEF MakeTake
  <2>2. Fresh \in Nodes \ heap /\ Fresh # Null
    BY <2>1, FreshNode
  <2> QED
    BY <1>1, <2>1, <2>2
<1> QED
  BY <1>2, <1>3

\* A stream that was just made has its type.
LEMMA NewStreamType == \A n \in Nodes : NewStream(n) \in StreamType
<1>1. << >> \in Seq(Blocks) /\ << >> \in Seq(Int) /\ << >> \in Seq(PacketIds)
  BY EmptySeq
<1>2. 0 \in Nat /\ 0 \in 0 .. NodeSize
  BY Sizes
<1> QED
  BY <1>1, <1>2 DEF NewStream, StreamType

\* What writing a packet does to the streams.
LEMMA WroteEffect ==
    ASSUME BaseInv, NEW s, NEW k \in PacketIds, Wrote(s, k)
    PROVE  /\ DOMAIN st' = DOMAIN st /\ s \in DOMAIN st
           /\ \A t \in DOMAIN st : t # s => st'[t] = st[t]
           /\ st'[s] \in StreamType /\ st'[s].head = st[s].head
           /\ Len(st'[s].ub_list) <= MaxUB
           /\ heap \subseteq heap'
           /\ \E off \in Nat : /\ mem' = Copied(st[s].head, to_tail', off, k)
                               /\ st'[s].plain => StaysPlain(s, k, st'[s], off)
<1>i. LinkInv /\ PoolInv /\ StreamsInv
  BY DEF BaseInv
<1>1. PICK R \in StreamType, off \in Nat :
        /\ st' = [st EXCEPT ![s] = R]
        /\ mem' = Copied(st[s].head, to_tail', off, k)
        /\ R.head = st[s].head /\ Len(R.ub_list) <= MaxUB
        /\ R.plain => StaysPlain(s, k, R, off)
  BY DEF Wrote
<1>2. s \in DOMAIN st
  BY DEF Wrote
<1>3. DOMAIN st' = DOMAIN st /\ st'[s] = R /\ \A t \in DOMAIN st : t # s => st'[t] = st[t]
  BY <1>1, <1>2
<1>4. heap \subseteq heap'
  BY <1>i, ObtainEffect DEF Wrote
<1> QED
  BY <1>1, <1>2, <1>3, <1>4

\* Every step keeps the threads in their form.
LEMMA ThreadStep == BaseInv /\ [Next]_vars => ThreadInv'
<1> SUFFICES ASSUME BaseInv, [Next]_vars PROVE ThreadInv'
  OBVIOUS
<1>i. LinkInv /\ PoolInv /\ ThreadInv /\ StreamsInv
  BY DEF BaseInv
<1>n. Idle \in [pc : {"idle", "take", "ended"}, stream : Streams \cup {Null}, saw : BOOLEAN]
      /\ Idle.pc # "take"
      /\ Ended \in [pc : {"idle", "take", "ended"}, stream : Streams \cup {Null}, saw : BOOLEAN]
      /\ Ended.pc # "take"
  BY DEF Idle, Ended
<1>1. ASSUME NEW s \in Streams, MakeTest(s) PROVE ThreadInv'
  <2>1. PopTest \in BOOLEAN /\ (PopTest => pool.head # Null)
    BY DEF PopTest
  <2> HIDE DEF PopTest
  <2> QED
    BY <1>1, <1>i, <2>1 DEF MakeTest, ThreadInv
<1>2. ASSUME MakeTake PROVE ThreadInv'
  <2>1. DOMAIN st \subseteq DOMAIN st' /\ heap \subseteq heap'
        /\ listener' = Idle /\ UNCHANGED << killer, crowded >>
    <3>1. PICK n \in heap' :
              /\ st' = [x \in DOMAIN st \cup {listener.stream} |->
                          IF x = listener.stream THEN NewStream(n) ELSE st[x]]
              /\ \/ pool.head # Null /\ n = pool.head /\ pool' = PoolAfterPop /\ heap' = heap
                 \/ n \in Nodes \ heap /\ pool' = pool /\ heap' = heap \cup {n}
              /\ listener' = Idle
              /\ UNCHANGED << to_tail, mem, killer, crowded >>
      BY <1>2, MakeEffect
    <3>2. DOMAIN st' = DOMAIN st \cup {listener.stream}
      BY <3>1
    <3> QED
      BY <3>1, <3>2
  <2> QED
    BY <1>i, <1>n, <2>1 DEF ThreadInv
<1>3. ASSUME NEW s \in Streams, DestroyBegin(s) PROVE ThreadInv'
  <2>1. st[s].head \in heap /\ st[s].head # Null /\ s \in DOMAIN st
    BY <1>3, <1>i, Sizes DEF DestroyBegin, StreamsInv, LinkInv
  <2> QED
    BY <1>3, <1>i, <2>1 DEF DestroyBegin, ThreadInv
<1>4. ASSUME DestroyStep PROVE ThreadInv'
  <2> DEFINE n == killer.node
             next == to_tail[n]
  <2>1. /\ n \in heap /\ n # Null /\ killer.stream \in DOMAIN st
        /\ killer \in [stream : Streams \cup {Null}, node : heap \cup {Null}]
    BY <1>4, <1>i, Sizes DEF DestroyStep, ThreadInv, LinkInv
  <2>2. next \in heap \cup {Null}
    BY <1>i, <2>1 DEF LinkInv
  <2>3. /\ pool'.head = IF pool.head = Null THEN n ELSE pool.head
        /\ heap' = heap /\ listener' = listener /\ crowded' \in BOOLEAN
    BY <1>4 DEF DestroyStep, Push
  <2>4. IF next = Null THEN /\ st' = [x \in DOMAIN st \ {killer.stream} |-> st[x]]
                            /\ killer' = NoKill
        ELSE st' = st /\ killer' = [killer EXCEPT !.node = next]
    BY <1>4 DEF DestroyStep
  <2> HIDE DEF next, n
  <2>5. /\ listener'.pc = "take" => listener'.stream \in Streams \ DOMAIN st
        /\ (listener'.pc = "take" /\ listener'.saw) => pool'.head # Null
    BY <1>i, <2>1, <2>3 DEF ThreadInv
  <2>6. listener' \in [pc : {"idle", "take", "ended"}, stream : Streams \cup {Null}, saw : BOOLEAN]
    BY <1>i, <2>3 DEF ThreadInv
  <2>7. CASE next = Null
    <3>1. DOMAIN st' \subseteq DOMAIN st /\ killer' = NoKill
      BY <2>4, <2>7
    <3>2. NoKill \in [stream : Streams \cup {Null}, node : heap' \cup {Null}]
      BY DEF NoKill
    <3> QED
      BY <2>3, <2>5, <2>6, <3>1, <3>2 DEF ThreadInv
  <2>8. CASE next # Null
    <3>1. st' = st /\ killer' \in [stream : Streams \cup {Null}, node : heap \cup {Null}]
          /\ killer'.stream = killer.stream /\ killer'.node = next
      BY <2>1, <2>2, <2>4, <2>8
    <3> QED
      BY <2>1, <2>3, <2>5, <2>6, <2>8, <3>1 DEF ThreadInv
  <2> QED
    BY <2>7, <2>8
<1>5. ASSUME NEW s \in Streams, Finalize(s) PROVE ThreadInv'
  <2>1. DOMAIN st' = DOMAIN st
    BY <1>5 DEF Finalize
  <2> QED
    BY <1>5, <1>i, <2>1 DEF Finalize, ThreadInv
<1>6. ASSUME NEW s \in Streams, NEW k \in PacketIds, FileAppend(s, k) PROVE ThreadInv'
  <2>1. CASE Dies
    BY <2>1, <1>i, <1>n DEF Dies, ThreadInv
  <2>2. CASE Wrote(s, k)
    <3>1. DOMAIN st' = DOMAIN st /\ heap \subseteq heap'
      BY <2>2, WroteEffect
    <3>2. listener' \in {Idle, Ended} /\ UNCHANGED << killer, crowded >>
      BY <2>2 DEF Wrote
    <3> QED
      BY <1>i, <1>n, <3>1, <3>2 DEF ThreadInv
  <2> QED
    BY <1>6, <2>1, <2>2, AppendEffect
<1>7. UNCHANGED vars => ThreadInv'
  BY <1>i DEF ThreadInv, vars
<1> QED
  BY <1>1, <1>2, <1>3, <1>4, <1>5, <1>6, <1>7 DEF Next

\* The record of a stream after Finalize.
LEMMA FinalizeType ==
    ASSUME BaseInv, NEW s \in Streams, Finalize(s)
    PROVE  /\ s \in DOMAIN st /\ DOMAIN st' = DOMAIN st
           /\ \A t \in DOMAIN st : t # s => st'[t] = st[t]
           /\ st'[s] \in StreamType
           /\ st'[s].head = st[s].head /\ st'[s].headSeq = st[s].headSeq
           /\ st'[s].headByteCount = st[s].headByteCount /\ st'[s].lastSeq = st[s].lastSeq
           /\ st'[s].ub_list = st[s].ub_list /\ st'[s].arrived = st[s].arrived
           /\ st'[s].plain = st[s].plain
           /\ \/ st'[s].finals = st[s].finals /\ st'[s].file = st[s].file
              \/ /\ st'[s].finals = st[s].finals + 1
                 /\ st'[s].file = st[s].file \o
                        [i \in 1 .. st[s].headByteCount |-> mem[st[s].head][i - 1]]
<1> DEFINE S == st[s]
           n == [i \in 1 .. S.headByteCount |-> mem[S.head][i - 1]]
           T == [S EXCEPT !.final = "threw"]
           D == [S EXCEPT !.final = "done", !.finals = S.finals + 1, !.file = S.file \o n]
<1>1. s \in DOMAIN st /\ st' = [st EXCEPT ![s] = IF to_tail[S.head] # Null THEN T ELSE D]
  BY DEF Finalize, Written, HeadBytes
<1>2. S \in StreamType /\ mem \in [Nodes -> [Offsets -> Int]]
  BY <1>1 DEF BaseInv, StreamsInv
<1>3. S.head \in Nodes /\ S.file \in Seq(Int) /\ S.headByteCount \in 0 .. NodeSize /\ S.finals \in Nat
  BY <1>2 DEF StreamType
<1>4. n \in Seq(Int)
  <2>1. mem[S.head] \in [Offsets -> Int]
    BY <1>2, <1>3
  <2>2. \A i \in 1 .. S.headByteCount : i - 1 \in Offsets
    BY <1>3, Sizes DEF Offsets
  <2>3. \A i \in 1 .. S.headByteCount : mem[S.head][i - 1] \in Int
    BY <2>1, <2>2
  <2>4. S.headByteCount \in Nat
    BY <1>3, Sizes
  <2> HIDE DEF S
  <2> QED
    BY <2>3, <2>4
<1> HIDE DEF n
<1>5. S.file \o n \in Seq(Int)
  BY <1>3, <1>4, ConcatProperties
<1>6. /\ T \in StreamType
      /\ T.head = S.head /\ T.headSeq = S.headSeq /\ T.headByteCount = S.headByteCount
      /\ T.lastSeq = S.lastSeq /\ T.ub_list = S.ub_list /\ T.arrived = S.arrived
      /\ T.plain = S.plain /\ T.finals = S.finals /\ T.file = S.file
  BY <1>2 DEF StreamType
<1>7. /\ D \in StreamType
      /\ D.head = S.head /\ D.headSeq = S.headSeq /\ D.headByteCount = S.headByteCount
      /\ D.lastSeq = S.lastSeq /\ D.ub_list = S.ub_list /\ D.arrived = S.arrived
      /\ D.plain = S.plain /\ D.finals = S.finals + 1 /\ D.file = S.file \o n
  <2>1. PICK m, f : m = S.finals + 1 /\ f = S.file \o n
    OBVIOUS
  <2>2. m \in Nat /\ f \in Seq(Int)
    BY <1>3, <1>5, <2>1
  <2>3. D = [S EXCEPT !.final = "done", !.finals = m, !.file = f]
    BY <2>1
  <2> HIDE DEF D
  <2> QED
    BY <1>2, <2>1, <2>2, <2>3 DEF StreamType
<1> HIDE DEF T, D
<1>8. DOMAIN st' = DOMAIN st /\ (\A t \in DOMAIN st : t # s => st'[t] = st[t]) /\ st'[s] \in {T, D}
  BY <1>1
<1> QED
  BY <1>1, <1>6, <1>7, <1>8 DEF n

\* Every step keeps the types of streams and memory.
LEMMA StreamsStep == BaseInv /\ [Next]_vars => StreamsInv'
<1> SUFFICES ASSUME BaseInv, [Next]_vars PROVE StreamsInv'
  OBVIOUS
<1>i. LinkInv /\ PoolInv /\ ThreadInv /\ StreamsInv
  BY DEF BaseInv
<1>s. StreamsInv <=>
        /\ mem \in [Nodes -> [Offsets -> Int]]
        /\ DOMAIN st \subseteq Streams
        /\ st = [s \in DOMAIN st |-> st[s]]
        /\ \A s \in DOMAIN st :
              st[s] \in StreamType /\ st[s].head \in heap /\ Len(st[s].ub_list) <= MaxUB
  BY DEF StreamsInv
<1>u. UNCHANGED << mem, st, heap >> => StreamsInv'
  BY <1>i DEF StreamsInv
<1>1. ASSUME NEW s \in Streams, MakeTest(s) PROVE StreamsInv'
  BY <1>1, <1>u DEF MakeTest
<1>2. ASSUME MakeTake PROVE StreamsInv'
  <2> DEFINE z == listener.stream
  <2>1. PICK n \in heap' :
              /\ n \in Nodes /\ n # Null
              /\ st' = [x \in DOMAIN st \cup {z} |-> IF x = z THEN NewStream(n) ELSE st[x]]
              /\ \/ pool.head # Null /\ n = pool.head /\ pool' = PoolAfterPop /\ heap' = heap
                 \/ n \in Nodes \ heap /\ pool' = pool /\ heap' = heap \cup {n}
              /\ z \in Streams \ DOMAIN st
              /\ UNCHANGED << to_tail, mem, killer, crowded >>
    BY <1>2, MakeEffect
  <2> HIDE DEF z
  <2>2. NewStream(n) \in StreamType /\ NewStream(n).head = n /\ NewStream(n).ub_list = << >>
    BY <2>1, NewStreamType DEF NewStream
  <2>3. Len(<< >>) <= MaxUB
    BY EmptySeq, MaxUBAssumption
  <2>4. DOMAIN st' = DOMAIN st \cup {z} /\ st'[z] = NewStream(n)
        /\ \A t \in DOMAIN st : st'[t] = st[t]
    BY <2>1
  <2>5. \A t \in DOMAIN st' :
          st'[t] \in StreamType /\ st'[t].head \in heap' /\ Len(st'[t].ub_list) <= MaxUB
    BY <1>i, <1>s, <2>1, <2>2, <2>3, <2>4
  <2> QED
    BY <1>i, <2>1, <2>4, <2>5 DEF StreamsInv
<1>3. ASSUME NEW s \in Streams, DestroyBegin(s) PROVE StreamsInv'
  BY <1>3, <1>u DEF DestroyBegin
<1>4. ASSUME DestroyStep PROVE StreamsInv'
  <2>1. /\ heap' = heap /\ mem' = mem
        /\ st' = [x \in DOMAIN st \ {killer.stream} |-> st[x]] \/ st' = st
    BY <1>4 DEF DestroyStep
  <2>2. CASE st' = st
    BY <1>u, <2>1, <2>2
  <2>3. CASE st' = [x \in DOMAIN st \ {killer.stream} |-> st[x]]
    <3>1. DOMAIN st' \subseteq DOMAIN st /\ \A t \in DOMAIN st' : st'[t] = st[t]
      BY <2>3
    <3> QED
      BY <1>i, <2>1, <2>3, <3>1 DEF StreamsInv
  <2> QED
    BY <2>1, <2>2, <2>3
<1>5. ASSUME NEW s \in Streams, Finalize(s) PROVE StreamsInv'
  <2>1. /\ s \in DOMAIN st /\ DOMAIN st' = DOMAIN st
        /\ \A t \in DOMAIN st : t # s => st'[t] = st[t]
        /\ st'[s] \in StreamType /\ st'[s].head = st[s].head /\ st'[s].ub_list = st[s].ub_list
    BY <1>5, FinalizeType
  <2>2. mem' = mem /\ heap' = heap
    BY <1>5 DEF Finalize
  <2>3. \A t \in DOMAIN st' :
          st'[t] \in StreamType /\ st'[t].head \in heap' /\ Len(st'[t].ub_list) <= MaxUB
    BY <1>i, <1>s, <2>1, <2>2
  <2>4. st' = [t \in DOMAIN st' |-> st'[t]]
    BY <1>5 DEF Finalize
  <2> QED
    BY <1>i, <2>1, <2>2, <2>3, <2>4 DEF StreamsInv
<1>6. ASSUME NEW s \in Streams, NEW k \in PacketIds, FileAppend(s, k) PROVE StreamsInv'
  <2>1. CASE Dies
    BY <2>1, <1>u DEF Dies
  <2>2. CASE Wrote(s, k)
    <3>1. /\ DOMAIN st' = DOMAIN st /\ s \in DOMAIN st
          /\ \A t \in DOMAIN st : t # s => st'[t] = st[t]
          /\ st'[s] \in StreamType /\ st'[s].head = st[s].head
          /\ Len(st'[s].ub_list) <= MaxUB
          /\ heap \subseteq heap'
      BY <2>2, WroteEffect
    <3>2. mem' \in [Nodes -> [Offsets -> Int]]
      <4>1. mem \in [Nodes -> [Offsets -> Int]]
        BY <1>i DEF StreamsInv
      <4>2. PICK off \in Nat : mem' = Copied(st[s].head, to_tail', off, k)
        BY <2>2, WroteEffect
      <4> QED
        BY <4>1, <4>2, CopiedType
    <3>3. \A t \in DOMAIN st' :
            st'[t] \in StreamType /\ st'[t].head \in heap' /\ Len(st'[t].ub_list) <= MaxUB
      BY <1>i, <1>s, <3>1
    <3>4. st' = [t \in DOMAIN st' |-> st'[t]]
      BY <2>2 DEF Wrote
    <3> QED
      BY <1>i, <3>1, <3>2, <3>3, <3>4 DEF StreamsInv
  <2> QED
    BY <1>6, <2>1, <2>2, AppendEffect
<1>7. UNCHANGED vars => StreamsInv'
  BY <1>u DEF vars
<1> QED
  BY <1>1, <1>2, <1>3, <1>4, <1>5, <1>6, <1>7 DEF Next

\* The first part of the invariant holds in every state.
THEOREM BaseCorrect == Spec => []BaseInv
<1>1. Init => BaseInv
  <2> SUFFICES ASSUME Init PROVE BaseInv
    OBVIOUS
  <2>1. LinkInv
    BY DEF Init, LinkInv
  <2>2. PoolInv
    BY Sizes DEF Init, PoolInv
  <2>3. ThreadInv
    BY DEF Init, ThreadInv, Idle, NoKill
  <2>4. DOMAIN st = {}
    BY DEF Init
  <2>5. mem \in [Nodes -> [Offsets -> Int]]
    BY DEF Init, Garbage, Junk
  <2>6. st \in [DOMAIN st -> StreamType]
    BY <2>4 DEF Init
  <2> QED
    BY <2>1, <2>2, <2>3, <2>4, <2>5, <2>6 DEF BaseInv, StreamsInv
<1>2. BaseInv /\ [Next]_vars => BaseInv'
  BY LinkStep, ThreadStep, StreamsStep DEF BaseInv
<1> QED
  BY <1>1, <1>2, PTL DEF Spec

\* pop tests recycled_head without the mutex; the node the test saw is there
\* when pop takes it, whatever the application pushes in between.
THEOREM PopCorrect == Spec => []PopFindsNode
<1>1. BaseInv => PopFindsNode
  BY DEF BaseInv, ThreadInv, PopFindsNode
<1> QED
  BY <1>1, BaseCorrect, PTL

-----------------------------------------------------------------------------
(* Nobody shares a node, as long as the pool is not crowded.               *)

\* A stream begins at a node from new.
LEMMA FirstInHeap ==
    ASSUME BaseInv
    PROVE  /\ \A s \in DOMAIN st : First(s) \in heap /\ First(s) \in Nodes /\ First(s) # Null
           /\ \A s \in DOMAIN st : to_tail[First(s)] \in heap \cup {Null}
           /\ killer = NoKill => \A s \in DOMAIN st : First(s) = st[s].head
<1>i. LinkInv /\ ThreadInv /\ StreamsInv
  BY DEF BaseInv
<1>1. \A s \in DOMAIN st : st[s].head \in heap /\ s # Null
  BY <1>i, Sizes DEF StreamsInv
<1>2. killer = NoKill => killer.stream = Null
  BY DEF NoKill
<1>3. killer # NoKill => killer.node \in heap
  BY <1>i DEF ThreadInv
<1>4. \A s \in DOMAIN st : First(s) \in heap
  BY <1>1, <1>2, <1>3 DEF First
<1>5. \A n \in heap : n \in Nodes /\ n # Null /\ to_tail[n] \in heap \cup {Null}
  BY <1>i, Sizes DEF LinkInv
<1> QED
  BY <1>1, <1>2, <1>4, <1>5 DEF First

\* a node from new or from a pool that is not crowded is nobody's
LEMMA ObtainedIsFree ==
    ASSUME BaseInv, OwnInv, ~crowded, NEW o \in Nodes,
           \/ pool.head # Null /\ o = pool.head
           \/ o \in Nodes \ heap
    PROVE  /\ to_tail[o] = Null
           /\ \A s \in DOMAIN st : Apart(o, First(s))
<1>1. CASE pool.head # Null /\ o = pool.head
  BY <1>1 DEF OwnInv
<1>2. CASE o \in Nodes \ heap
  <2>1. to_tail[o] = Null
    BY <1>2 DEF BaseInv, LinkInv
  <2>2. ASSUME NEW s \in DOMAIN st PROVE Apart(o, First(s))
    <3>1. First(s) \in heap /\ First(s) # Null /\ to_tail[First(s)] \in heap \cup {Null}
      BY FirstInHeap
    <3>2. o # Null
      BY Sizes
    <3> QED
      BY <1>2, <2>1, <3>1, <3>2 DEF Apart
  <2> QED
    BY <2>1, <2>2
<1> QED
  BY <1>1, <1>2

\* Every step keeps the nodes of streams and pool apart.
LEMMA OwnStep == BaseInv /\ OwnInv /\ [Next]_vars => OwnInv'
<1> SUFFICES ASSUME BaseInv, OwnInv, [Next]_vars, ~crowded' PROVE OwnInv'
  BY DEF OwnInv
<1>i. LinkInv /\ PoolInv /\ ThreadInv /\ StreamsInv
  BY DEF BaseInv
<1>f. \A s \in DOMAIN st : First(s) \in heap /\ First(s) \in Nodes /\ First(s) # Null
  BY FirstInHeap
<1>z. \A s \in DOMAIN st : s # Null
  BY <1>i, Sizes DEF StreamsInv
<1>u. ASSUME UNCHANGED << to_tail, pool, crowded >>, DOMAIN st' = DOMAIN st,
             \A s \in DOMAIN st : First(s)' = First(s)
      PROVE  OwnInv'
  BY <1>u DEF OwnInv, Short, Apart
<1>1. ASSUME NEW s \in Streams, MakeTest(s) PROVE OwnInv'
  BY <1>1, <1>u DEF MakeTest, First
<1>2. ASSUME MakeTake PROVE OwnInv'
  <2>0. PICK z : z = listener.stream
    OBVIOUS
  <2>1. PICK n \in heap' :
              /\ n \in Nodes /\ n # Null
              /\ st' = [x \in DOMAIN st \cup {z} |-> IF x = z THEN NewStream(n) ELSE st[x]]
              /\ \/ pool.head # Null /\ n = pool.head /\ pool' = PoolAfterPop /\ heap' = heap
                 \/ n \in Nodes \ heap /\ pool' = pool /\ heap' = heap \cup {n}
              /\ z \in Streams \ DOMAIN st
              /\ UNCHANGED << to_tail, mem, killer, crowded >>
    BY <1>2, <2>0, MakeEffect
  <2>2. to_tail[n] = Null /\ \A s \in DOMAIN st : Apart(n, First(s))
    BY <2>1, ObtainedIsFree
  <2>3. z # killer.stream /\ z # Null
    BY <1>i, <2>1, Sizes DEF ThreadInv, NoKill
  <2>4. DOMAIN st' = DOMAIN st \cup {z} /\ First(z)' = n
        /\ \A s \in DOMAIN st : First(s)' = First(s)
    BY <2>1, <2>3 DEF First, NewStream
  <2>5. \A s \in DOMAIN st' : Short(First(s))'
    BY <2>1, <2>2, <2>4 DEF OwnInv, Short
  <2>6. \A a, b : Apart(a, b)' <=> Apart(a, b)
    BY <2>1 DEF Apart
  <2>7. \A a, b : Apart(a, b) => Apart(b, a)
    BY DEF Apart
  <2>8. ASSUME NEW s \in DOMAIN st', NEW t \in DOMAIN st', s # t
        PROVE  Apart(First(s)', First(t)')
    BY <2>1, <2>2, <2>4, <2>7, <2>8 DEF OwnInv
  <2>9. /\ pool'.size = IF pool'.head = Null THEN 0 ELSE 1
        /\ pool'.head # Null =>
            /\ to_tail[pool'.head] = Null
            /\ \A s \in DOMAIN st' : Apart(pool'.head, First(s)')
    <3>1. CASE pool.head # Null /\ n = pool.head /\ pool' = PoolAfterPop
      <4>1. pool'.head = Null /\ pool'.size = pool.size - 1
        BY <1>i, <2>2, <3>1, PopEffect
      <4>2. pool.size = 1
        BY <2>1, <3>1 DEF OwnInv
      <4> QED
        BY <4>1, <4>2
    <3>2. CASE n \in Nodes \ heap /\ pool' = pool
      <4>1. ASSUME pool.head # Null PROVE Apart(pool.head, n)
        <5>1. pool.head \in heap /\ to_tail[pool.head] = Null
          BY <1>i, <2>1, <4>1 DEF PoolInv, OwnInv
        <5> QED
          BY <2>1, <2>2, <3>2, <4>1, <5>1 DEF Apart
      <4> QED
        BY <2>1, <2>4, <3>2, <4>1 DEF OwnInv
    <3> QED
      BY <2>1, <3>1, <3>2
  <2> QED
    BY <2>1, <2>5, <2>6, <2>8, <2>9 DEF OwnInv
<1>3. ASSUME NEW s \in Streams, DestroyBegin(s) PROVE OwnInv'
  <2>1. /\ killer = NoKill /\ killer' = [stream |-> s, node |-> st[s].head]
        /\ UNCHANGED << to_tail, pool, crowded, st >>
    BY <1>3 DEF DestroyBegin
  <2>2. \A t \in DOMAIN st : First(t)' = First(t)
    BY <1>z, <2>1 DEF First, NoKill
  <2> QED
    BY <1>u, <2>1, <2>2
<1>4. ASSUME DestroyStep PROVE OwnInv'
  <2>0. PICK d, n, next : d = killer.stream /\ n = killer.node /\ next = to_tail[n]
    OBVIOUS
  <2>1. d \in DOMAIN st /\ n = First(d) /\ n \in Nodes /\ n \in heap /\ n # Null
    BY <1>4, <1>i, <1>f, <2>0 DEF DestroyStep, ThreadInv, First
  <2>2. ~crowded /\ pool.head = Null
    BY <1>4, <1>i DEF DestroyStep, Push, ThreadInv
  <2>3. /\ pool'.head = n /\ pool'.size = pool.size + 1
        /\ to_tail' = [to_tail EXCEPT ![n] = Null]
    BY <1>4, <2>0, <2>2 DEF DestroyStep, Push
  <2>4. IF next = Null THEN /\ st' = [x \in DOMAIN st \ {d} |-> st[x]]
                            /\ killer' = NoKill
        ELSE st' = st /\ killer' = [killer EXCEPT !.node = next]
    BY <1>4, <2>0 DEF DestroyStep
  <2>5. Short(n) /\ \A t \in DOMAIN st : t # d => Short(First(t)) /\ Apart(n, First(t))
    BY <2>1, <2>2 DEF OwnInv
  <2>k. killer \in [stream : Streams \cup {Null}, node : heap \cup {Null}]
    BY <1>i DEF ThreadInv
  <2>6. /\ DOMAIN st' = IF next = Null THEN DOMAIN st \ {d} ELSE DOMAIN st
        /\ next # Null => First(d)' = next
        /\ \A t \in DOMAIN st : t # d => First(t)' = First(t)
    <3>1. CASE next = Null
      <4>1. killer'.stream = Null
        BY <2>4, <3>1 DEF NoKill
      <4>2. DOMAIN st' = DOMAIN st \ {d} /\ \A t \in DOMAIN st : t # d => st'[t] = st[t]
        BY <2>4, <3>1
      <4> QED
        BY <1>z, <2>0, <3>1, <4>1, <4>2 DEF First
    <3>2. CASE next # Null
      <4>1. st' = st /\ killer'.stream = d /\ killer'.node = next
        BY <2>0, <2>4, <2>k, <3>2
      <4> QED
        BY <2>0, <3>2, <4>1 DEF First
    <3> QED
      BY <3>1, <3>2
  <2>t. to_tail \in [Nodes -> Nodes \cup {Null}]
    BY <1>i DEF LinkInv
  <2>o. ASSUME NEW t \in DOMAIN st, t # d
        PROVE  /\ to_tail'[First(t)] = to_tail[First(t)] /\ First(t) # n
               /\ to_tail[First(t)] # n
               /\ to_tail[First(t)] # Null => to_tail'[to_tail[First(t)]] = to_tail[to_tail[First(t)]]
    <3>1. First(t) \in Nodes /\ to_tail[First(t)] \in Nodes \cup {Null}
      BY <1>f, <2>t
    <3>2. First(t) # n /\ to_tail[First(t)] # n
      BY <2>5, <2>o DEF Apart
    <3> QED
      BY <2>t, <2>1, <2>3, <3>1, <3>2
  <2>n. /\ to_tail'[n] = Null
        /\ next # Null => next # n /\ to_tail'[next] = Null /\ to_tail[next] = Null
    <3>1. next # Null => next # n /\ to_tail[next] = Null /\ next \in Nodes
      BY <2>0, <2>1, <2>5, <2>t DEF Short
    <3>2. to_tail'[n] = Null
      BY <2>1, <2>3, <2>t
    <3> QED
      BY <2>3, <2>t, <3>1, <3>2
  <2>7. ASSUME NEW t \in DOMAIN st' PROVE Short(First(t))'
    <3>1. CASE t = d
      <4>1. next # Null /\ First(t)' = next
        BY <2>6, <3>1
      <4> QED
        BY <2>n, <4>1 DEF Short
    <3>2. CASE t # d
      <4>1. t \in DOMAIN st /\ First(t)' = First(t)
        BY <2>6, <3>2
      <4> QED
        BY <2>5, <2>o, <3>2, <4>1 DEF Short
    <3> QED
      BY <3>1, <3>2
  <2>8. ASSUME NEW t \in DOMAIN st, t # d, next # Null
        PROVE  Apart(next, First(t))' /\ Apart(First(t), next)'
    <3>1. Apart(n, First(t))
      BY <2>5, <2>8
    <3>2. First(t) # Null
      BY <1>f
    <3>3. First(t)' = First(t)
      BY <2>6, <2>8
    <3> QED
      BY <2>0, <2>8, <2>n, <2>o, <3>1, <3>2, <3>3 DEF Apart
  <2>9. ASSUME NEW t \in DOMAIN st', NEW q \in DOMAIN st', t # q
        PROVE  Apart(First(t), First(q))'
    <3>0. t \in DOMAIN st /\ q \in DOMAIN st
      BY <2>6
    <3>1. CASE t = d
      <4>1. next # Null /\ First(t)' = next /\ q # d /\ First(q)' = First(q)
        BY <2>6, <2>9, <3>0, <3>1
      <4>2. Apart(next, First(q))'
        BY <2>8, <3>0, <4>1
      <4> QED
        BY <4>1, <4>2 DEF Apart
    <3>2. CASE q = d
      <4>1. next # Null /\ First(q)' = next /\ t # d /\ First(t)' = First(t)
        BY <2>6, <2>9, <3>0, <3>2
      <4>2. Apart(First(t), next)'
        BY <2>8, <3>0, <4>1
      <4> QED
        BY <4>1, <4>2 DEF Apart
    <3>3. CASE t # d /\ q # d
      <4>1. First(t)' = First(t) /\ First(q)' = First(q) /\ Apart(First(t), First(q))
        BY <2>2, <2>6, <2>9, <3>0, <3>3 DEF OwnInv
      <4> QED
        BY <2>o, <3>0, <3>3, <4>1 DEF Apart
    <3> QED
      BY <3>1, <3>2, <3>3
  <2>10. ASSUME NEW t \in DOMAIN st' PROVE Apart(pool.head, First(t))'
    <3>0. t \in DOMAIN st
      BY <2>6
    <3>1. CASE t = d
      <4>1. next # Null /\ First(t)' = next
        BY <2>6, <3>1
      <4> QED
        BY <2>1, <2>3, <2>n, <4>1 DEF Apart
    <3>2. CASE t # d
      <4>1. First(t)' = First(t) /\ Apart(n, First(t)) /\ First(t) # Null
        BY <1>f, <2>5, <2>6, <3>0, <3>2
      <4> QED
        BY <2>1, <2>3, <2>n, <2>o, <3>0, <3>2, <4>1 DEF Apart
    <3> QED
      BY <3>1, <3>2
  <2>11. pool'.size = 1
    BY <2>2, <2>3 DEF OwnInv
  <2> QED
    BY <2>1, <2>3, <2>7, <2>9, <2>10, <2>11, <2>n DEF OwnInv
<1>5. ASSUME NEW s \in Streams, Finalize(s) PROVE OwnInv'
  <2>1. /\ DOMAIN st' = DOMAIN st /\ \A t \in DOMAIN st : st'[t].head = st[t].head
    BY <1>5, FinalizeType
  <2>2. UNCHANGED << to_tail, pool, crowded, killer >>
    BY <1>5 DEF Finalize
  <2>3. \A t \in DOMAIN st : First(t)' = First(t)
    BY <2>1, <2>2 DEF First
  <2> QED
    BY <1>u, <2>1, <2>2, <2>3
<1>6. ASSUME NEW s \in Streams, NEW k \in PacketIds, FileAppend(s, k) PROVE OwnInv'
  <2>1. CASE Dies
    BY <2>1, <1>u DEF Dies, First
  <2>2. CASE Wrote(s, k)
    <3>1. /\ DOMAIN st' = DOMAIN st /\ s \in DOMAIN st
          /\ \A t \in DOMAIN st : t # s => st'[t] = st[t]
          /\ st'[s].head = st[s].head
      BY <2>2, WroteEffect
    <3>2. killer' = killer /\ crowded' = crowded /\ killer.stream # s
      BY <2>2 DEF Wrote
    <3>3. \A t \in DOMAIN st : First(t)' = First(t)
      BY <3>1, <3>2 DEF First
    <3>4. CASE UNCHANGED << to_tail, heap, pool >>
      BY <1>u, <3>1, <3>2, <3>3, <3>4
    <3>5. CASE Obtain /\ to_tail' = [to_tail EXCEPT ![st[s].head] = Obtained]
      <4> DEFINE h == First(s)
                 o == Obtained
      <4>1. h = st[s].head /\ h \in Nodes /\ h \in heap /\ h # Null
        BY <1>f, <3>1, <3>2 DEF First
      <4>2. /\ o \in Nodes /\ o # Null
            /\ \/ pool.head # Null /\ o = pool.head /\ pool' = PoolAfterPop
               \/ pool.head = Null /\ o \in Nodes \ heap /\ pool' = pool
        BY <1>i, <3>5, ObtainEffect
      <4>3. to_tail[o] = Null /\ \A t \in DOMAIN st : Apart(o, First(t))
        BY <3>2, <4>2, ObtainedIsFree
      <4>4. to_tail' = [to_tail EXCEPT ![h] = o] /\ to_tail \in [Nodes -> Nodes \cup {Null}]
        BY <1>i, <3>5, <4>1 DEF LinkInv
      <4>5. o # h
        BY <3>1, <4>3 DEF Apart
      <4>6. pool'.head = Null /\ pool'.size = 0
        <5>1. CASE pool.head # Null /\ o = pool.head /\ pool' = PoolAfterPop
          <6>1. pool'.head = Null /\ pool'.size = pool.size - 1
            BY <1>i, <4>3, <5>1, PopEffect
          <6>2. pool.size = 1
            BY <3>2, <5>1 DEF OwnInv
          <6> QED
            BY <6>1, <6>2
        <5>2. CASE pool.head = Null /\ pool' = pool
          BY <3>2, <5>2 DEF OwnInv
        <5> QED
          BY <4>2, <5>1, <5>2
      <4> HIDE DEF o
      <4>7. to_tail'[h] = o /\ to_tail'[o] = Null
        BY <4>1, <4>2, <4>3, <4>4, <4>5
      <4>8. ASSUME NEW t \in DOMAIN st, t # s
            PROVE  /\ to_tail'[First(t)] = to_tail[First(t)]
                   /\ Short(First(t)) /\ Apart(h, First(t)) /\ Apart(o, First(t))
                   /\ First(t) # Null
                   /\ to_tail[First(t)] # Null =>
                        to_tail'[to_tail[First(t)]] = to_tail[to_tail[First(t)]]
        <5>1. Short(First(t)) /\ Apart(h, First(t))
          BY <3>1, <3>2, <4>8 DEF OwnInv
        <5>2. First(t) # h /\ to_tail[First(t)] # h /\ First(t) \in Nodes /\ First(t) # Null
          BY <1>f, <5>1 DEF Apart
        <5>3. to_tail[First(t)] \in Nodes \cup {Null}
          BY <4>4, <5>2
        <5> HIDE DEF h
        <5> QED
          BY <4>3, <4>4, <5>1, <5>2, <5>3
      <4>9. ASSUME NEW t \in DOMAIN st PROVE Short(First(t))'
        <5>1. CASE t = s
          BY <3>3, <4>2, <4>5, <4>7, <5>1 DEF Short
        <5>2. CASE t # s
          BY <3>3, <4>8, <5>2 DEF Short
        <5> QED
          BY <5>1, <5>2
      <4>10. ASSUME NEW t \in DOMAIN st, t # s
             PROVE  Apart(h, First(t))' /\ Apart(First(t), h)'
        <5>1. Apart(h, First(t)) /\ Apart(o, First(t)) /\ to_tail'[First(t)] = to_tail[First(t)]
          BY <4>8, <4>10
        <5>2. First(t)' = First(t) /\ h' = h
          BY <3>1, <3>3
        <5> QED
          BY <4>2, <4>7, <5>1, <5>2 DEF Apart
      <4>11. ASSUME NEW t \in DOMAIN st, NEW q \in DOMAIN st, t # q
             PROVE  Apart(First(t), First(q))'
        <5>1. CASE t = s
          BY <4>10, <4>11, <5>1
        <5>2. CASE q = s
          BY <4>10, <4>11, <5>2
        <5>3. CASE t # s /\ q # s
          <6>1. Apart(First(t), First(q)) /\ First(t)' = First(t) /\ First(q)' = First(q)
            BY <3>2, <3>3, <4>11 DEF OwnInv
          <6> QED
            BY <4>8, <5>3, <6>1 DEF Apart
        <5> QED
          BY <5>1, <5>2, <5>3
      <4> QED
        BY <3>1, <4>6, <4>9, <4>11 DEF OwnInv
    <3> QED
      BY <2>2, <3>4, <3>5 DEF Wrote
  <2> QED
    BY <1>6, <2>1, <2>2, AppendEffect
<1>7. UNCHANGED vars => OwnInv'
  BY <1>u DEF vars, First
<1> QED
  BY <1>1, <1>2, <1>3, <1>4, <1>5, <1>6, <1>7 DEF Next

-----------------------------------------------------------------------------
(* The bytes of plain streams.                                             *)

\* Two bytes of a stream have the same place only if they are the same.
LEMMA PlaceUnique ==
    ASSUME NEW p \in Nat, NEW q \in Nat, p < 2 * NodeSize, q < 2 * NodeSize,
           p % NodeSize = q % NodeSize, p < NodeSize <=> q < NodeSize
    PROVE  p = q
<1>1. \A x \in Nat : x < 2 * NodeSize =>
         x % NodeSize = IF x < NodeSize THEN x ELSE x - NodeSize
  <2> SUFFICES ASSUME NEW x \in Nat, x < 2 * NodeSize
               PROVE  x % NodeSize = IF x < NodeSize THEN x ELSE x - NodeSize
    OBVIOUS
  <2>1. CASE x < NodeSize
    BY <2>1, Sizes
  <2>2. CASE x >= NodeSize
    BY <2>2, Sizes
  <2> QED
    BY <2>1, <2>2, Sizes
<1>2. p % NodeSize = (IF p < NodeSize THEN p ELSE p - NodeSize)
  BY <1>1
<1>3. q % NodeSize = (IF q < NodeSize THEN q ELSE q - NodeSize)
  BY <1>1
<1> QED
  BY <1>2, <1>3, Sizes

\* What a copied packet changes, and what it does not.
LEMMA CopyKeeps ==
    ASSUME NEW k \in PacketIds, NEW h \in Nodes, NEW L \in [Nodes -> Nodes \cup {Null}],
           L[h] # Null => L[h] # h /\ L[L[h]] = Null, NEW off \in Nat,
           NEW c, c = Copied(h, L, off, k)
    PROVE  /\ \A n \in Nodes, o \in Offsets : n # h /\ n # L[h] => c[n][o] = mem[n][o]
           /\ \A p \in Nat : p < NodeSize /\ p < off => c[h][p] = mem[h][p]
           /\ off = Start(k) =>
                \A p \in Nat : \A n \in Nodes :
                   p < 2 * NodeSize /\ n = (IF p < NodeSize THEN h ELSE L[h]) =>
                      \/ c[n][p % NodeSize] = p
                      \/ /\ c[n][p % NodeSize] = mem[n][p % NodeSize]
                         /\ ~(Start(k) <= p /\ p < Start(k) + Length(k))
<1> DEFINE At(n, o, p) == p < 2 * NodeSize /\ n = (IF p < NodeSize THEN h ELSE L[h])
                          /\ o = p % NodeSize
<1>1. ASSUME NEW n \in Nodes, NEW o \in Offsets
      PROVE  \/ c[n][o] = mem[n][o] /\ \A d \in 0 .. (Length(k) - 1) : ~At(n, o, off + d)
             \/ \E d \in 0 .. (Length(k) - 1) : At(n, o, off + d) /\ c[n][o] = Start(k) + d
  BY CopiedPlaces
<1>2. Length(k) \in Nat /\ Length(k) > 0 /\ Start(k) \in Nat
  BY PacketFits, Sizes
<1>3. ASSUME NEW n \in Nodes, NEW o \in Offsets, n # h, n # L[h]
      PROVE  c[n][o] = mem[n][o]
  <2>1. \A p : ~At(n, o, p)
    BY <1>3
  <2> HIDE DEF At
  <2> QED
    BY <1>1, <2>1
<1>4. ASSUME NEW p \in Nat, p < NodeSize, p < off PROVE c[h][p] = mem[h][p]
  <2>1. p \in Offsets
    BY <1>4, Sizes DEF Offsets
  <2>2. ASSUME NEW d \in 0 .. (Length(k) - 1), At(h, p, off + d) PROVE FALSE
    <3>0. off + d \in Nat /\ off + d >= off
      OBVIOUS
    <3>1. off + d < NodeSize
      <4>1. CASE L[h] = Null
        BY <2>2, <4>1, Sizes
      <4>2. CASE L[h] # Null
        BY <2>2, <4>2
      <4> QED
        BY <4>1, <4>2
    <3>2. (off + d) % NodeSize = off + d
      BY <3>0, <3>1, Sizes
    <3> QED
      BY <1>4, <2>2, <3>0, <3>2
  <2> HIDE DEF At
  <2> QED
    BY <1>1, <2>1, <2>2
<1>5. ASSUME off = Start(k), NEW p \in Nat, NEW n \in Nodes,
             p < 2 * NodeSize, n = (IF p < NodeSize THEN h ELSE L[h])
      PROVE  \/ c[n][p % NodeSize] = p
             \/ /\ c[n][p % NodeSize] = mem[n][p % NodeSize]
                /\ ~(Start(k) <= p /\ p < Start(k) + Length(k))
  <2>o. PICK o : o = p % NodeSize
    OBVIOUS
  <2>1. o \in Offsets
    BY <2>o, Sizes DEF Offsets
  <2>2. CASE c[n][o] = mem[n][o] /\ \A d \in 0 .. (Length(k) - 1) : ~At(n, o, off + d)
    <3> SUFFICES ASSUME Start(k) <= p, p < Start(k) + Length(k) PROVE FALSE
      BY <2>2, <2>o
    <3>1. p - off \in 0 .. (Length(k) - 1) /\ off + (p - off) = p
      BY <1>2, <1>5
    <3>2. At(n, o, p)
      BY <1>5, <2>o
    <3> HIDE DEF At
    <3> QED
      BY <2>2, <3>1, <3>2
  <2>3. ASSUME NEW d \in 0 .. (Length(k) - 1), At(n, o, off + d), c[n][o] = Start(k) + d
        PROVE  c[n][o] = p
    <3>0. off + d \in Nat /\ off + d < 2 * NodeSize /\ o = (off + d) % NodeSize
          /\ n = (IF off + d < NodeSize THEN h ELSE L[h])
      BY <2>3
    <3>1. p < NodeSize <=> off + d < NodeSize
      <4>1. n # Null
        BY Sizes
      <4>2. h # L[h]
        BY Sizes
      <4> QED
        BY <1>5, <3>0, <4>1, <4>2
    <3>2. p = off + d
      BY <1>5, <2>o, <3>0, <3>1, PlaceUnique
    <3> QED
      BY <1>5, <2>3, <3>2
  <2> HIDE DEF At
  <2>4. (c[n][o] = mem[n][o] /\ \A d \in 0 .. (Length(k) - 1) : ~At(n, o, off + d))
        \/ c[n][o] = p
    BY <1>1, <2>1, <2>3
  <2> QED
    BY <2>2, <2>4, <2>o
<1> QED
  BY <1>3, <1>4, <1>5

\* A packet of another stream does not touch a stream's bytes.
LEMMA OthersKeepBytes ==
    ASSUME BaseInv, OwnInv, BaseInv', OwnInv', ~crowded', NEW s, NEW k \in PacketIds, Wrote(s, k),
           NEW t \in DOMAIN st, t # s, killer.stream # t, st[t].plain, PlainList(st[t]),
           PlainBytes(st[t])
    PROVE  PlainBytes(st[t])'
<1>1. /\ DOMAIN st' = DOMAIN st /\ s \in DOMAIN st /\ st'[t] = st[t]
      /\ st'[s].head = st[s].head
  BY WroteEffect
<1>2. killer' = killer /\ crowded' = crowded /\ killer.stream # s
  BY DEF Wrote
<1>3. PICK off \in Nat : mem' = Copied(st[s].head, to_tail', off, k)
  BY WroteEffect
<1>4. PICK h, g : h = st[s].head /\ g = st[t].head
  OBVIOUS
<1>5. First(s) = h /\ First(t) = g /\ First(s)' = h /\ First(t)' = g
  BY <1>1, <1>2, <1>4 DEF First
<1>6. Apart(h, g)' /\ Short(h)' /\ Short(g)' /\ Apart(h, g)
  BY <1>1, <1>2, <1>5 DEF OwnInv, Apart, Short
<1>7. h \in Nodes /\ g \in Nodes /\ g # Null /\ to_tail \in [Nodes -> Nodes \cup {Null}]
      /\ to_tail' \in [Nodes -> Nodes \cup {Null}]
  BY <1>1, <1>5, FirstInHeap DEF BaseInv, LinkInv
<1>8. to_tail'[g] = to_tail[g]
  <2>1. g # h
    BY <1>6 DEF Apart
  <2> QED
    BY <1>4, <1>7, <2>1 DEF Wrote
<1>9. \A n \in Nodes, o \in Offsets : n # h /\ n # to_tail'[h] => mem'[n][o] = mem[n][o]
  BY <1>3, <1>4, <1>6, <1>7, CopyKeeps DEF Short
<1>10. \A o \in Offsets : mem'[g][o] = mem[g][o]
  BY <1>6, <1>7, <1>9 DEF Apart
<1>11. ASSUME to_tail[g] # Null
       PROVE  \A o \in Offsets : mem'[to_tail[g]][o] = mem[to_tail[g]][o]
  <2>1. to_tail[g] \in Nodes
    BY <1>7, <1>11
  <2>2. to_tail[g] # h /\ to_tail[g] # to_tail'[h]
    BY <1>6, <1>8, <1>11 DEF Apart
  <2> QED
    BY <1>9, <2>1, <2>2
<1>12. \A p \in 0 .. (st[t].lastSeq - 1) : p \in Offsets
  <2>1. st[t] \in StreamType /\ st[t].lastSeq = st[t].headByteCount
    BY DEF BaseInv, StreamsInv, PlainList
  <2>2. st[t].lastSeq \in 0 .. NodeSize
    BY <2>1 DEF StreamType
  <2> QED
    BY <2>2, Sizes DEF Offsets
<1>13. ASSUME NEW p \in Int, Placed(g, p) PROVE Placed(g, p)'
  <2>1. p % NodeSize \in Offsets
    BY Sizes DEF Offsets
  <2>2. NodeOf(g, p)' = NodeOf(g, p)
    BY <1>8 DEF NodeOf
  <2>3. NodeOf(g, p) = g \/ (NodeOf(g, p) = to_tail[g] /\ to_tail[g] # Null)
    BY <1>13 DEF NodeOf, Placed
  <2> QED
    BY <1>10, <1>11, <1>13, <2>1, <2>2, <2>3 DEF Placed
<1>14. \A q \in ToSet(st[t].arrived) : \A p \in Start(q) .. (Start(q) + Length(q) - 1) :
          Placed(g, p)'
  BY <1>4, <1>13 DEF PlainBytes
<1>15. \A p \in 0 .. (st[t].lastSeq - 1) : mem'[g][p] = p
  BY <1>4, <1>10, <1>12 DEF PlainBytes
<1> QED
  BY <1>1, <1>4, <1>14, <1>15 DEF PlainBytes

\* The packets of a stream are indexed by PacketIds.
LEMMA ArrivedPackets ==
    ASSUME NEW S \in StreamType, NEW q \in ToSet(S.arrived)
    PROVE  q \in PacketIds
<1>1. S.arrived \in Seq(PacketIds)
  BY DEF StreamType
<1> QED
  BY <1>1, ElementOfSeq, LenProperties DEF ToSet

\* A plain stream that takes a packet and remains plain: its list, its file and
\* its bytes.
LEMMA OwnPacket ==
    ASSUME BaseInv, OwnInv, BaseInv', OwnInv', NEW s, NEW k \in PacketIds, Wrote(s, k),
           st'[s].plain, st[s].plain => PlainList(st[s])
    PROVE  /\ st[s].plain /\ PlainList(st'[s])
           /\ ~crowded' /\ PlainFile(st[s]) /\ PlainBytes(st[s]) =>
                PlainFile(st'[s]) /\ PlainBytes(st[s])'
<1>1. /\ DOMAIN st' = DOMAIN st /\ s \in DOMAIN st /\ st'[s].head = st[s].head
      /\ st'[s] \in StreamType
  BY WroteEffect
<1>2. killer' = killer /\ crowded' = crowded /\ killer.stream # s
  BY DEF Wrote
<1>3. PICK off \in Nat : /\ mem' = Copied(st[s].head, to_tail', off, k)
                         /\ StaysPlain(s, k, st'[s], off)
  BY WroteEffect
<1>4. st[s].plain /\ PlainList(st[s]) /\ st[s] \in StreamType
  BY <1>1, <1>3 DEF StaysPlain, BaseInv, StreamsInv
<1>5. PICK S, R : S = st[s] /\ R = st'[s]
  OBVIOUS
<1>6. S \in StreamType /\ PlainList(S) /\ S.lastSeq = S.headByteCount /\ R \in StreamType
      /\ StaysPlain(s, k, R, off)
  BY <1>1, <1>3, <1>4, <1>5 DEF PlainList
<1>7. /\ PlainList(R) /\ S.lastSeq <= Start(k)
      /\ S.headSeq = 0 => off = Start(k)
      /\ R.arrived = Append(S.arrived, k) /\ R.headSeq = S.headSeq
      /\ R.file = S.file /\ R.finals = S.finals
      /\ R.lastSeq = S.lastSeq \/ (R.lastSeq = S.lastSeq + Length(k) /\ S.lastSeq = Start(k))
  <2>0. Start(k) \in Nat /\ S.lastSeq \in Nat
    BY <1>6, PacketFits DEF StreamType
  <2>1. CASE /\ CheckUB(S, BlockOf(k)).msg = "ONSEQ"
             /\ R = Followed(S, k) /\ off = S.headByteCount
    <3>1. PlainList(R) /\ S.lastSeq = Start(k)
      BY <1>6, <2>1, FollowedPlain
    <3>2. /\ R.arrived = Append(S.arrived, k) /\ R.headSeq = S.headSeq
          /\ R.file = S.file /\ R.finals = S.finals /\ R.lastSeq = S.lastSeq + Length(k)
      BY <1>6, <2>1 DEF Followed, StreamType
    <3> QED
      BY <1>6, <2>0, <2>1, <3>1, <3>2
  <2>2. CASE /\ CheckUB(S, BlockOf(k)).msg \in {"ADDED", "EXTENDED"}
             /\ ~After(S.lastSeq, Start(k))
             /\ R = Parked(S, k, CheckUB(S, BlockOf(k)).list)
             /\ off = Start(k) - S.headSeq
    <3>1. PlainList(R) /\ S.lastSeq <= Start(k)
      BY <1>6, <2>2, ParkedPlain
    <3> DEFINE l == CheckUB(S, BlockOf(k)).list
    <3> HIDE DEF l
    <3>2. R = Parked(S, k, l)
      BY <2>2 DEF l
    <3>3. /\ R.arrived = Append(S.arrived, k) /\ R.headSeq = S.headSeq
          /\ R.file = S.file /\ R.finals = S.finals /\ R.lastSeq = S.lastSeq
      BY <1>6, <3>2 DEF Parked, StreamType
    <3> QED
      BY <2>0, <2>2, <3>1, <3>3
  <2> QED
    BY <1>5, <1>6, <2>1, <2>2 DEF StaysPlain
<1>8. ASSUME ~crowded', PlainFile(S), PlainBytes(S)
      PROVE  PlainFile(R) /\ PlainBytes(R)'
  <2>1. PlainFile(R)
    BY <1>7, <1>8 DEF PlainFile
  <2>2. PICK h : h = S.head
    OBVIOUS
  <2>3. First(s) = h /\ First(s)' = h
    BY <1>1, <1>2, <1>5, <2>2 DEF First
  <2>4. Short(h)' /\ h \in Nodes /\ h # Null /\ to_tail' \in [Nodes -> Nodes \cup {Null}]
        /\ to_tail \in [Nodes -> Nodes \cup {Null}]
    BY <1>1, <1>8, <2>3, FirstInHeap DEF OwnInv, Short, BaseInv, LinkInv
  <2>5. off = Start(k)
    BY <1>7, <1>8 DEF PlainFile
  <2>6. Start(k) \in Nat /\ Length(k) \in 1 .. PacketSize /\ Length(k) \in Nat
    BY PacketFits, Sizes
  <2>7. /\ \A p \in Nat : p < NodeSize /\ p < off => mem'[h][p] = mem[h][p]
        /\ \A p \in Nat : \A n \in Nodes :
             p < 2 * NodeSize /\ n = (IF p < NodeSize THEN h ELSE to_tail'[h]) =>
                \/ mem'[n][p % NodeSize] = p
                \/ /\ mem'[n][p % NodeSize] = mem[n][p % NodeSize]
                   /\ ~(Start(k) <= p /\ p < Start(k) + Length(k))
    <3>1. mem' = Copied(h, to_tail', off, k)
      BY <1>3, <1>5, <2>2
    <3>2. PICK L, c : L = to_tail' /\ c = mem'
      OBVIOUS
    <3>3. L \in [Nodes -> Nodes \cup {Null}] /\ (L[h] # Null => L[h] # h /\ L[L[h]] = Null)
      BY <2>4, <3>2 DEF Short
    <3>4. c = Copied(h, L, off, k) /\ h \in Nodes
      BY <2>4, <3>1, <3>2
    <3> QED
      BY <2>5, <3>2, <3>3, <3>4, CopyKeeps
  <2>8. ASSUME NEW p \in Nat, p < 2 * NodeSize, NodeOf(h, p)' # Null,
               \/ Placed(h, p) /\ (p < NodeSize \/ to_tail'[h] = to_tail[h])
               \/ Start(k) <= p /\ p < Start(k) + Length(k)
        PROVE  Placed(h, p)'
    <3>1. PICK n : n = IF p < NodeSize THEN h ELSE to_tail'[h]
      OBVIOUS
    <3>2. n \in Nodes /\ NodeOf(h, p)' = n
      BY <2>4, <2>8, <3>1 DEF NodeOf
    <3>3. \/ mem'[n][p % NodeSize] = p
          \/ /\ mem'[n][p % NodeSize] = mem[n][p % NodeSize]
             /\ ~(Start(k) <= p /\ p < Start(k) + Length(k))
      BY <2>7, <2>8, <3>1, <3>2
    <3>4. Placed(h, p) /\ (p < NodeSize \/ to_tail'[h] = to_tail[h]) => mem[n][p % NodeSize] = p
      BY <3>1 DEF Placed, NodeOf
    <3> QED
      BY <2>8, <3>2, <3>3, <3>4 DEF Placed
  <2>9. ASSUME NEW p \in Nat, Placed(h, p) PROVE Placed(h, p)'
    <3>1. p < 2 * NodeSize
      BY <2>9 DEF Placed
    <3>2. CASE p < NodeSize
      <4>1. NodeOf(h, p)' # Null
        BY <2>4, <3>2 DEF NodeOf
      <4> QED
        BY <2>8, <2>9, <3>1, <3>2, <4>1
    <3>3. CASE ~(p < NodeSize)
      <4>1. to_tail[h] # Null
        BY <2>9, <3>3 DEF Placed, NodeOf
      <4>2. to_tail'[h] = to_tail[h]
        BY <1>5, <1>6, <2>2, <4>1 DEF StaysPlain
      <4>3. NodeOf(h, p)' # Null
        BY <3>3, <4>1, <4>2 DEF NodeOf
      <4> QED
        BY <2>8, <2>9, <3>1, <4>2, <4>3
    <3> QED
      BY <3>2, <3>3
  <2>10. ASSUME NEW p \in Nat, Start(k) <= p, p < Start(k) + Length(k)
         PROVE  Placed(h, p)'
    <3>1. p < 2 * NodeSize /\ NodeOf(h, p)' # Null
      <4>1. CASE Start(k) + Length(k) <= NodeSize
        <5>1. p < NodeSize /\ p < 2 * NodeSize
          BY <2>6, <2>10, <4>1, Sizes
        <5> QED
          BY <2>4, <5>1 DEF NodeOf
      <4>2. CASE Hop(h, (off + Length(k) - 1) \div NodeSize, to_tail') # Null
        <5>1. PICK e : e = off + Length(k) - 1
          OBVIOUS
        <5>2. e \in Nat /\ p <= e
          BY <2>5, <2>6, <2>10, <5>1
        <5>3. e \div NodeSize \in Nat
          BY <5>2, Sizes
        <5>4. Hop(h, e \div NodeSize, to_tail') =
                IF e \div NodeSize = 0 THEN h
                ELSE IF e \div NodeSize = 1 THEN to_tail'[h] ELSE Null
          BY <2>4, <5>3, HopShort DEF Short
        <5>5. \/ e \div NodeSize = 0
              \/ e \div NodeSize = 1 /\ to_tail'[h] # Null
          BY <4>2, <5>1, <5>4
        <5>6. e \div NodeSize = 0 => e < NodeSize
          BY <5>2, Sizes
        <5>7. e \div NodeSize = 1 => e < 2 * NodeSize
          BY <5>2, Sizes
        <5>8. p < 2 * NodeSize /\ (p < NodeSize \/ to_tail'[h] # Null)
          BY <5>2, <5>5, <5>6, <5>7, Sizes
        <5> QED
          BY <2>4, <5>8 DEF NodeOf
      <4>3. \/ Start(k) + Length(k) <= NodeSize
            \/ Hop(h, (off + Length(k) - 1) \div NodeSize, to_tail') # Null
        BY <1>5, <1>6, <2>2, <2>5 DEF StaysPlain
      <4> QED
        BY <4>1, <4>2, <4>3
    <3> QED
      BY <2>8, <2>10, <3>1
  <2>11. ASSUME NEW q \in ToSet(R.arrived), NEW p \in Start(q) .. (Start(q) + Length(q) - 1)
         PROVE  Placed(h, p)'
    <3>1. q \in PacketIds
      BY <1>6, ArrivedPackets
    <3>2. Start(q) \in Nat /\ Length(q) \in Nat
      BY <3>1, PacketFits, Sizes
    <3>3. p \in Nat /\ Start(q) <= p /\ p < Start(q) + Length(q)
      BY <3>2
    <3>4. q = k \/ q \in ToSet(S.arrived)
      <4>1. S.arrived \in Seq(PacketIds)
        BY <1>6 DEF StreamType
      <4>2. Len(S.arrived) \in Nat /\ DOMAIN S.arrived = 1 .. Len(S.arrived)
        BY <4>1, LenProperties
      <4>3. /\ DOMAIN R.arrived = 1 .. (Len(S.arrived) + 1)
            /\ \A i \in 1 .. Len(S.arrived) : R.arrived[i] = S.arrived[i]
            /\ R.arrived[Len(S.arrived) + 1] = k
        BY <1>7, <4>1, AppendProperties, LenProperties
      <4>4. \A i \in 1 .. (Len(S.arrived) + 1) :
               i \in 1 .. Len(S.arrived) \/ i = Len(S.arrived) + 1
        BY <4>2
      <4> QED
        BY <4>2, <4>3, <4>4 DEF ToSet
    <3>5. CASE q = k
      BY <2>10, <3>3, <3>5
    <3>6. CASE q \in ToSet(S.arrived)
      <4>1. Placed(h, p)
        BY <1>8, <2>2, <3>6 DEF PlainBytes
      <4> QED
        BY <2>9, <3>3, <4>1
    <3> QED
      BY <3>4, <3>5, <3>6
  <2>12. ASSUME NEW p \in 0 .. (R.lastSeq - 1) PROVE mem'[h][p] = p
    <3>0. S.lastSeq \in Nat /\ R.lastSeq \in Nat /\ R.headByteCount \in 0 .. NodeSize
      BY <1>6 DEF StreamType
    <3>1. p \in Nat /\ p < NodeSize
      BY <1>7, <3>0, Sizes DEF PlainList
    <3>2. CASE p < S.lastSeq
      <4>1. mem[h][p] = p
        BY <1>8, <2>2, <3>0, <3>1, <3>2 DEF PlainBytes
      <4>2. p < off
        BY <1>7, <2>5, <2>6, <3>0, <3>1, <3>2
      <4> QED
        BY <2>7, <3>1, <4>1, <4>2
    <3>3. CASE ~(p < S.lastSeq)
      <4>1. Start(k) <= p /\ p < Start(k) + Length(k)
        BY <1>7, <2>6, <3>0, <3>1, <3>3
      <4>2. Placed(h, p)'
        BY <2>10, <3>1, <4>1
      <4>3. p % NodeSize = p
        BY <3>1, Sizes
      <4> QED
        BY <3>1, <4>2, <4>3 DEF Placed, NodeOf
    <3> QED
      BY <3>2, <3>3
  <2>13. R.head = h
    BY <1>1, <1>5, <2>2
  <2> QED
    BY <2>1, <2>11, <2>12, <2>13 DEF PlainBytes
<1> QED
  BY <1>4, <1>5, <1>7, <1>8 DEF PlainBytes

\* Every step keeps the lists, files and bytes of plain streams.
LEMMA PlainStep ==
    BaseInv /\ OwnInv /\ PlainInv /\ BaseInv' /\ OwnInv' /\ [Next]_vars => PlainInv'
<1> SUFFICES ASSUME BaseInv, OwnInv, PlainInv, BaseInv', OwnInv', [Next]_vars PROVE PlainInv'
  OBVIOUS
<1>i. LinkInv /\ PoolInv /\ ThreadInv /\ StreamsInv
  BY DEF BaseInv
<1>z. \A s \in DOMAIN st : s # Null
  BY <1>i, Sizes DEF StreamsInv
<1>k. \A S : mem' = mem /\ to_tail'[S.head] = to_tail[S.head] /\ PlainBytes(S) => PlainBytes(S)'
  BY DEF PlainBytes, Placed, NodeOf
<1>u. ASSUME UNCHANGED << to_tail, mem, st, crowded >>,
             \A s \in DOMAIN st : killer'.stream # s => killer.stream # s
      PROVE  PlainInv'
  BY <1>u DEF PlainInv, PlainBytes, Placed, NodeOf
<1>1. ASSUME NEW s \in Streams, MakeTest(s) PROVE PlainInv'
  BY <1>1, <1>u DEF MakeTest
<1>2. ASSUME MakeTake PROVE PlainInv'
  <2>0. PICK z : z = listener.stream
    OBVIOUS
  <2>1. PICK n \in heap' :
              /\ n \in Nodes /\ n # Null
              /\ st' = [x \in DOMAIN st \cup {z} |-> IF x = z THEN NewStream(n) ELSE st[x]]
              /\ z \in Streams \ DOMAIN st
              /\ UNCHANGED << to_tail, mem, killer, crowded >>
    BY <1>2, <2>0, MakeEffect
  <2>2. DOMAIN st' = DOMAIN st \cup {z} /\ st'[z] = NewStream(n)
        /\ \A t \in DOMAIN st : st'[t] = st[t]
    BY <2>1
  <2>3. PICK N : N = NewStream(n)
    OBVIOUS
  <2>4. /\ N.headSeq = 0 /\ N.headByteCount = 0 /\ N.lastSeq = 0 /\ N.ub_list = << >>
        /\ N.file = << >> /\ N.arrived = << >> /\ N.finals = 0
    BY <2>3 DEF NewStream
  <2>5. ToSet(<< >>) = {} /\ Len(<< >>) = 0 /\ DOMAIN << >> = {}
    BY EmptySeq DEF ToSet
  <2>6. PlainList(N)
    BY <2>4, <2>5, Sizes DEF PlainList, Gaps, Distinct
  <2>7. PlainFile(N)
    BY <2>4, <2>5 DEF PlainFile
  <2>8. PlainBytes(N)'
    BY <2>4, <2>5 DEF PlainBytes
  <2>9. ASSUME NEW t \in DOMAIN st', st'[t].plain
        PROVE  /\ PlainList(st'[t])
               /\ ~crowded' => PlainFile(st'[t]) /\ (killer'.stream # t => PlainBytes(st[t])')
    <3>1. CASE t = z
      BY <2>2, <2>3, <2>6, <2>7, <2>8, <3>1 DEF PlainBytes
    <3>2. CASE t # z
      <4>1. t \in DOMAIN st /\ st'[t] = st[t]
        BY <2>2, <3>2
      <4> QED
        BY <1>k, <2>1, <2>9, <4>1 DEF PlainInv, PlainBytes
    <3> QED
      BY <3>1, <3>2
  <2> QED
    BY <2>9 DEF PlainInv, PlainList, PlainFile
<1>3. ASSUME NEW s \in Streams, DestroyBegin(s) PROVE PlainInv'
  <2>1. killer.stream = Null
    BY <1>3 DEF DestroyBegin, NoKill
  <2> QED
    BY <1>3, <1>u, <1>z, <2>1 DEF DestroyBegin
<1>4. ASSUME DestroyStep PROVE PlainInv'
  <2>1. PICK d, n : d = killer.stream /\ n = killer.node
    OBVIOUS
  <2>2. n \in heap /\ n \in Nodes /\ n # Null /\ d \in DOMAIN st
    BY <1>4, <1>i, <2>1 DEF DestroyStep, ThreadInv, LinkInv
  <2>3. /\ DOMAIN st' \subseteq DOMAIN st
        /\ \A t \in DOMAIN st' : st'[t] = st[t]
        /\ d \in DOMAIN st' => killer'.stream = d
    <3>1. CASE to_tail[n] = Null
      <4>1. st' = [x \in DOMAIN st \ {d} |-> st[x]]
        BY <1>4, <2>1, <3>1 DEF DestroyStep
      <4> QED
        BY <4>1
    <3>2. CASE to_tail[n] # Null
      <4>1. st' = st /\ killer' = [killer EXCEPT !.node = to_tail[n]]
        BY <1>4, <2>1, <3>2 DEF DestroyStep
      <4> QED
        BY <1>i, <2>1, <4>1 DEF ThreadInv
    <3> QED
      BY <3>1, <3>2
  <2>4. mem' = mem /\ (crowded => crowded')
    BY <1>4 DEF DestroyStep, Push
  <2>5. ASSUME NEW t \in DOMAIN st', st'[t].plain
        PROVE  /\ PlainList(st'[t])
               /\ ~crowded' => PlainFile(st'[t]) /\ (killer'.stream # t => PlainBytes(st[t])')
    <3>1. t \in DOMAIN st /\ st'[t] = st[t] /\ st[t].plain
      BY <2>3, <2>5
    <3>2. ASSUME ~crowded', killer'.stream # t PROVE PlainBytes(st[t])'
      <4>1. t # d
        BY <2>3, <3>2
      <4>2. Apart(First(t), First(d)) /\ First(t) = st[t].head /\ First(d) = n
        BY <2>1, <2>2, <2>4, <3>1, <3>2, <4>1 DEF OwnInv, First
      <4>3. st[t].head # n
        BY <4>2 DEF Apart
      <4>4. to_tail' = [to_tail EXCEPT ![n] = Null]
        BY <1>4, <2>1, <3>2 DEF DestroyStep, Push
      <4>5. to_tail'[st[t].head] = to_tail[st[t].head]
        BY <1>i, <3>1, <4>3, <4>4 DEF LinkInv, StreamsInv
      <4>6. PlainBytes(st[t])
        BY <2>1, <2>4, <3>1, <3>2, <4>1 DEF PlainInv
      <4> QED
        BY <2>4, <3>1, <4>5, <4>6 DEF PlainBytes, Placed, NodeOf
    <3> QED
      BY <2>4, <3>1, <3>2 DEF PlainInv
  <2> QED
    BY <2>5 DEF PlainInv, PlainList, PlainFile
<1>5. ASSUME NEW s \in Streams, Finalize(s) PROVE PlainInv'
  <2>1. killer.stream # s /\ UNCHANGED << to_tail, mem, killer, crowded >>
    BY <1>5 DEF Finalize
  <2>2. PICK S, R : S = st[s] /\ R = st'[s]
    OBVIOUS
  <2>3. /\ s \in DOMAIN st /\ DOMAIN st' = DOMAIN st
        /\ \A t \in DOMAIN st : t # s => st'[t] = st[t]
        /\ R.head = S.head /\ R.headSeq = S.headSeq
        /\ R.headByteCount = S.headByteCount /\ R.lastSeq = S.lastSeq
        /\ R.ub_list = S.ub_list /\ R.arrived = S.arrived
        /\ R.plain = S.plain
        /\ \/ R.finals = S.finals /\ R.file = S.file
           \/ /\ R.finals = S.finals + 1
              /\ R.file = S.file \o [i \in 1 .. S.headByteCount |-> mem[S.head][i - 1]]
    BY <1>5, <2>2, FinalizeType
  <2>4. S \in StreamType
    BY <1>i, <2>2, <2>3 DEF StreamsInv
  <2>5. ASSUME S.plain
        PROVE  /\ PlainList(R)
               /\ ~crowded => PlainFile(R) /\ PlainBytes(R)
    <3>1. PlainList(S) /\ (~crowded => PlainFile(S) /\ PlainBytes(S))
      BY <2>1, <2>2, <2>3, <2>5 DEF PlainInv
    <3>2. PlainList(R)
      BY <2>3, <3>1 DEF PlainList, Covered
    <3>3. ASSUME ~crowded PROVE PlainFile(R)
      <4>1. PlainFile(S) /\ PlainBytes(S)
        BY <3>1, <3>3
      <4>2. CASE R.finals = S.finals /\ R.file = S.file
        BY <2>3, <4>1, <4>2 DEF PlainFile
      <4>3. CASE /\ R.finals = S.finals + 1
                 /\ R.file = S.file \o [i \in 1 .. S.headByteCount |-> mem[S.head][i - 1]]
        <5>1. PICK c : c = S.headByteCount
          OBVIOUS
        <5>2. PICK b : b = [i \in 1 .. c |-> mem[S.head][i - 1]]
          OBVIOUS
        <5>3. c \in Nat /\ c = S.lastSeq
          BY <2>4, <3>1, <5>1, Sizes DEF StreamType, PlainList
        <5>4. \A i \in 1 .. c : b[i] = i - 1
          <6> TAKE i \in 1 .. c
          <6>1. i - 1 \in 0 .. (S.lastSeq - 1)
            BY <5>3
          <6>2. mem[S.head][i - 1] = i - 1
            BY <4>1, <6>1 DEF PlainBytes
          <6> QED
            BY <5>2, <6>2
        <5>5. S.file \in Seq(Int) /\ S.finals \in Nat
          BY <2>4 DEF StreamType
        <5>6. b \in Seq(Int) /\ Len(b) = c
          <6>1. b = [i \in 1 .. c |-> i - 1]
            BY <5>2, <5>4
          <6>2. \A i \in 1 .. c : i - 1 \in Int
            OBVIOUS
          <6> QED
            BY <5>3, <6>1, <6>2
        <5>7. PICK f : f = Len(S.file)
          OBVIOUS
        <5>8. R.file = S.file \o b
          BY <4>3, <5>1, <5>2
        <5>9. /\ DOMAIN R.file = 1 .. (f + c) /\ f \in Nat /\ DOMAIN S.file = 1 .. f
              /\ \A i \in 1 .. (f + c) :
                    R.file[i] = IF i <= f THEN S.file[i] ELSE b[i - f]
          BY <5>5, <5>6, <5>7, <5>8
        <5>10. \A i \in 1 .. (f + c) : i > f => R.file[i] = i - f - 1
          BY <5>3, <5>4, <5>9
        <5>11. ASSUME R.finals <= 1, NEW i \in DOMAIN R.file PROVE R.file[i] = i - 1
          <6>1. S.file = << >>
            BY <4>1, <4>3, <5>5, <5>11 DEF PlainFile
          <6>2. f = 0
            BY <5>7, <6>1
          <6> QED
            BY <5>3, <5>9, <5>10, <5>11, <6>2
        <5>12. ASSUME NEW i \in DOMAIN R.file, R.file[i] # 0
               PROVE  i > 1 /\ R.file[i] = R.file[i - 1] + 1
          <6>0. i \in 1 .. (f + c) /\ i \in Int /\ f \in Int /\ c \in Int
            BY <5>3, <5>9, <5>12
          <6>1. CASE i <= f
            <7>1. i \in DOMAIN S.file
              BY <5>9, <6>0, <6>1
            <7>2. R.file[i] = S.file[i]
              BY <5>9, <6>0, <6>1
            <7>3. i > 1 /\ S.file[i] = S.file[i - 1] + 1
              BY <4>1, <5>12, <7>1, <7>2 DEF PlainFile
            <7>4. PICK j : j = i - 1
              OBVIOUS
            <7>5. j \in 1 .. (f + c) /\ j <= f
              BY <6>0, <6>1, <7>3, <7>4
            <7>6. R.file[j] = S.file[j]
              BY <5>9, <7>5
            <7> QED
              BY <7>2, <7>3, <7>4, <7>6
          <6>2. CASE i > f
            <7>1. R.file[i] = i - f - 1
              BY <5>10, <6>0, <6>2
            <7>2. PICK j : j = i - 1
              OBVIOUS
            <7>3. i - f - 1 # 0
              BY <5>12, <7>1
            <7>4. j \in 1 .. (f + c) /\ j > f /\ i > 1
              BY <5>9, <6>0, <6>2, <7>2, <7>3
            <7>5. R.file[j] = j - f - 1
              BY <5>10, <7>4
            <7>6. i - f - 1 = (j - f - 1) + 1
              BY <6>0, <7>2
            <7>7. R.file[i] = R.file[j] + 1
              BY <7>1, <7>5, <7>6
            <7> QED
              BY <7>2, <7>4, <7>7
          <6> QED
            BY <6>0, <6>1, <6>2
        <5>13. S.headSeq = 0 /\ R.finals # 0
          BY <4>1, <4>3, <5>5 DEF PlainFile
        <5> QED
          BY <2>3, <5>11, <5>12, <5>13 DEF PlainFile
      <4> QED
        BY <2>3, <4>2, <4>3
    <3>4. ~crowded => PlainBytes(R)
      BY <2>3, <3>1 DEF PlainBytes
    <3> QED
      BY <3>2, <3>3, <3>4
  <2>6. ASSUME NEW t \in DOMAIN st', st'[t].plain
        PROVE  /\ PlainList(st'[t])
               /\ ~crowded' => PlainFile(st'[t]) /\ (killer'.stream # t => PlainBytes(st[t])')
    <3>1. CASE t = s
      <4>1. PlainList(R) /\ (~crowded => PlainFile(R) /\ PlainBytes(R))
        BY <2>2, <2>3, <2>5, <2>6, <3>1
      <4>2. ~crowded => PlainBytes(R)'
        BY <1>k, <2>1, <4>1
      <4> QED
        BY <2>1, <2>2, <3>1, <4>1, <4>2 DEF PlainBytes
    <3>2. CASE t # s
      <4>1. t \in DOMAIN st /\ st'[t] = st[t]
        BY <2>3, <3>2
      <4> QED
        BY <1>k, <2>1, <2>6, <4>1 DEF PlainInv, PlainBytes
    <3> QED
      BY <3>1, <3>2
  <2> QED
    BY <2>6 DEF PlainInv, PlainList, PlainFile
<1>6. ASSUME NEW s \in Streams, NEW k \in PacketIds, FileAppend(s, k) PROVE PlainInv'
  <2>1. CASE Dies
    BY <2>1, <1>u DEF Dies
  <2>2. CASE Wrote(s, k)
    <3>1. /\ DOMAIN st' = DOMAIN st /\ s \in DOMAIN st
          /\ \A t \in DOMAIN st : t # s => st'[t] = st[t]
      BY <2>2, WroteEffect
    <3>2. killer' = killer /\ crowded' = crowded /\ killer.stream # s
      BY <2>2 DEF Wrote
    <3>3. ASSUME NEW t \in DOMAIN st', st'[t].plain
          PROVE  /\ PlainList(st'[t])
                 /\ ~crowded' => PlainFile(st'[t]) /\ (killer'.stream # t => PlainBytes(st[t])')
      <4>1. CASE t = s
        <5>1. st'[s].plain /\ (st[s].plain => PlainList(st[s]))
          BY <3>1, <3>3, <4>1 DEF PlainInv
        <5>2. /\ st[s].plain /\ PlainList(st'[s])
              /\ ~crowded' /\ PlainFile(st[s]) /\ PlainBytes(st[s]) =>
                   PlainFile(st'[s]) /\ PlainBytes(st[s])'
          BY <2>2, <5>1, OwnPacket
        <5>3. ~crowded => PlainFile(st[s]) /\ PlainBytes(st[s])
          BY <3>1, <3>2, <5>2 DEF PlainInv
        <5> QED
          BY <3>2, <4>1, <5>2, <5>3
      <4>2. CASE t # s
        <5>1. t \in DOMAIN st /\ st'[t] = st[t] /\ st[t].plain
          BY <3>1, <3>3, <4>2
        <5>2. PlainList(st[t])
              /\ (~crowded => PlainFile(st[t]) /\ (killer.stream # t => PlainBytes(st[t])))
          BY <5>1 DEF PlainInv
        <5>3. ASSUME ~crowded', killer'.stream # t PROVE PlainBytes(st[t])'
          BY <2>2, <3>2, <4>2, <5>1, <5>2, <5>3, OthersKeepBytes
        <5> QED
          BY <3>2, <5>1, <5>2, <5>3
      <4> QED
        BY <4>1, <4>2
    <3> QED
      BY <3>3 DEF PlainInv, PlainList, PlainFile
  <2> QED
    BY <1>6, <2>1, <2>2, AppendEffect
<1>7. UNCHANGED vars => PlainInv'
  BY <1>u DEF vars
<1> QED
  BY <1>1, <1>2, <1>3, <1>4, <1>5, <1>6, <1>7 DEF Next

-----------------------------------------------------------------------------
(* The theorems.                                                           *)

\* The invariant holds in every state.
THEOREM InvCorrect == Spec => []Inv
<1>1. Init => OwnInv /\ PlainInv
  <2> SUFFICES ASSUME Init PROVE OwnInv /\ PlainInv
    OBVIOUS
  <2>1. DOMAIN st = {} /\ pool.head = Null /\ pool.size = 0
    BY DEF Init
  <2> QED
    BY <2>1 DEF OwnInv, PlainInv
<1>2. BaseInv /\ OwnInv /\ [Next]_vars => OwnInv'
  BY OwnStep
<1>3. BaseInv /\ OwnInv /\ PlainInv /\ BaseInv' /\ OwnInv' /\ [Next]_vars => PlainInv'
  BY PlainStep
<1>4. Inv <=> BaseInv /\ OwnInv /\ PlainInv
  BY DEF Inv
<1> QED
  BY <1>1, <1>2, <1>3, <1>4, BaseCorrect, PTL DEF Spec

\* Pointers, counters and lists have their types, however many streams the
\* Listener makes and the application destroys meanwhile.
THEOREM TypeCorrect == Spec => []TypeOK
<1>1. Inv => TypeOK
  <2> SUFFICES ASSUME Inv PROVE TypeOK
    OBVIOUS
  <2>i. LinkInv /\ PoolInv /\ ThreadInv /\ StreamsInv /\ OwnInv
    BY DEF Inv, BaseInv
  <2>1. pool.head \in heap \cup {Null} /\ pool.tail \in heap \cup {Null} /\ pool.size \in Int
        /\ pool.size <= MaxPool
    BY <2>i DEF PoolInv
  <2>2. ~crowded => pool.size \in 0 .. MaxPool
    BY <2>i, <2>1, Sizes DEF OwnInv
  <2>3. \A s \in DOMAIN st : st[s].head \in heap /\ st[s].headByteCount \in 0 .. NodeSize
                             /\ Len(st[s].ub_list) <= MaxUB
    BY <2>i DEF StreamsInv, StreamType
  <2>4. listener.pc \in {"idle", "take", "ended"}
    BY <2>i DEF ThreadInv
  <2> QED
    BY <2>i, <2>1, <2>2, <2>3, <2>4 DEF TypeOK, LinkInv, StreamsInv
<1> QED
  BY <1>1, InvCorrect, PTL

\* The nodes of a short list.
LEMMA ListShort ==
    ASSUME NEW n, n # Null, Short(n)
    PROVE  \A m \in ListFrom(n) : m # Null /\ (m = n \/ m = to_tail[n])
<1>1. ASSUME NEW j \in 0 .. Cardinality(Nodes)
      PROVE  Hop(n, j, to_tail) \in {n, to_tail[n], Null}
  <2>1. Cardinality(Nodes) \in Nat
    BY FileAssumption, FS_CardinalityType
  <2>2. j \in Nat
    BY <2>1
  <2> QED
    BY <2>2, HopShort DEF Short
<1> QED
  BY <1>1 DEF ListFrom

\* NodePool and FileRcvStream: as long as the pool holds one node at most, no
\* node belongs to two streams, or to a stream and the pool.
THEOREM OwnerCorrect == Spec => []OneOwner
<1>1. Inv => OneOwner
  <2> SUFFICES ASSUME Inv, ~crowded, killer = NoKill
               PROVE  /\ \A s, t \in DOMAIN st :
                            s # t => ListFrom(st[s].head) \cap ListFrom(st[t].head) = {}
                      /\ \A s \in DOMAIN st :
                            pool.head # Null => pool.head \notin ListFrom(st[s].head)
    BY DEF OneOwner
  <2>i. BaseInv /\ OwnInv
    BY DEF Inv
  <2>1. \A s \in DOMAIN st : First(s) = st[s].head /\ First(s) # Null /\ Short(First(s))
    BY <2>i, FirstInHeap DEF OwnInv
  <2>2. \A s \in DOMAIN st : \A m \in ListFrom(st[s].head) :
           m # Null /\ (m = st[s].head \/ m = to_tail[st[s].head])
    BY <2>1, ListShort
  <2>3. ASSUME NEW s \in DOMAIN st, NEW t \in DOMAIN st, s # t,
               NEW m \in ListFrom(st[s].head), m \in ListFrom(st[t].head)
        PROVE  FALSE
    <3>1. Apart(st[s].head, st[t].head)
      BY <2>i, <2>1, <2>3 DEF OwnInv
    <3> QED
      BY <2>2, <2>3, <3>1 DEF Apart
  <2>4. ASSUME NEW s \in DOMAIN st, pool.head # Null, pool.head \in ListFrom(st[s].head)
        PROVE  FALSE
    <3>1. Apart(pool.head, st[s].head)
      BY <2>i, <2>1, <2>4 DEF OwnInv
    <3> QED
      BY <2>2, <2>4, <3>1 DEF Apart
  <2> QED
    BY <2>3, <2>4
<1> QED
  BY <1>1, InvCorrect, PTL

\* Append: a stream that did not leave its first node and closed no gap has
\* every packet it took once, and every byte of it in its place.
THEOREM PlaceCorrect == Spec => []PlainInPlace
<1>1. Inv => PlainInPlace
  <2> SUFFICES ASSUME Inv, ~crowded, NEW s \in DOMAIN st, st[s].plain, killer.stream # s
               PROVE  /\ \A i, j \in DOMAIN st[s].arrived :
                            st[s].arrived[i] = st[s].arrived[j] => i = j
                      /\ \A k \in ToSet(st[s].arrived) :
                           \A p \in Start(k) .. (Start(k) + Length(k) - 1) :
                             mem[Hop(st[s].head, p \div NodeSize, to_tail)][p % NodeSize] = p
                      /\ st[s].lastSeq = st[s].headByteCount
    BY DEF PlainInPlace
  <2>1. PlainList(st[s]) /\ PlainBytes(st[s])
    BY DEF Inv, PlainInv
  <2>2. BaseInv /\ OwnInv /\ st[s] \in StreamType
    BY DEF Inv, BaseInv, StreamsInv
  <2>3. PICK h : h = st[s].head
    OBVIOUS
  <2>4. First(s) = h /\ h # Null /\ Short(h)
    BY <2>2, <2>3, FirstInHeap DEF First, OwnInv
  <2>5. ASSUME NEW k \in ToSet(st[s].arrived), NEW p \in Start(k) .. (Start(k) + Length(k) - 1)
        PROVE  mem[Hop(h, p \div NodeSize, to_tail)][p % NodeSize] = p
    <3>1. k \in PacketIds
      BY <2>2, ArrivedPackets
    <3>2. p \in Nat
      BY <3>1, PacketFits, Sizes
    <3>3. Placed(h, p)
      BY <2>1, <2>3 DEF PlainBytes
    <3>4. p \div NodeSize \in Nat
      BY <3>2, Sizes
    <3>5. p \div NodeSize = IF p < NodeSize THEN 0 ELSE 1
      <4>1. p < 2 * NodeSize
        BY <3>3 DEF Placed
      <4> QED
        BY <3>2, <4>1, Sizes
    <3>6. Hop(h, p \div NodeSize, to_tail) = NodeOf(h, p)
      BY <2>4, <3>4, <3>5, HopShort DEF Short, NodeOf
    <3> QED
      BY <3>3, <3>6 DEF Placed
  <2> QED
    BY <2>1, <2>3, <2>5 DEF PlainList, Distinct
<1> QED
  BY <1>1, InvCorrect, PTL

\* The file of a stream that did not leave its first node and closed no gap is
\* a beginning of what was sent when at most one call of Finalize wrote, and
\* otherwise one beginning after the other, however often Finalize is called
\* and whatever arrives between two calls.
THEOREM FileCorrect == Spec => []FileIsPrefix
<1>1. Inv => FileIsPrefix
  BY DEF Inv, PlainInv, PlainFile, FileIsPrefix
<1> QED
  BY <1>1, InvCorrect, PTL
=============================================================================
