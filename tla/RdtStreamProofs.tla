-------------------------- MODULE RdtStreamProofs --------------------------
(***************************************************************************)
(* Theorems about an rdt channel from end to end, for any node, packet and *)
(* window size, any uploads, and a network that delays, repeats, reorders  *)
(* and loses, as long as the sequence numbers do not wrap round.           *)
(***************************************************************************)
EXTENDS RdtStream, UBListProofs

-----------------------------------------------------------------------------
(* The inductive invariant.                                                *)

\* The sending window and the application: how far altusWQPut is, in bytes.
UpInv ==
    /\ up \in [head : Nat, safe : Nat, headDataOffset : 0 .. (NodeSize - 1), lastSeq : Nat,
               written : Nat, count : Seq(Nat), raced : BOOLEAN]
    /\ app \in [pc : {"idle", "copy", "advance", "next", "flag"}, uploads : Seq(Nat),
                newSeq : Nat]
    /\ Len(app.uploads) <= MaxUploads
    /\ up.lastSeq <= up.written /\ up.written <= app.newSeq
    /\ app.newSeq <= Len(app.uploads) * MaxUpload
    /\ IF app.pc = "copy" THEN up.written < app.newSeq ELSE up.written = app.newSeq
    /\ app.pc \in {"idle", "flag"} => up.lastSeq = app.newSeq

\* ... and in nodes: those before safe_tail are full, safe_tail says how far
\* lastSeq is, and a node is linked as soon as the one before it is full.
CountInv ==
    /\ 1 <= up.head /\ up.head <= up.safe /\ up.safe <= Len(up.count)
    /\ \A i \in 1 .. (up.safe - 1) : up.count[i] = NodeSize
    /\ IF app.pc = "next" THEN up.count[up.safe] = NodeSize ELSE up.count[up.safe] < NodeSize
    /\ up.lastSeq = NodeSize * (up.safe - 1) + up.count[up.safe]
    /\ NodeSize * (Len(up.count) - 1) <= up.written
    /\ up.written < NodeSize * Len(up.count)
    /\ up.head = up.safe => up.headDataOffset <= up.count[up.safe]

\* the flags that are set or about to be set: each is good for one empty packet
Pending == (IF ch.IsUpdated THEN 1 ELSE 0) + (IF app.pc = "idle" THEN 0 ELSE 1)

\* The sending channel: NextSendSeq runs ahead of what is written by less than a
\* node, a packet, and one packet for every upload whose flag is used up.
ChInv ==
    /\ ch \in [NextSendSeq : Nat, IsUpdated : BOOLEAN, lastAckedSeq : Seqs]
    /\ Pending <= Len(app.uploads)
    /\ ch.NextSendSeq + Pending * DataSize
          <= up.written + NodeSize + DataSize + Len(app.uploads) * DataSize

\* The Sender thread after altusWQPeek: where there was something to send,
\* NextSendSeq was at most a node ahead.
SenderInv ==
    /\ sender \in [pc : {"loop", "peek", "copy"}, pos : [place : Int, length : Nat],
                   pos2 : [place : Int, length : Nat], torn : BOOLEAN]
    /\ \A pos \in {sender.pos, sender.pos2} :
          pos = Nowhere \/ pos.place \in 0 .. (up.written + NodeSize)
    /\ sender.pc # "loop" =>
          /\ ch.IsUpdated
          /\ sender.pos # Nowhere \/ sender.pos2 # Nowhere
                => ch.NextSendSeq < up.written + NodeSize

\* Packets lie one after the other, each in a place of DataSize bytes.
NetInv ==
    /\ \A m \in net :
          /\ m \in [seq : Nat, data : Seq(Bytes)]
          /\ Len(m.data) <= DataSize
          /\ m.seq + DataSize <= ch.NextSendSeq
    /\ \A m, n \in net : m # n => m.seq + DataSize <= n.seq \/ n.seq + DataSize <= m.seq

\* The receiver holds the byte p, and some packet brought it.
Held(p) ==
    \E m \in net : /\ m.seq <= p /\ p < m.seq + Len(m.data)
                   /\ got[p] = m.data[p - m.seq + 1]

\* Blocks that lie within what was sent and hold what packets brought.
Blocks ==
    {b \in [head : Int, tail : Int] :
        /\ 0 <= b.head /\ b.head <= b.tail /\ b.tail <= ch.NextSendSeq
        /\ \A p \in b.head .. (b.tail - 1) : Held(p)}

Windows ==
    [lastSeq : Nat, ub_list : Seq(Blocks), read : Nat, stray : BOOLEAN,
     arrived : SUBSET net, noRoom : BOOLEAN]

\* The receiving window and the acknowledgements.
RcvInv ==
    /\ rcv \in Windows
    /\ rcv.read <= rcv.lastSeq
    /\ rcv.lastSeq <= ch.NextSendSeq
    /\ \A p \in 0 .. (rcv.lastSeq - 1) : Held(p)
    /\ got \in [0 .. End -> Bytes]
    /\ \A a \in acks : a \in Acks /\ a.seq <= ch.NextSendSeq

Full(m) == Len(m.data) = DataSize
Intact(m) == \A j \in 1 .. Len(m.data) : m.data[j] = m.seq + j - 1

\* The pointer shows the bytes from q on, in one node and all of them uploaded.
Shows(pos, q) ==
    pos # Nowhere =>
        /\ pos.place = q
        /\ q + pos.length <= up.lastSeq
        /\ \A n \in 0 .. (pos.length - 1) : (q + n) \div NodeSize = q \div NodeSize

\* As long as no node was popped and Sender saw none that was not set up: a
\* packet behind full ones brings the stream, and NextSendSeq is not ahead
\* before a packet falls short.
StreamInv ==
    up.head = 1 /\ ~sender.torn =>
        /\ \A m \in net : (\A n \in net : n.seq < m.seq => Full(n)) => Intact(m)
        /\ (\A n \in net : Full(n)) =>
              /\ ch.NextSendSeq <= up.lastSeq
              /\ sender.pc # "loop" => Shows(sender.pos, ch.NextSendSeq)
              /\ sender.pc = "copy" =>
                    Shows(sender.pos2, ch.NextSendSeq + sender.pos.length)

Inv == UpInv /\ CountInv /\ ChInv /\ SenderInv /\ NetInv /\ RcvInv /\ StreamInv

-----------------------------------------------------------------------------
(* Arithmetic.                                                             *)

\* A number is its quotient and its remainder.
LEMMA DivMod ==
    ASSUME NEW a \in Nat, NEW d \in Nat \ {0}
    PROVE  /\ a \div d \in Nat /\ a % d \in 0 .. (d - 1)
           /\ a = d * (a \div d) + (a % d)
  OBVIOUS

\* Below the divisor a number is its own remainder.
LEMMA ModSmall == ASSUME NEW d \in Nat \ {0}, NEW a \in 0 .. (d - 1) PROVE a % d = a
  OBVIOUS

\* what lies in no later node is less than a node behind
LEMMA DivCompare ==
    ASSUME NEW a \in Nat, NEW b \in Nat, NEW d \in Nat \ {0}, a \div d <= b \div d
    PROVE  a < b + d
  OBVIOUS

\* division gives the node, whatever the offset in it
LEMMA DivUnique ==
    ASSUME NEW q \in Nat, NEW d \in Nat \ {0}, NEW r \in 0 .. (d - 1)
    PROVE  (d * q + r) \div d = q /\ (d * q + r) % d = r
<1>1. d * q + r \in Nat
  OBVIOUS
<1> QED
  BY <1>1

\* Multiples keep the order.
LEMMA TimesMonotonic ==
    ASSUME NEW a \in Nat, NEW b \in Nat, NEW d \in Nat, a <= b
    PROVE  a * d <= b * d /\ d * a <= d * b
  OBVIOUS

\* The next multiple.
LEMMA TimesNext == ASSUME NEW a \in Nat, NEW d \in Nat PROVE (a + 1) * d = a * d + d
  OBVIOUS

\* A number lies in one node only.
LEMMA SameNode ==
    ASSUME NEW w \in Nat, NEW q \in Nat, NEW m \in Nat, NEW d \in Nat \ {0},
           d * q <= w, w < d * q + d, d * m <= w, w < d * m + d
    PROVE  q = m
<1>1. ASSUME NEW x \in Nat, NEW y \in Nat, x + 1 <= y, d * y <= w, w < d * x + d PROVE FALSE
  <2>1. d * (x + 1) <= d * y /\ d * (x + 1) = d * x + d
    BY <1>1, TimesMonotonic
  <2> QED
    BY <1>1, <2>1
<1> QED
  BY <1>1

\* what the proofs need of the constants, without the bound
LEMMA Sizes ==
    /\ NodeSize \in Nat \ {0} /\ DataSize \in Nat \ {0} /\ DataSize <= NodeSize
    /\ MaxUploads \in Nat /\ MaxUpload \in Nat /\ LostSpace \in Nat \ {0}
    /\ Leftovers \subseteq Seqs /\ OldCounts \subseteq Nat /\ Lengths \subseteq 1 .. MaxUpload
  BY StreamAssumption

\* The bound of the explored part is below the number of sequence numbers.
LEMMA EndFits == End \in Nat /\ End < SeqSpace
<1>1. MaxUploads * (MaxUpload + DataSize) \in Nat
  BY StreamAssumption
<1> QED
  BY <1>1, StreamAssumption, SeqSpaceAssumption DEF End

\* Nothing that is sent or looked at lies behind End.
LEMMA EndBounds ==
    ASSUME UpInv, ChInv
    PROVE  ch.NextSendSeq <= End /\ up.written + NodeSize <= End /\ app.newSeq <= End
<1> DEFINE U == Len(app.uploads)
           T == MaxUpload + DataSize
<1>1. U \in Nat /\ U <= MaxUploads /\ T \in Nat
  BY Sizes, LenProperties DEF UpInv
<1>2. U * T = U * MaxUpload + U * DataSize
  <2> HIDE DEF U
  <2> QED
    BY <1>1, Sizes
<1>3. U * T <= MaxUploads * T
  <2> HIDE DEF U, T
  <2> QED
    BY <1>1, Sizes, TimesMonotonic
<1>4. Pending \in Nat
  BY DEF Pending
<1>5. Pending * DataSize \in Nat /\ U * DataSize \in Nat /\ U * MaxUpload \in Nat
  <2> HIDE DEF U
  <2> QED
    BY <1>1, <1>4, Sizes
<1>6. End = MaxUploads * T + NodeSize + DataSize /\ MaxUploads * T \in Nat
  BY Sizes DEF End
<1>7. /\ ch.NextSendSeq \in Nat /\ up.written \in Nat
      /\ up.written <= U * MaxUpload /\ app.newSeq <= U * MaxUpload /\ app.newSeq \in Nat
      /\ ch.NextSendSeq + Pending * DataSize <= up.written + NodeSize + DataSize + U * DataSize
  <2>1. /\ up.written \in Nat /\ app.newSeq \in Nat /\ app.newSeq <= U * MaxUpload
        /\ up.written <= app.newSeq
    BY DEF UpInv
  <2>2. /\ ch.NextSendSeq \in Nat
        /\ ch.NextSendSeq + Pending * DataSize <= up.written + NodeSize + DataSize + U * DataSize
    BY DEF ChInv
  <2> HIDE DEF U
  <2> QED
    BY <1>5, <2>1, <2>2
<1> HIDE DEF U, T
<1>8. up.written + U * DataSize <= MaxUploads * T
  BY <1>2, <1>3, <1>5, <1>6, <1>7
<1>9. app.newSeq <= MaxUploads * T
  BY <1>2, <1>3, <1>5, <1>6, <1>7
<1> QED
  BY <1>5, <1>6, <1>7, <1>8, <1>9, Sizes

-----------------------------------------------------------------------------
(* The sending window.                                                     *)

\* No step takes anything back.
Forward ==
    /\ up.lastSeq <= up'.lastSeq
    /\ up.written <= up'.written
    /\ up.head <= up'.head

UpGoal == UpInv' /\ CountInv' /\ Forward

\* The ends of the window and the numbers it keeps.
LEMMA UpFacts ==
    ASSUME UpInv, CountInv
    PROVE  /\ up.count \in Seq(Nat) /\ Len(up.count) \in Nat
           /\ up.safe \in 1 .. Len(up.count) /\ up.head \in 1 .. up.safe
           /\ \A i \in 1 .. Len(up.count) : up.count[i] \in Nat
           /\ up.lastSeq \in Nat /\ up.written \in Nat /\ app.newSeq \in Nat
           /\ up.headDataOffset \in 0 .. (NodeSize - 1)
<1>1. /\ up.count \in Seq(Nat) /\ up.lastSeq \in Nat /\ up.written \in Nat /\ app.newSeq \in Nat
      /\ up.headDataOffset \in 0 .. (NodeSize - 1) /\ up.safe \in Nat /\ up.head \in Nat
  BY DEF UpInv
<1>2. Len(up.count) \in Nat /\ \A i \in 1 .. Len(up.count) : up.count[i] \in Nat
  BY <1>1, LenProperties, ElementOfSeq
<1>3. 1 <= up.head /\ up.head <= up.safe /\ up.safe <= Len(up.count)
  BY DEF CountInv
<1> QED
  BY <1>1, <1>2, <1>3

\* How far one memcpy goes from w, in the n-th node.
LEMMA CopyNumbers ==
    ASSUME NEW n \in Nat, 1 <= n, NEW w \in Nat, NEW new \in Nat,
           NodeSize * (n - 1) <= w, w < NodeSize * n, w < new,
           NEW to \in Nat, to <= new, to <= NodeSize * (w \div NodeSize) + NodeSize,
           to = new \/ to = NodeSize * (w \div NodeSize) + NodeSize
    PROVE  /\ w < to /\ to <= NodeSize * n
           /\ NodeSize * n \in Nat /\ NodeSize * (n - 1) <= to
           /\ to = NodeSize * n => to % NodeSize = 0
           /\ to # NodeSize * n => to % NodeSize # 0
<1> USE Sizes
<1> DEFINE q == w \div NodeSize
           m == n - 1
           a == NodeSize * m
           b == NodeSize * n
<1>1. q \in Nat /\ NodeSize * q <= w /\ w < NodeSize * q + NodeSize
  BY DivMod
<1>2. m \in Nat /\ a \in Nat /\ b = a + NodeSize /\ a <= w /\ w < b
  OBVIOUS
<1> HIDE DEF q, m
<1>3. q = m
  BY <1>1, <1>2, SameNode
<1>4. to <= b /\ (to = new \/ to = b)
  BY <1>2, <1>3 DEF q
<1> HIDE DEF a, b
<1>5. b \in Nat /\ w < to /\ to <= b /\ a <= to
  BY <1>2, <1>4
<1>6. ASSUME to = b PROVE to % NodeSize = 0
  <2>1. (NodeSize * n + 0) % NodeSize = 0
    <3>1. 0 \in 0 .. (NodeSize - 1)
      OBVIOUS
    <3> QED
      BY <3>1, DivUnique
  <2>2. NodeSize * n + 0 = to
    BY <1>5, <1>6 DEF b
  <2> QED
    BY <2>1, <2>2
<1>7. ASSUME to # b PROVE to % NodeSize # 0
  <2> DEFINE r == to - a
  <2>1. r \in 1 .. (NodeSize - 1) /\ to = a + r
    BY <1>2, <1>5, <1>7
  <2> HIDE DEF r
  <2>2. (NodeSize * m + r) % NodeSize = r
    BY <1>2, <2>1, DivUnique
  <2>3. (a + r) % NodeSize = r
    BY <2>2 DEF a
  <2>4. to % NodeSize = r
    BY <2>1, <2>3
  <2> QED
    BY <2>1, <2>4
<1> QED
  BY <1>5, <1>6, <1>7 DEF a, b, m

\* altusWQPut checks whether there is room.
LEMMA PutStarts ==
    ASSUME UpInv, CountInv, NEW length \in Lengths, UploadPut(length)
    PROVE  UpGoal /\ Len(app'.uploads) = Len(app.uploads) + 1 /\ app'.pc # "idle"
<1> USE Sizes
<1> DEFINE fits == (up.safe - up.head + 1) + (length \div NodeSize) + 1 <= WindowSize
           n == IF fits THEN length ELSE 0
           U == Len(app.uploads)
<1>1. n \in 0 .. MaxUpload /\ length \in 1 .. MaxUpload
  OBVIOUS
<1>2. /\ up' = up /\ app.pc = "idle" /\ U < MaxUploads
      /\ app' = [pc |-> IF fits THEN "copy" ELSE "flag",
                 uploads |-> Append(app.uploads, n), newSeq |-> up.lastSeq + n]
  BY DEF UploadPut
<1>3. app'.pc = (IF fits THEN "copy" ELSE "flag") /\ app'.newSeq = up.lastSeq + n
  BY <1>2
<1>4. (fits => n = length) /\ (~fits => n = 0)
  OBVIOUS
<1> HIDE DEF n, fits
<1>5. app'.uploads \in Seq(Nat) /\ Len(app'.uploads) = U + 1 /\ U \in Nat
  BY <1>1, <1>2, AppendProperties, LenProperties DEF UpInv
<1>6. app' \in [pc : {"idle", "copy", "advance", "next", "flag"}, uploads : Seq(Nat), newSeq : Nat]
  BY <1>1, <1>2, <1>5 DEF UpInv
<1>7. (U + 1) * MaxUpload = U * MaxUpload + MaxUpload /\ U * MaxUpload \in Nat
  <2> HIDE DEF U
  <2> QED
    BY <1>5, TimesNext
<1>8. UpInv'
  <2>1. up.lastSeq = app.newSeq /\ up.written = app.newSeq /\ app.newSeq <= U * MaxUpload
        /\ up.lastSeq \in Nat
    BY <1>2 DEF UpInv
  <2>2. up.lastSeq + n <= (U + 1) * MaxUpload
    BY <1>1, <1>7, <2>1
  <2>3. IF app'.pc = "copy" THEN up.written < app'.newSeq ELSE up.written = app'.newSeq
    BY <1>1, <1>3, <1>4, <2>1
  <2>4. Len(app'.uploads) <= MaxUploads
    BY <1>2, <1>5
  <2>5. up.written <= app'.newSeq /\ (app'.pc \in {"idle", "flag"} => up.lastSeq = app'.newSeq)
    BY <1>1, <1>3, <1>4, <2>1
  <2> QED
    BY <1>2, <1>3, <1>5, <1>6, <2>1, <2>2, <2>3, <2>4, <2>5 DEF UpInv
<1>9. CountInv'
  BY <1>2, <1>3 DEF CountInv
<1>10. Forward
  BY <1>2 DEF Forward, UpInv
<1> QED
  BY <1>3, <1>5, <1>8, <1>9, <1>10 DEF UpGoal

\* memcpy fills a node and, at its end, the next one is linked.
LEMMA CopyStep ==
    ASSUME UpInv, CountInv, UploadCopy
    PROVE  UpGoal /\ app'.uploads = app.uploads /\ app'.pc # "idle"
<1> USE Sizes
<1> DEFINE n == Len(up.count)
           w == up.written
           top == NodeSize * n
           to == Min({app.newSeq, NodeStart(w) + NodeSize})
<1>1. PICK old \in OldCounts :
         /\ up' = [up EXCEPT !.written = to,
                             !.count = IF to % NodeSize = 0 THEN Append(@, old) ELSE @]
         /\ app' = [app EXCEPT !.pc = IF to = app.newSeq THEN "advance" ELSE "copy"]
         /\ app.pc = "copy"
  BY DEF UploadCopy
<1>2. /\ w \in Nat /\ app.newSeq \in Nat /\ n \in Nat /\ 1 <= n /\ up.count \in Seq(Nat)
      /\ up.safe \in 1 .. n /\ old \in Nat
  BY UpFacts
<1>3. w < app.newSeq /\ NodeSize * (n - 1) <= w /\ w < NodeSize * n
  BY <1>1 DEF UpInv, CountInv
<1>4. to = Min({app.newSeq, NodeSize * (w \div NodeSize) + NodeSize})
  BY DEF NodeStart
<1> HIDE DEF to, n, w
<1>5. /\ to \in Nat /\ w < to /\ to <= app.newSeq /\ to <= top /\ top \in Nat
      /\ NodeSize * (n - 1) <= to /\ NodeSize * ((n + 1) - 1) = top /\ top < NodeSize * (n + 1)
      /\ to = top => to % NodeSize = 0
      /\ to # top => to % NodeSize # 0
  <2> DEFINE e == NodeSize * (w \div NodeSize) + NodeSize
  <2>0. to \in Nat /\ to <= app.newSeq /\ to <= e /\ (to = app.newSeq \/ to = e)
    <3>1. e \in Nat
      <4>1. w \div NodeSize \in Nat
        BY <1>2, DivMod
      <4>2. \A q \in Nat : NodeSize * q + NodeSize \in Nat
        OBVIOUS
      <4> QED
        BY <4>1, <4>2
    <3> HIDE DEF e
    <3>2. to = Min({app.newSeq, e})
      BY <1>4 DEF e
    <3>3. to = IF app.newSeq <= e THEN app.newSeq ELSE e
      BY <1>2, <3>1, <3>2, MinOfTwo
    <3> QED
      BY <1>2, <3>1, <3>3
  <2>1. /\ w < to /\ to <= NodeSize * n
        /\ NodeSize * n \in Nat /\ NodeSize * (n - 1) <= to
        /\ to = NodeSize * n => to % NodeSize = 0
        /\ to # NodeSize * n => to % NodeSize # 0
    BY <1>2, <1>3, <2>0, CopyNumbers
  <2>2. NodeSize * ((n + 1) - 1) = NodeSize * n /\ NodeSize * n < NodeSize * (n + 1)
    BY <1>2
  <2> QED
    BY <2>0, <2>1, <2>2
<1> DEFINE c == IF to = top THEN Append(up.count, old) ELSE up.count
<1>6. /\ c \in Seq(Nat) /\ Len(c) = (IF to = top THEN n + 1 ELSE n)
      /\ \A i \in 1 .. n : c[i] = up.count[i]
  BY <1>2, AppendProperties DEF n
<1>7. up' = [up EXCEPT !.written = to, !.count = c]
  BY <1>1, <1>5
<1> HIDE DEF c, top
<1>8. /\ up'.head = up.head /\ up'.safe = up.safe /\ up'.headDataOffset = up.headDataOffset
      /\ up'.lastSeq = up.lastSeq /\ up'.raced = up.raced /\ up'.written = to
      /\ up'.count = c
      /\ up' \in [head : Nat, safe : Nat, headDataOffset : 0 .. (NodeSize - 1), lastSeq : Nat,
                  written : Nat, count : Seq(Nat), raced : BOOLEAN]
  BY <1>5, <1>6, <1>7 DEF UpInv
<1>9. /\ app'.pc = (IF to = app.newSeq THEN "advance" ELSE "copy")
      /\ app'.uploads = app.uploads /\ app'.newSeq = app.newSeq
      /\ app' \in [pc : {"idle", "copy", "advance", "next", "flag"}, uploads : Seq(Nat), newSeq : Nat]
  BY <1>1 DEF UpInv
<1>10. UpInv'
  <2>1. up.lastSeq <= w /\ up.lastSeq \in Nat
    BY DEF UpInv, w
  <2>2. up.lastSeq <= to
    BY <1>2, <1>5, <2>1
  <2>3. IF app'.pc = "copy" THEN to < app.newSeq ELSE to = app.newSeq
    BY <1>2, <1>5, <1>9
  <2>4. app'.pc \notin {"idle", "flag"}
    BY <1>9
  <2> QED
    BY <1>5, <1>8, <1>9, <2>2, <2>3, <2>4 DEF UpInv
<1>11. CountInv'
  <2>1. NodeSize * (Len(c) - 1) <= to /\ to < NodeSize * Len(c)
    <3>1. CASE to = top
      BY <1>5, <1>6, <3>1
    <3>2. CASE to # top
      <4>1. Len(c) = n /\ to < top
        BY <1>5, <1>6, <3>2
      <4> QED
        BY <1>5, <4>1 DEF top
    <3> QED
      BY <3>1, <3>2
  <2>2. up.safe <= Len(c) /\ c[up.safe] = up.count[up.safe]
    BY <1>2, <1>6
  <2>3. \A i \in 1 .. (up.safe - 1) : c[i] = NodeSize
    <3> SUFFICES ASSUME NEW i \in 1 .. (up.safe - 1) PROVE c[i] = NodeSize
      OBVIOUS
    <3>1. i \in 1 .. n /\ up.count[i] = NodeSize
      BY <1>2 DEF CountInv
    <3> QED
      BY <1>6, <3>1
  <2>4. app.pc # "next" /\ app'.pc # "next"
    BY <1>1, <1>9
  <2> QED
    BY <1>8, <2>1, <2>2, <2>3, <2>4 DEF CountInv
<1>12. Forward
  <2>1. up.lastSeq \in Nat /\ up.head \in Nat /\ w = up.written
    BY DEF UpInv, w
  <2> QED
    BY <1>2, <1>5, <1>8, <2>1 DEF Forward
<1> QED
  BY <1>9, <1>10, <1>11, <1>12 DEF UpGoal

\* safe_tail and lastSeq move within a node.
LEMMA AdvanceStep ==
    ASSUME UpInv, CountInv, UploadAdvance
    PROVE  UpGoal /\ app'.uploads = app.uploads /\ app'.pc # "idle"
<1> USE Sizes
<1> DEFINE n == Len(up.count)
           s == up.safe
           last == up.lastSeq
           new == app.newSeq
           old == up.count[s]
           base == NodeSize * (s - 1)
           full == new - base >= NodeSize
           diff == IF full THEN NodeSize ELSE new - base
           c == [up.count EXCEPT ![s] = diff]
<1>1. /\ s \in 1 .. n /\ n \in Nat /\ up.count \in Seq(Nat) /\ old \in Nat
      /\ last \in Nat /\ new \in Nat /\ base \in Nat
  <2>1. /\ s \in 1 .. n /\ n \in Nat /\ up.count \in Seq(Nat) /\ old \in Nat
        /\ last \in Nat /\ new \in Nat
    BY UpFacts
  <2> HIDE DEF s
  <2>2. s - 1 \in Nat
    BY <2>1
  <2> QED
    BY <2>1, <2>2
<1>2. /\ app.pc = "advance" /\ up.written = new /\ last <= new
  BY DEF UploadAdvance, UpInv
<1>3. last = base + old /\ old < NodeSize
  BY <1>2 DEF CountInv
<1>4. /\ up' = [up EXCEPT !.count[s] = diff, !.lastSeq = base + diff]
      /\ app' = [app EXCEPT !.pc = IF full THEN "next" ELSE "flag"]
  <2> HIDE DEF last, old, base
  <2>1. last - old = base
    BY <1>1, <1>3
  <2> QED
    BY <2>1 DEF UploadAdvance, last, old
<1>5. up' = [up EXCEPT !.count = c, !.lastSeq = base + diff]
  BY <1>4
<1> HIDE DEF base, last, new, old, n
<1>6. /\ diff \in Nat /\ diff <= NodeSize /\ old <= diff /\ base + diff <= new
      /\ full => diff = NodeSize
      /\ ~full => diff < NodeSize /\ base + diff = new
  BY <1>1, <1>2, <1>3
<1> HIDE DEF full, diff
<1>7. c \in Seq(Nat) /\ Len(c) = n /\ c[s] = diff /\ \A i \in 1 .. n : i # s => c[i] = up.count[i]
  BY <1>1, <1>6, ExceptSeq DEF n
<1> HIDE DEF c
<1>8. /\ up'.head = up.head /\ up'.safe = s /\ up'.headDataOffset = up.headDataOffset
      /\ up'.lastSeq = base + diff /\ up'.raced = up.raced /\ up'.written = up.written
      /\ up'.count = c
      /\ up' \in [head : Nat, safe : Nat, headDataOffset : 0 .. (NodeSize - 1), lastSeq : Nat,
                  written : Nat, count : Seq(Nat), raced : BOOLEAN]
  <2>1. base + diff \in Nat
    BY <1>1, <1>6
  <2> QED
    BY <1>5, <1>7, <2>1 DEF UpInv
<1>9. /\ app'.pc = (IF full THEN "next" ELSE "flag")
      /\ app'.uploads = app.uploads /\ app'.newSeq = new
      /\ app' \in [pc : {"idle", "copy", "advance", "next", "flag"}, uploads : Seq(Nat), newSeq : Nat]
  BY <1>4 DEF UpInv, new
<1>10. UpInv'
  <2>1. app'.pc # "copy" /\ (app'.pc \in {"idle", "flag"} => base + diff = new)
    BY <1>6, <1>9
  <2> QED
    BY <1>1, <1>2, <1>6, <1>8, <1>9, <2>1 DEF UpInv, new
<1>11. CountInv'
  <2>1. \A i \in 1 .. (s - 1) : c[i] = NodeSize
    <3> SUFFICES ASSUME NEW i \in 1 .. (s - 1) PROVE c[i] = NodeSize
      OBVIOUS
    <3>1. up.count[i] = NodeSize
      BY DEF CountInv
    <3>2. i \in 1 .. n /\ i # s
      BY <1>1
    <3> QED
      BY <1>7, <3>1, <3>2
  <2>2. up.head = s => up.headDataOffset <= diff
    <3>1. up.head = s => up.headDataOffset <= old
      BY DEF CountInv, old
    <3>2. up.headDataOffset \in Nat
      BY UpFacts
    <3> QED
      BY <1>1, <1>6, <3>1, <3>2
  <2>3. IF app'.pc = "next" THEN c[s] = NodeSize ELSE c[s] < NodeSize
    BY <1>6, <1>7, <1>9
  <2>4. base + diff = NodeSize * (s - 1) + c[s]
    BY <1>7 DEF base
  <2> HIDE DEF s
  <2>5. 1 <= up.head /\ up.head <= s /\ s <= n
    BY DEF CountInv, s, n
  <2>6. NodeSize * (n - 1) <= up.written /\ up.written < NodeSize * n
    BY DEF CountInv, n
  <2> QED
    BY <1>7, <1>8, <2>1, <2>2, <2>3, <2>4, <2>5, <2>6 DEF CountInv
<1>12. Forward
  <2>1. last <= base + diff
    BY <1>1, <1>3, <1>6
  <2>2. up.written \in Nat /\ up.head \in Nat
    BY UpFacts
  <2> QED
    BY <1>8, <2>1, <2>2 DEF Forward, last
<1> QED
  BY <1>9, <1>10, <1>11, <1>12 DEF UpGoal

\* ... and into the next node, which is empty.
LEMMA NextStep ==
    ASSUME UpInv, CountInv, UploadNext
    PROVE  UpGoal /\ app'.uploads = app.uploads /\ app'.pc # "idle"
<1> USE Sizes
<1> DEFINE n == Len(up.count)
           s == up.safe
           c == [up.count EXCEPT ![s + 1] = 0]
<1>1. /\ s \in 1 .. n /\ n \in Nat /\ up.count \in Seq(Nat)
      /\ up.head \in 1 .. s /\ up.lastSeq \in Nat /\ up.written \in Nat
  BY UpFacts
<1>2. app.pc = "next" /\ s < n
  BY DEF UploadNext
<1>3. up.written = app.newSeq /\ up.lastSeq <= app.newSeq
  BY <1>2 DEF UpInv
<1>4. up.count[s] = NodeSize /\ up.lastSeq = NodeSize * (s - 1) + NodeSize
  BY <1>2 DEF CountInv
<1>5. /\ up' = [up EXCEPT !.safe = s + 1, !.count = c]
      /\ app' = [app EXCEPT !.pc = IF up.lastSeq = app.newSeq THEN "flag" ELSE "advance"]
  BY DEF UploadNext, NextCount
<1> HIDE DEF n, s
<1>6. c \in Seq(Nat) /\ Len(c) = n /\ c[s + 1] = 0 /\ \A i \in 1 .. n : i # s + 1 => c[i] = up.count[i]
  <2>1. s + 1 \in 1 .. n /\ 0 \in Nat
    BY <1>1, <1>2
  <2> QED
    BY <1>1, <2>1, ExceptSeq DEF n
<1> HIDE DEF c
<1>7. /\ up'.head = up.head /\ up'.safe = s + 1 /\ up'.headDataOffset = up.headDataOffset
      /\ up'.lastSeq = up.lastSeq /\ up'.raced = up.raced /\ up'.written = up.written
      /\ up'.count = c
      /\ up' \in [head : Nat, safe : Nat, headDataOffset : 0 .. (NodeSize - 1), lastSeq : Nat,
                  written : Nat, count : Seq(Nat), raced : BOOLEAN]
  <2>1. s + 1 \in Nat
    BY <1>1
  <2> QED
    BY <1>5, <1>6, <2>1 DEF UpInv
<1>8. /\ app'.pc = (IF up.lastSeq = app.newSeq THEN "flag" ELSE "advance")
      /\ app'.uploads = app.uploads /\ app'.newSeq = app.newSeq
      /\ app' \in [pc : {"idle", "copy", "advance", "next", "flag"}, uploads : Seq(Nat), newSeq : Nat]
  BY <1>5 DEF UpInv
<1>9. UpInv'
  BY <1>1, <1>3, <1>7, <1>8 DEF UpInv
<1>10. CountInv'
  <2>1. \A i \in 1 .. ((s + 1) - 1) : c[i] = NodeSize
    <3> SUFFICES ASSUME NEW i \in 1 .. ((s + 1) - 1) PROVE c[i] = NodeSize
      OBVIOUS
    <3>1. i \in 1 .. n /\ i # s + 1 /\ (i = s \/ i \in 1 .. (s - 1))
      BY <1>1
    <3>2. up.count[i] = NodeSize
      BY <1>4, <3>1 DEF CountInv, s
    <3> QED
      BY <1>6, <3>1, <3>2
  <2>2. up.lastSeq = NodeSize * ((s + 1) - 1) + c[s + 1]
    <3>1. NodeSize * ((s + 1) - 1) + 0 = NodeSize * (s - 1) + NodeSize
      BY <1>1
    <3> QED
      BY <1>4, <1>6, <3>1
  <2>3. up.head # s + 1 /\ up.head <= s + 1 /\ s + 1 <= n /\ 1 <= up.head
    BY <1>1, <1>2
  <2>4. app'.pc # "next" /\ c[s + 1] < NodeSize
    BY <1>6, <1>8
  <2>5. NodeSize * (n - 1) <= up.written /\ up.written < NodeSize * n
    BY DEF CountInv, n
  <2> QED
    BY <1>6, <1>7, <2>1, <2>2, <2>3, <2>4, <2>5 DEF CountInv
<1>11. Forward
  BY <1>1, <1>7 DEF Forward
<1> QED
  BY <1>8, <1>9, <1>10, <1>11 DEF UpGoal

\* Whatever an acknowledgement says, altusWQPop stops in safe_tail at the latest,
\* and there behind what safe_tail holds.
LEMMA AckStep ==
    ASSUME UpInv, CountInv, ChInv, RcvInv, NEW a \in acks, ReceiveAck(a)
    PROVE  UpGoal
<1> USE Sizes
<1> DEFINE n == Len(up.count)
           s == up.safe
           delta == AckDelta(a)
<1>1. delta \in Nat
  <2>1. a.seq \in Int
    BY EndFits DEF RcvInv, Acks
  <2>2. ch.lastAckedSeq \in Int
    BY DEF ChInv, Seqs
  <2> QED
    BY <2>1, <2>2, SeqSpaceAssumption DEF Minus, AckDelta
<1> HIDE DEF delta
<1>2. PICK k \in 0 .. (n - up.head) :
         /\ Empties(k, delta)
         /\ ~(Putting /\ k > 0)
         /\ up' = [up EXCEPT !.head = @ + k,
                             !.headDataOffset = Min({up.headDataOffset + delta - k * NodeSize,
                                                     up.count[up.head + k]})]
  BY DEF ReceiveAck, delta
<1>3. /\ n \in Nat /\ up.head \in 1 .. s /\ s \in 1 .. n /\ k \in Nat /\ up.head + k \in 1 .. n
      /\ up.count \in Seq(Nat) /\ up.count[up.head + k] \in Nat /\ up.headDataOffset \in Nat
  <2>1. n \in Nat /\ up.count \in Seq(Nat) /\ up.head \in 1 .. s /\ s \in 1 .. n
        /\ up.headDataOffset \in Nat
    BY UpFacts
  <2>2. up.head + k \in 1 .. n /\ k \in Nat
    BY <2>1
  <2>3. up.count[up.head + k] \in Nat
    BY <2>1, <2>2, ElementOfSeq
  <2> QED
    BY <2>1, <2>2, <2>3
<1> DEFINE off == up.headDataOffset + delta
           rest == off - k * NodeSize
           valid == up.count[up.head + k]
<1>4. /\ k * NodeSize <= off
      /\ \A i \in up.head .. (up.head + k - 1) : up.count[i] = NodeSize
      /\ up.head + k < n =>
            ~ /\ (k + 1) * NodeSize <= off
              /\ \A i \in up.head .. (up.head + (k + 1) - 1) : up.count[i] = NodeSize
  BY <1>2 DEF Empties
<1>5. off \in Nat /\ k * NodeSize \in Nat /\ (k + 1) * NodeSize = k * NodeSize + NodeSize
  <2>1. off \in Nat
    BY <1>1, <1>3
  <2>2. k * NodeSize \in Nat
    BY <1>3
  <2> QED
    BY <1>3, <2>1, <2>2, TimesNext
<1> HIDE DEF off
<1>6. rest \in Nat
  BY <1>4, <1>5
<1>7. up.head + k <= s
  <2> SUFFICES ASSUME k > 0, s <= up.head + k - 1 PROVE FALSE
    BY <1>3
  <2>1. app.pc # "next"
    BY <1>2 DEF Putting
  <2>2. s \in up.head .. (up.head + k - 1)
    BY <1>3
  <2>3. up.count[s] = NodeSize /\ up.count[s] < NodeSize
    BY <1>4, <2>1, <2>2 DEF CountInv
  <2> QED
    BY <2>3
<1>8. valid = NodeSize /\ up.head + k < n => rest < NodeSize
  <2> SUFFICES ASSUME valid = NodeSize, up.head + k < n, ~(rest < NodeSize) PROVE FALSE
    OBVIOUS
  <2>1. (k + 1) * NodeSize <= off
    BY <1>5, <1>6
  <2>2. \A i \in up.head .. (up.head + (k + 1) - 1) : up.count[i] = NodeSize
    <3> SUFFICES ASSUME NEW i \in up.head .. (up.head + (k + 1) - 1) PROVE up.count[i] = NodeSize
      OBVIOUS
    <3>1. i = up.head + k \/ i \in up.head .. (up.head + k - 1)
      BY <1>3
    <3> QED
      BY <1>4, <3>1
  <2> QED
    BY <1>4, <2>1, <2>2
<1>9. valid <= NodeSize /\ (valid = NodeSize => up.head + k < n)
  <2>1. CASE up.head + k < s
    <3>1. up.head + k \in 1 .. (s - 1) /\ up.head + k < n
      <4> DEFINE z == up.head + k
      <4>1. z \in 1 .. n /\ z < s /\ s \in 1 .. n /\ n \in Nat
        BY <1>3, <2>1
      <4> HIDE DEF z, s, n
      <4>2. z \in 1 .. (s - 1) /\ z < n
        BY <4>1
      <4> QED
        BY <4>2 DEF z
    <3> QED
      BY <3>1 DEF CountInv
  <2>2. CASE up.head + k = s
    <3>1. CASE app.pc = "next"
      <4>1. up.count[s] = NodeSize /\ up.lastSeq <= up.written /\ up.written < NodeSize * n
            /\ up.lastSeq = NodeSize * (s - 1) + NodeSize
        BY <3>1 DEF CountInv, UpInv
      <4>2. s < n
        <5> SUFFICES ASSUME s = n PROVE FALSE
          BY <1>3
        <5>1. NodeSize * (n - 1) + NodeSize = NodeSize * n
          BY <1>3
        <5> QED
          BY <1>3, <4>1, <5>1 DEF UpInv
      <4> QED
        BY <2>2, <4>1, <4>2
    <3>2. CASE app.pc # "next"
      <4>1. up.count[s] < NodeSize
        BY <3>2 DEF CountInv
      <4>2. valid = up.count[s] /\ valid \in Nat
        BY <1>3, <2>2
      <4> HIDE DEF valid
      <4> QED
        BY <4>1, <4>2
    <3> QED
      BY <3>1, <3>2
  <2> QED
    BY <1>3, <1>7, <2>1, <2>2
<1> DEFINE new == Min({rest, valid})
<1>10. new \in 0 .. (NodeSize - 1) /\ new <= valid
  <2> HIDE DEF rest, valid
  <2>1. rest \in Int /\ valid \in Int /\ valid \in Nat
    BY <1>3, <1>6 DEF valid
  <2>2. new <= rest /\ new <= valid /\ (new = rest \/ new = valid)
    BY <2>1, MinOfTwo
  <2> HIDE DEF new
  <2> QED
    BY <1>6, <1>8, <1>9, <2>1, <2>2
<1>11. up' = [up EXCEPT !.head = up.head + k, !.headDataOffset = new]
  <2>1. new = Min({up.headDataOffset + delta - k * NodeSize, up.count[up.head + k]})
    <3>1. rest = up.headDataOffset + delta - k * NodeSize
      BY <1>1, <1>3, <1>5 DEF off, rest
    <3> HIDE DEF rest
    <3> QED
      BY <3>1
  <2> HIDE DEF new
  <2> QED
    BY <1>2, <2>1
<1> HIDE DEF new
<1>12. /\ up'.head = up.head + k /\ up'.safe = up.safe /\ up'.headDataOffset = new
       /\ up'.lastSeq = up.lastSeq /\ up'.raced = up.raced /\ up'.written = up.written
       /\ up'.count = up.count
       /\ up' \in [head : Nat, safe : Nat, headDataOffset : 0 .. (NodeSize - 1), lastSeq : Nat,
                   written : Nat, count : Seq(Nat), raced : BOOLEAN]
  <2>1. up.head + k \in Nat /\ new \in 0 .. (NodeSize - 1)
    BY <1>3, <1>10
  <2> QED
    BY <1>11, <2>1 DEF UpInv
<1>13. app' = app
  BY DEF ReceiveAck
<1>14. UpInv'
  BY <1>12, <1>13 DEF UpInv
<1>15. CountInv'
  <2>1. up.head + k = s => new <= up.count[s]
    BY <1>10
  <2>2. 1 <= up.head + k
    BY <1>3
  <2> QED
    BY <1>7, <1>12, <1>13, <2>1, <2>2 DEF CountInv
<1>16. Forward
  <2>1. up.lastSeq \in Nat /\ up.written \in Nat /\ up.head \in Nat
    BY UpFacts
  <2>2. up.head <= up.head + k
    BY <1>3, <2>1
  <2> QED
    BY <1>12, <2>1, <2>2 DEF Forward
<1> QED
  BY <1>14, <1>15, <1>16 DEF UpGoal

\* Every step keeps the sending window's part of the invariant.
LEMMA UpStep == ASSUME Inv, [Next]_vars PROVE UpGoal
<1> USE DEF Inv
<1>1. ASSUME NEW length \in Lengths, UploadPut(length) PROVE UpGoal
  BY <1>1, PutStarts
<1>2. CASE Upload
  <2>1. CASE UploadFlag
    <3>1. up' = up /\ app' = [app EXCEPT !.pc = "idle"] /\ app.pc = "flag"
      BY <2>1 DEF UploadFlag
    <3>2. /\ app'.pc = "idle" /\ app'.uploads = app.uploads /\ app'.newSeq = app.newSeq
          /\ app' \in [pc : {"idle", "copy", "advance", "next", "flag"}, uploads : Seq(Nat),
                       newSeq : Nat]
      BY <3>1 DEF UpInv
    <3>3. UpInv'
      BY <3>1, <3>2 DEF UpInv
    <3>4. CountInv'
      BY <3>1, <3>2 DEF CountInv
    <3>5. Forward
      BY <3>1 DEF Forward, UpInv
    <3> QED
      BY <3>3, <3>4, <3>5 DEF UpGoal
  <2> QED
    BY <1>2, <2>1, CopyStep, AdvanceStep, NextStep DEF Upload
<1>3. ASSUME NEW a \in acks, ReceiveAck(a) PROVE UpGoal
  BY <1>3, AckStep
<1>4. ASSUME NEW a \in acks, ReceiveAckRaces(a) PROVE UpGoal
  <2>1. up' = [up EXCEPT !.raced = TRUE] /\ app' = app
    BY <1>4 DEF ReceiveAckRaces
  <2>2. /\ up'.head = up.head /\ up'.safe = up.safe /\ up'.headDataOffset = up.headDataOffset
        /\ up'.lastSeq = up.lastSeq /\ up'.written = up.written /\ up'.count = up.count
        /\ up' \in [head : Nat, safe : Nat, headDataOffset : 0 .. (NodeSize - 1), lastSeq : Nat,
                    written : Nat, count : Seq(Nat), raced : BOOLEAN]
    BY <2>1 DEF UpInv
  <2>3. UpInv'
    BY <2>1, <2>2 DEF UpInv
  <2>4. CountInv'
    BY <2>1, <2>2 DEF CountInv
  <2>5. Forward
    BY <2>2 DEF Forward, UpInv
  <2> QED
    BY <2>3, <2>4, <2>5 DEF UpGoal
<1>5. CASE UNCHANGED << up, app >>
  <2>1. UpInv' /\ CountInv'
    BY <1>5 DEF UpInv, CountInv
  <2>2. Forward
    BY <1>5 DEF Forward, UpInv
  <2> QED
    BY <2>1, <2>2 DEF UpGoal
<1> QED
  BY <1>1, <1>2, <1>3, <1>4, <1>5 DEF Next, SendPeek, SendPeekMore, SendPacket, Receive,
     ReceiveRefused, ReceivePut, ReceiveStray, Read, vars

-----------------------------------------------------------------------------
(* The sending channel and the Sender thread.                              *)

\* Every step keeps the channel's part.
LEMMA ChStep == ASSUME Inv, [Next]_vars PROVE ChInv'
<1> USE Sizes DEF Inv
<1> DEFINE U == Len(app.uploads)
           W == up.written
<1>t. /\ U \in Nat /\ Pending \in Nat /\ W \in Nat /\ ch.NextSendSeq \in Nat
      /\ Pending <= U
      /\ ch.NextSendSeq + Pending * DataSize <= W + NodeSize + DataSize + U * DataSize
  <2>1. U \in Nat /\ W \in Nat
    BY LenProperties DEF UpInv
  <2>2. Pending \in Nat
    BY DEF Pending
  <2>3. ch.NextSendSeq \in Nat
    BY DEF ChInv
  <2> QED
    BY <2>1, <2>2, <2>3 DEF ChInv
<1>p. U * DataSize \in Nat /\ Pending * DataSize \in Nat
  <2> HIDE DEF U
  <2> QED
    BY <1>t
<1>w. up'.written \in Nat /\ W <= up'.written
  <2>1. UpGoal
    BY UpStep
  <2> QED
    BY <2>1 DEF UpGoal, UpInv, Forward
<1>1. ASSUME NEW length \in Lengths, UploadPut(length) PROVE ChInv'
  <2>1. app.pc = "idle" /\ ch' = ch
    BY <1>1 DEF UploadPut
  <2>2. app'.pc # "idle" /\ U' = U + 1
    BY <1>1, PutStarts
  <2>3. Pending' = Pending + 1
    BY <2>1, <2>2 DEF Pending
  <2> HIDE DEF U, W
  <2>4. (U + 1) * DataSize = U * DataSize + DataSize
        /\ (Pending + 1) * DataSize = Pending * DataSize + DataSize
    BY <1>t, TimesNext
  <2>5. ch.NextSendSeq + (Pending + 1) * DataSize
           <= up'.written + NodeSize + DataSize + (U + 1) * DataSize
    BY <1>t, <1>p, <1>w, <2>4
  <2>6. Pending + 1 <= U + 1
    BY <1>t
  <2> QED
    BY <2>1, <2>2, <2>3, <2>5, <2>6 DEF ChInv, U
<1>2. CASE UploadFlag
  <2>1. /\ app' = [app EXCEPT !.pc = "idle"] /\ ch' = [ch EXCEPT !.IsUpdated = TRUE]
        /\ up' = up /\ app.pc = "flag"
    BY <1>2 DEF UploadFlag
  <2>2. app'.pc = "idle" /\ U' = U
    BY <2>1 DEF UpInv
  <2>3. /\ ch' = [NextSendSeq |-> ch.NextSendSeq, IsUpdated |-> TRUE,
                  lastAckedSeq |-> ch.lastAckedSeq]
        /\ ch' \in [NextSendSeq : Nat, IsUpdated : BOOLEAN, lastAckedSeq : Seqs]
    BY <2>1 DEF ChInv
  <2>4. Pending' = 1 /\ Pending >= 1
    BY <2>1, <2>2, <2>3 DEF Pending
  <2> HIDE DEF U
  <2>5. 1 * DataSize <= Pending * DataSize
    BY <1>t, <2>4, TimesMonotonic
  <2>6. /\ 1 <= U
        /\ ch.NextSendSeq + 1 * DataSize <= up.written + NodeSize + DataSize + U * DataSize
    BY <1>t, <1>p, <2>4, <2>5
  <2> QED
    BY <2>1, <2>2, <2>3, <2>4, <2>6 DEF ChInv, U
<1>3. CASE SendPacket
  <2> DEFINE stays == StaysUpdated(sender.pos, sender.pos2)
  <2>1. /\ ch' = [ch EXCEPT !.IsUpdated = stays, !.NextSendSeq = NextSeq(@)]
        /\ up' = up /\ app' = app /\ sender.pc = "copy"
    BY <1>3 DEF SendPacket
  <2>2. stays \in BOOLEAN
    BY DEF StaysUpdated, ChInv
  <2>3. stays => ch.NextSendSeq < up.written + NodeSize
    <3>1. sender.pos.length >= DataSize => sender.pos # Nowhere
      BY DEF Nowhere
    <3> QED
      BY <2>1, <3>1 DEF StaysUpdated, SenderInv
  <2> HIDE DEF stays
  <2>4. ch' = [NextSendSeq |-> ch.NextSendSeq + DataSize, IsUpdated |-> stays,
               lastAckedSeq |-> ch.lastAckedSeq]
    BY <2>1 DEF ChInv, NextSeq
  <2>5. ch' \in [NextSendSeq : Nat, IsUpdated : BOOLEAN, lastAckedSeq : Seqs]
    BY <1>t, <2>2, <2>4 DEF ChInv
  <2>6. ch.IsUpdated = TRUE
    BY <2>1 DEF SenderInv, ChInv
  <2>7. CASE stays
    <3>1. Pending' = Pending
      BY <2>1, <2>4, <2>6, <2>7 DEF Pending
    <3>2. ch.NextSendSeq + DataSize + Pending * DataSize
             <= up.written + NodeSize + DataSize + U * DataSize
      <4> HIDE DEF U
      <4>1. Pending * DataSize <= U * DataSize
        BY <1>t, TimesMonotonic
      <4> QED
        BY <1>t, <1>p, <2>3, <2>7, <4>1
    <3>3. ch'.NextSendSeq = ch.NextSendSeq + DataSize /\ Pending' <= U
      BY <1>t, <2>4, <3>1
    <3>4. ch'.NextSendSeq + Pending' * DataSize
             <= up.written + NodeSize + DataSize + U * DataSize
      BY <3>1, <3>2, <3>3
    <3> QED
      BY <2>1, <2>5, <3>3, <3>4 DEF ChInv
  <2>8. CASE ~stays
    <3>1. Pending = Pending' + 1 /\ Pending' \in Nat
      BY <2>1, <2>4, <2>6, <2>8 DEF Pending
    <3>2. Pending * DataSize = Pending' * DataSize + DataSize
      <4> DEFINE P == Pending'
      <4> HIDE DEF P
      <4>1. P \in Nat /\ Pending = P + 1
        BY <3>1 DEF P
      <4>2. Pending * DataSize = P * DataSize + DataSize
        BY <4>1, TimesNext
      <4> QED
        BY <4>2 DEF P
    <3>3. ch'.NextSendSeq + Pending' * DataSize
             <= up.written + NodeSize + DataSize + U * DataSize
      <4> DEFINE PD == Pending' * DataSize
                 UD == U * DataSize
      <4> HIDE DEF PD, UD
      <4>1. Pending * DataSize = PD + DataSize /\ UD \in Nat
        BY <1>p, <3>2 DEF PD, UD
      <4>2. PD \in Int
        <5>1. \A x \in Nat : x * DataSize \in Int
          OBVIOUS
        <5> QED
          BY <3>1, <5>1 DEF PD
      <4>3. ch.NextSendSeq + (PD + DataSize) <= up.written + NodeSize + DataSize + UD
        BY <1>t, <4>1 DEF UD
      <4>4. ch'.NextSendSeq = ch.NextSendSeq + DataSize
        BY <2>4
      <4>5. ch'.NextSendSeq + PD <= up.written + NodeSize + DataSize + UD
        BY <1>t, <4>1, <4>2, <4>3, <4>4
      <4> QED
        BY <4>5 DEF PD, UD
    <3>4. Pending' <= U
      BY <1>t, <3>1
    <3> QED
      BY <2>1, <2>5, <3>3, <3>4 DEF ChInv
  <2> QED
    BY <2>2, <2>7, <2>8
<1>4. ASSUME UNCHANGED << ch, app.uploads >>, app.pc = "idle" <=> app'.pc = "idle" PROVE ChInv'
  <2>1. Pending' = Pending
    BY <1>4 DEF Pending
  <2>2. U' = U
    BY <1>4
  <2> HIDE DEF U, W
  <2>3. ch.NextSendSeq + Pending * DataSize <= up'.written + NodeSize + DataSize + U * DataSize
    BY <1>t, <1>p, <1>w
  <2> QED
    BY <1>4, <2>1, <2>2, <2>3 DEF ChInv, U
<1>5. CASE UploadCopy \/ UploadAdvance \/ UploadNext
  <2>1. app'.uploads = app.uploads /\ app'.pc # "idle"
    BY <1>5, CopyStep, AdvanceStep, NextStep
  <2>2. app.pc # "idle" /\ ch' = ch
    BY <1>5 DEF UploadCopy, UploadAdvance, UploadNext
  <2> QED
    BY <1>4, <2>1, <2>2
<1>6. CASE UNCHANGED << ch, app >>
  BY <1>4, <1>6
<1> QED
  BY <1>1, <1>2, <1>3, <1>5, <1>6 DEF Next, Upload, SendPeek, SendPeekMore, Receive,
     ReceiveRefused, ReceivePut, ReceiveStray, Read, ReceiveAck, ReceiveAckRaces, vars

\* Where the n-th node ends.
LEMMA NodeOf ==
    ASSUME NEW seq \in Nat, NEW h \in Nat, NEW n \in Nat, 1 <= h,
           h + (seq \div NodeSize) <= n
    PROVE  (h - 1) * NodeSize \in Nat /\ (h - 1) * NodeSize + seq < NodeSize * n
<1> USE Sizes
<1> DEFINE q == seq \div NodeSize
           r == seq % NodeSize
<1>1. q \in Nat /\ r \in 0 .. (NodeSize - 1) /\ seq = NodeSize * q + r
  BY DivMod
<1> HIDE DEF q, r
<1>2. h + q <= n /\ h - 1 \in Nat /\ h + q \in Nat
  BY <1>1 DEF q
<1>3. NodeSize * (h + q) <= NodeSize * n
  BY <1>2, TimesMonotonic
<1>4. NodeSize * (h + q) = (h - 1) * NodeSize + NodeSize * q + NodeSize
  BY <1>1, <1>2
<1>5. (h - 1) * NodeSize \in Nat /\ NodeSize * q \in Nat /\ NodeSize * n \in Nat
  BY <1>1, <1>2
<1> DEFINE x == (h - 1) * NodeSize
           y == NodeSize * q
           z == NodeSize * n
<1> HIDE DEF x, y, z
<1>6. x \in Nat /\ y \in Nat /\ z \in Nat /\ x + y + NodeSize <= z
  BY <1>3, <1>4, <1>5 DEF x, y, z
<1>7. seq = y + r
  BY <1>1 DEF y
<1>8. x + seq < z
  BY <1>1, <1>6, <1>7
<1> QED
  BY <1>5, <1>8 DEF x, z

\* What altusWQPeek points at lies at most a node behind what is written.
LEMMA PeekBounds ==
    ASSUME UpInv, CountInv, NEW seq \in Nat
    PROVE  /\ Peek(seq) \in [place : Int, length : Nat]
           /\ Peek(seq) # Nowhere =>
                 Peek(seq).place \in 0 .. (up.written + NodeSize) /\ seq < up.written + NodeSize
<1> USE Sizes
<1> DEFINE n == Len(up.count)
           W == up.written
           node == PeekNode(seq)
           left == Minus(up.count[node], seq % NodeSize)
<1>1. Peek(seq) = IF node > n \/ left = 0 THEN Nowhere ELSE [place |-> First + seq, length |-> left]
  BY DEF Peek
<1>2. /\ n \in Nat /\ up.head \in Nat /\ 1 <= up.head /\ W \in Nat
      /\ \A i \in 1 .. n : up.count[i] \in Nat
  BY UpFacts
<1>3. NodeSize * n <= W + NodeSize
  <2>1. NodeSize * (n - 1) <= W
    BY DEF CountInv
  <2>2. NodeSize * (n - 1) = NodeSize * n - NodeSize
    BY <1>2
  <2> HIDE DEF W, n
  <2>3. NodeSize * n \in Int
    BY <1>2
  <2> QED
    BY <1>2, <2>1, <2>2, <2>3
<1>4. node = up.head + (seq \div NodeSize) /\ First = (up.head - 1) * NodeSize
  BY DEF PeekNode, First
<1>5. seq \div NodeSize \in Nat /\ seq % NodeSize \in Int
  BY DivMod
<1> HIDE DEF n, W, node
<1>6. CASE Peek(seq) = Nowhere
  BY <1>6 DEF Nowhere, Junk
<1>7. CASE node <= n /\ Peek(seq) = [place |-> First + seq, length |-> left]
  <2>1. First \in Nat /\ First + seq < NodeSize * n
    BY <1>2, <1>4, <1>7, NodeOf
  <2>2. left \in Nat
    <3>1. node \in 1 .. n
      BY <1>2, <1>4, <1>5, <1>7
    <3>2. up.count[node] \in Nat
      BY <1>2, <3>1
    <3> QED
      BY <1>5, <3>2, SeqSpaceAssumption DEF Minus
  <2>3. First + seq \in 0 .. (W + NodeSize) /\ seq < W + NodeSize
    <3>1. NodeSize * n \in Int
      BY <1>2
    <3> HIDE DEF First
    <3> QED
      BY <1>2, <1>3, <2>1, <3>1
  <2> HIDE DEF left
  <2> QED
    BY <1>7, <2>1, <2>2, <2>3 DEF W
<1> QED
  <2>1. node \in Int
    BY <1>2, <1>4, <1>5
  <2> QED
    BY <1>1, <1>2, <1>6, <1>7, <2>1

\* Every step keeps what Send knows between its peek and its packet.
LEMMA SenderStep == ASSUME Inv, [Next]_vars PROVE SenderInv'
<1> USE Sizes DEF Inv
<1> DEFINE SenderType == [pc : {"loop", "peek", "copy"}, pos : [place : Int, length : Nat],
                          pos2 : [place : Int, length : Nat], torn : BOOLEAN]
<1>t. up.written \in Nat /\ ch.NextSendSeq \in Nat
  BY DEF UpInv, ChInv
<1>w. up'.written \in Nat /\ up.written <= up'.written
  <2>1. UpGoal
    BY UpStep
  <2> QED
    BY <2>1 DEF UpGoal, UpInv, Forward
<1>n. Nowhere \in [place : Int, length : Nat]
  BY DEF Nowhere, Junk
<1>1. ASSUME sender' = sender, ch'.NextSendSeq = ch.NextSendSeq, ch.IsUpdated => ch'.IsUpdated
      PROVE  SenderInv'
  <2>1. \A pos \in {sender.pos, sender.pos2} :
           pos = Nowhere \/ pos.place \in 0 .. (up'.written + NodeSize)
    BY <1>t, <1>w DEF SenderInv
  <2>2. sender.pc # "loop" =>
           /\ ch'.IsUpdated
           /\ sender.pos # Nowhere \/ sender.pos2 # Nowhere
                 => ch.NextSendSeq < up'.written + NodeSize
    BY <1>t, <1>w, <1>1 DEF SenderInv
  <2>3. sender \in SenderType
    BY DEF SenderInv
  <2> QED
    BY <1>1, <2>1, <2>2, <2>3 DEF SenderInv
<1>2. CASE UploadFlag
  <2>1. ch' = [ch EXCEPT !.IsUpdated = TRUE] /\ sender' = sender
    BY <1>2 DEF UploadFlag
  <2>2. ch'.NextSendSeq = ch.NextSendSeq /\ ch'.IsUpdated
    BY <2>1 DEF ChInv
  <2> QED
    BY <1>1, <2>1, <2>2
<1>3. CASE SendPeek
  <2> DEFINE pos == Peek(ch.NextSendSeq)
             t == sender.torn \/ ReadsOld(ch.NextSendSeq)
             pc == IF pos.length >= DataSize THEN "copy" ELSE "peek"
  <2>1. /\ sender' = [pc |-> pc, pos |-> pos, pos2 |-> Nowhere, torn |-> t]
        /\ ch.IsUpdated /\ ch' = ch /\ up' = up
    BY <1>3 DEF SendPeek
  <2>2. /\ pos \in [place : Int, length : Nat]
        /\ pos # Nowhere => /\ pos.place \in 0 .. (up.written + NodeSize)
                            /\ ch.NextSendSeq < up.written + NodeSize
    BY <1>t, PeekBounds
  <2>3. t \in BOOLEAN /\ pc \in {"loop", "peek", "copy"}
    OBVIOUS
  <2> HIDE DEF pos, t, pc
  <2>4. sender' \in SenderType
    BY <1>n, <2>1, <2>2, <2>3
  <2>5. sender'.pos = pos /\ sender'.pos2 = Nowhere
    BY <2>1
  <2> QED
    BY <2>1, <2>2, <2>4, <2>5 DEF SenderInv
<1>4. CASE SendPeekMore
  <2> DEFINE seq == ch.NextSendSeq + sender.pos.length
             pos2 == Peek(seq)
             t == sender.torn \/ ReadsOld(seq)
  <2>1. /\ sender' = [pc |-> "copy", pos |-> sender.pos, pos2 |-> pos2, torn |-> t]
        /\ ch' = ch /\ up' = up /\ sender.pc = "peek"
    BY <1>4 DEF SendPeekMore
  <2>2. sender.pos \in [place : Int, length : Nat]
    BY DEF SenderInv
  <2>3. seq \in Nat /\ ch.NextSendSeq <= seq
    BY <1>t, <2>2
  <2> HIDE DEF seq
  <2>4. /\ pos2 \in [place : Int, length : Nat]
        /\ pos2 # Nowhere => /\ pos2.place \in 0 .. (up.written + NodeSize)
                             /\ seq < up.written + NodeSize
    BY <2>3, PeekBounds
  <2>5. t \in BOOLEAN
    OBVIOUS
  <2> HIDE DEF pos2, t
  <2>6. sender' \in SenderType
    BY <2>1, <2>2, <2>4, <2>5
  <2>7. sender'.pos = sender.pos /\ sender'.pos2 = pos2
    BY <2>1
  <2>8. /\ ch.IsUpdated
        /\ sender.pos # Nowhere \/ pos2 # Nowhere => ch.NextSendSeq < up.written + NodeSize
    <3>1. ch.IsUpdated /\ (sender.pos # Nowhere => ch.NextSendSeq < up.written + NodeSize)
      BY <2>1 DEF SenderInv
    <3> QED
      BY <1>t, <2>3, <2>4, <3>1
  <2>9. sender.pos = Nowhere \/ sender.pos.place \in 0 .. (up.written + NodeSize)
    BY DEF SenderInv
  <2> QED
    BY <2>1, <2>4, <2>6, <2>7, <2>8, <2>9 DEF SenderInv
<1>5. CASE SendPacket
  <2>1. sender' = [pc |-> "loop", pos |-> Nowhere, pos2 |-> Nowhere, torn |-> sender.torn]
    BY <1>5 DEF SendPacket
  <2>2. sender.torn \in BOOLEAN
    BY DEF SenderInv
  <2> QED
    BY <1>n, <2>1, <2>2 DEF SenderInv
<1>6. CASE UNCHANGED << ch, sender >>
  BY <1>1, <1>6
<1> QED
  BY <1>2, <1>3, <1>4, <1>5, <1>6 DEF Next, Upload, UploadPut, UploadCopy, UploadAdvance,
     UploadNext, Receive, ReceiveRefused, ReceivePut, ReceiveStray, ReceiveAck,
     ReceiveAckRaces, Read, vars

-----------------------------------------------------------------------------
(* The packets.                                                            *)

\* What memcpy copies behind a pointer is a sequence of bytes.
LEMMA CopiedBytes ==
    ASSUME UpInv, ChInv, NEW pos \in [place : Int, length : Nat], NEW k \in Nat,
           NEW reused \in BOOLEAN, k > 0 => pos.place \in Nat
    PROVE  /\ Copied(pos, k, reused) \in Seq(Bytes)
           /\ Len(Copied(pos, k, reused)) = k
           /\ \A j \in 1 .. k : Copied(pos, k, reused)[j] = Found(pos.place, j - 1, reused)
<1>1. \A j \in 1 .. k : Found(pos.place, j - 1, reused) \in Bytes
  <2> SUFFICES ASSUME NEW j \in 1 .. k PROVE Found(pos.place, j - 1, reused) \in Bytes
    OBVIOUS
  <2>1. pos.place \in Nat /\ pos.place + (j - 1) \in Nat
    OBVIOUS
  <2>2. up.written <= End /\ End \in Nat /\ up.written \in Nat
    BY EndBounds, EndFits, Sizes DEF UpInv
  <2> QED
    BY <2>1, <2>2 DEF Found, Bytes
<1>2. Copied(pos, k, reused) = [j \in 1 .. k |-> Found(pos.place, j - 1, reused)]
  BY DEF Copied
<1>3. Copied(pos, k, reused) \in [1 .. k -> Bytes]
  BY <1>1, <1>2
<1> QED
  BY <1>2, <1>3

\* A packet is made of k1 bytes from the first pointer and k2 from the second.
Parts(data, k1, k2, reused) ==
    /\ data \in Seq(Bytes) /\ Len(data) = k1 + k2 /\ k1 + k2 <= DataSize
    /\ k1 <= sender.pos.length /\ k2 <= sender.pos2.length
    /\ k2 > 0 => k1 = sender.pos.length
    /\ \A j \in 1 .. k1 : data[j] = Found(sender.pos.place, j - 1, reused)
    /\ \A j \in 1 .. k2 : data[k1 + j] = Found(sender.pos2.place, j - 1, reused)

\* What the packet that Send builds carries.
LEMMA PacketParts ==
    ASSUME UpInv, ChInv, SenderInv, NEW reused \in BOOLEAN
    PROVE  \E k1, k2 \in Nat :
              Parts(PacketData(sender.pos, sender.pos2, reused), k1, k2, reused)
<1> USE Sizes
<1> DEFINE pos == sender.pos
           pos2 == sender.pos2
<1>t. pos \in [place : Int, length : Nat] /\ pos2 \in [place : Int, length : Nat]
  BY DEF SenderInv
<1>n. (pos.length > 0 => pos.place \in Nat) /\ (pos2.length > 0 => pos2.place \in Nat)
  <2>1. Nowhere.length = 0
    BY DEF Nowhere
  <2>2. \A p \in {pos, pos2} : p = Nowhere \/ p.place \in Nat
    BY DEF SenderInv, UpInv
  <2> QED
    BY <1>t, <2>1, <2>2
<1>1. CASE pos.length >= DataSize
  <2>1. PacketData(pos, pos2, reused) = Copied(pos, DataSize, reused)
    BY <1>1 DEF PacketData
  <2>2. pos.place \in Nat
    BY <1>t, <1>n, <1>1
  <2>3. /\ Copied(pos, DataSize, reused) \in Seq(Bytes)
        /\ Len(Copied(pos, DataSize, reused)) = DataSize
        /\ \A j \in 1 .. DataSize : Copied(pos, DataSize, reused)[j] = Found(pos.place, j - 1, reused)
    BY <1>t, <2>2, CopiedBytes
  <2>4. Parts(PacketData(pos, pos2, reused), DataSize, 0, reused)
    BY <1>t, <1>1, <2>1, <2>3 DEF Parts
  <2> QED
    BY <2>4
<1>2. CASE ~(pos.length >= DataSize)
  <2> DEFINE k1 == pos.length
             k2 == Min({pos2.length, DataSize - pos.length})
             c1 == Copied(pos, k1, reused)
             c2 == Copied(pos2, k2, reused)
  <2>1. PacketData(pos, pos2, reused) = c1 \o c2
    BY <1>2 DEF PacketData
  <2>2. k1 \in Nat /\ k1 + k2 <= DataSize /\ k2 \in Nat /\ k2 <= pos2.length
    BY <1>t, <1>2, MinOfTwo
  <2> HIDE DEF k2
  <2>3. /\ c1 \in Seq(Bytes) /\ Len(c1) = k1
        /\ \A j \in 1 .. k1 : c1[j] = Found(pos.place, j - 1, reused)
    BY <1>t, <1>n, <2>2, CopiedBytes
  <2>4. /\ c2 \in Seq(Bytes) /\ Len(c2) = k2
        /\ \A j \in 1 .. k2 : c2[j] = Found(pos2.place, j - 1, reused)
    <3>1. k2 > 0 => pos2.place \in Nat
      BY <1>t, <1>n, <2>2
    <3> HIDE DEF pos2
    <3> QED
      BY <1>t, <2>2, <3>1, CopiedBytes
  <2> HIDE DEF c1, c2
  <2>5. /\ c1 \o c2 \in Seq(Bytes) /\ Len(c1 \o c2) = Len(c1) + Len(c2)
        /\ \A j \in 1 .. Len(c1) + Len(c2) :
              (c1 \o c2)[j] = IF j <= Len(c1) THEN c1[j] ELSE c2[j - Len(c1)]
    BY <2>3, <2>4, ConcatProperties
  <2> DEFINE data == c1 \o c2
  <2> HIDE DEF data, k1
  <2>6. /\ data \in Seq(Bytes) /\ Len(data) = k1 + k2
        /\ \A j \in 1 .. k1 + k2 : data[j] = IF j <= k1 THEN c1[j] ELSE c2[j - k1]
    BY <2>3, <2>4, <2>5 DEF data
  <2>7. \A j \in 1 .. k1 : data[j] = Found(pos.place, j - 1, reused)
    BY <2>2, <2>3, <2>6
  <2>8. \A j \in 1 .. k2 : data[k1 + j] = Found(pos2.place, j - 1, reused)
    <3> SUFFICES ASSUME NEW j \in 1 .. k2 PROVE data[k1 + j] = Found(pos2.place, j - 1, reused)
      OBVIOUS
    <3>1. k1 + j \in 1 .. k1 + k2 /\ ~(k1 + j <= k1) /\ (k1 + j) - k1 = j
      BY <2>2
    <3>2. data[k1 + j] = c2[(k1 + j) - k1]
      BY <2>6, <3>1
    <3> QED
      BY <2>4, <3>1, <3>2
  <2>9. Parts(data, k1, k2, reused)
    BY <1>t, <2>2, <2>6, <2>7, <2>8 DEF Parts, k1
  <2> QED
    BY <2>1, <2>2, <2>9 DEF data
<1> QED
  BY <1>1, <1>2

\* Send puts one packet behind all the others and advances by a full one.
LEMMA PacketEffect ==
    ASSUME UpInv, ChInv, SenderInv, SendPacket
    PROVE  \E reused \in BOOLEAN, data \in Seq(Bytes), k1, k2 \in Nat :
              /\ Parts(data, k1, k2, reused)
              /\ net' = net \cup {[seq |-> ch.NextSendSeq, data |-> data]}
              /\ ch'.NextSendSeq = ch.NextSendSeq + DataSize
              /\ UNCHANGED << up, app, acks, rcv, got >>
<1>1. PICK reused \in BOOLEAN :
         net' = net \cup {[seq |-> ch.NextSendSeq,
                           data |-> PacketData(sender.pos, sender.pos2, reused)]}
  BY DEF SendPacket
<1>2. PICK k1, k2 \in Nat : Parts(PacketData(sender.pos, sender.pos2, reused), k1, k2, reused)
  BY PacketParts
<1>3. ch'.NextSendSeq = ch.NextSendSeq + DataSize
  BY DEF SendPacket, ChInv, NextSeq
<1>4. PacketData(sender.pos, sender.pos2, reused) \in Seq(Bytes)
  BY <1>2 DEF Parts
<1> QED
  BY <1>1, <1>2, <1>3, <1>4 DEF SendPacket

\* Every step keeps what is known of packets and acknowledgements in flight.
LEMMA NetStep == ASSUME Inv, [Next]_vars PROVE NetInv'
<1> USE Sizes DEF Inv
<1>1. CASE SendPacket
  <2>1. PICK reused \in BOOLEAN, data \in Seq(Bytes), k1 \in Nat, k2 \in Nat :
           /\ Parts(data, k1, k2, reused)
           /\ net' = net \cup {[seq |-> ch.NextSendSeq, data |-> data]}
           /\ ch'.NextSendSeq = ch.NextSendSeq + DataSize
    BY <1>1, PacketEffect
  <2> DEFINE new == [seq |-> ch.NextSendSeq, data |-> data]
  <2>2. /\ new \in [seq : Nat, data : Seq(Bytes)] /\ new.seq = ch.NextSendSeq
        /\ Len(new.data) <= DataSize /\ ch.NextSendSeq \in Nat
    BY <2>1 DEF ChInv, Parts
  <2> HIDE DEF new
  <2>3. net' = net \cup {new}
    BY <2>1 DEF new
  <2>4. \A m \in net' :
           /\ m \in [seq : Nat, data : Seq(Bytes)]
           /\ Len(m.data) <= DataSize
           /\ m.seq + DataSize <= ch'.NextSendSeq
    BY <2>1, <2>2, <2>3 DEF NetInv
  <2>5. \A m, n \in net' : m # n => m.seq + DataSize <= n.seq \/ n.seq + DataSize <= m.seq
    BY <2>2, <2>3 DEF NetInv
  <2> QED
    BY <2>4, <2>5 DEF NetInv
<1>2. CASE UploadFlag
  <2>1. ch'.NextSendSeq = ch.NextSendSeq /\ net' = net
    BY <1>2 DEF UploadFlag, ChInv
  <2> QED
    BY <2>1 DEF NetInv
<1>3. CASE UNCHANGED << ch, net >>
  BY <1>3 DEF NetInv
<1> QED
  BY <1>1, <1>2, <1>3 DEF Next, Upload, UploadPut, UploadCopy, UploadAdvance, UploadNext,
     SendPeek, SendPeekMore, Receive, ReceiveRefused, ReceivePut, ReceiveStray, ReceiveAck,
     ReceiveAckRaces, Read, vars

-----------------------------------------------------------------------------
(* The receiving window.                                                   *)

\* A packet that arrives leaves what is held where it is, and its own bytes are
\* held afterwards.
LEMMA HeldAfterPut ==
    ASSUME NetInv, ch.NextSendSeq <= End, End \in Nat, ch.NextSendSeq \in Nat,
           NEW m \in net, ReceivePut(m)
    PROVE  /\ \A p \in Int : Held(p) => Held(p)'
           /\ \A p \in m.seq .. (m.seq + Len(m.data) - 1) : Held(p)'
<1> USE Sizes
<1>1. /\ m.seq \in Nat /\ Len(m.data) \in Nat /\ DOMAIN m.data = 1 .. Len(m.data)
      /\ m.seq + Len(m.data) <= End
  <2>1. m.data \in Seq(Bytes) /\ m.seq \in Nat /\ Len(m.data) <= DataSize
        /\ m.seq + DataSize <= ch.NextSendSeq
    BY DEF NetInv
  <2> QED
    BY <2>1, LenProperties
<1>2. net' = net
      /\ got' = [p \in 0 .. End |->
                   IF p - m.seq + 1 \in DOMAIN m.data THEN m.data[p - m.seq + 1] ELSE got[p]]
  BY DEF ReceivePut
<1>3. \A p \in m.seq .. (m.seq + Len(m.data) - 1) : Held(p)'
  <2> SUFFICES ASSUME NEW p \in m.seq .. (m.seq + Len(m.data) - 1) PROVE Held(p)'
    OBVIOUS
  <2>1. p \in 0 .. End /\ p - m.seq + 1 \in DOMAIN m.data
    BY <1>1
  <2>2. got'[p] = m.data[p - m.seq + 1]
    BY <1>2, <2>1
  <2>3. m \in net' /\ m.seq <= p /\ p < m.seq + Len(m.data)
    BY <1>1, <1>2
  <2> QED
    BY <2>2, <2>3 DEF Held
<1>4. ASSUME NEW p \in Int, Held(p) PROVE Held(p)'
  <2>1. PICK n \in net : /\ n.seq <= p /\ p < n.seq + Len(n.data)
                         /\ got[p] = n.data[p - n.seq + 1]
    BY <1>4 DEF Held
  <2>2. p \in 0 .. End
    <3>1. n.data \in Seq(Bytes) /\ n.seq \in Nat /\ Len(n.data) <= DataSize
          /\ n.seq + DataSize <= ch.NextSendSeq
      BY DEF NetInv
    <3>2. Len(n.data) \in Nat
      BY <3>1, LenProperties
    <3> QED
      BY <2>1, <3>1, <3>2
  <2>3. CASE p \in m.seq .. (m.seq + Len(m.data) - 1)
    BY <1>3, <2>3
  <2>4. CASE p \notin m.seq .. (m.seq + Len(m.data) - 1)
    <3>1. got'[p] = got[p]
      BY <1>1, <1>2, <2>2, <2>4
    <3> QED
      BY <1>2, <2>1, <3>1 DEF Held
  <2> QED
    BY <2>3, <2>4
<1> QED
  BY <1>3, <1>4

\* Two blocks that meet make one of the same kind.
LEMMA BlocksJoin == ch.NextSendSeq \in Nat => Joinable(Blocks)
<1> SUFFICES ASSUME ch.NextSendSeq \in Nat PROVE Joinable(Blocks)
  OBVIOUS
<1>1. ASSUME NEW x \in Blocks, NEW y \in Blocks, x.tail = y.head
      PROVE  [head |-> x.head, tail |-> y.tail] \in Blocks
  <2>1. /\ x.head \in Int /\ x.tail \in Int /\ y.tail \in Int
        /\ 0 <= x.head /\ x.head <= x.tail /\ x.tail <= y.tail /\ y.tail <= ch.NextSendSeq
    BY <1>1 DEF Blocks
  <2>2. /\ \A p \in x.head .. (x.tail - 1) : Held(p)
        /\ \A p \in x.tail .. (y.tail - 1) : Held(p)
    BY <1>1 DEF Blocks
  <2>3. \A p \in x.head .. (y.tail - 1) : Held(p)
    <3> SUFFICES ASSUME NEW p \in x.head .. (y.tail - 1) PROVE Held(p)
      OBVIOUS
    <3>1. p \in x.head .. (x.tail - 1) \/ p \in x.tail .. (y.tail - 1)
      BY <2>1
    <3> QED
      BY <2>2, <3>1
  <2> DEFINE z == [head |-> x.head, tail |-> y.tail]
  <2>4. z \in [head : Int, tail : Int] /\ z.head = x.head /\ z.tail = y.tail
    BY <2>1
  <2> HIDE DEF z
  <2>5. z \in Blocks
    BY <2>1, <2>3, <2>4 DEF Blocks
  <2> QED
    BY <2>5 DEF z
<1>2. Blocks \subseteq [head : Int, tail : Int]
  BY DEF Blocks
<1> QED
  BY <1>1, <1>2 DEF Joinable

\* An acknowledgement says how far the receiver is.
LEMMA AckOfWindow ==
    ASSUME ch.NextSendSeq \in Nat, ch.NextSendSeq <= End, End \in Nat,
           NEW last \in Nat, last <= ch.NextSendSeq,
           NEW list, list # << >> => list[1].head \in Int
    PROVE  Ack(last, list) \in Acks /\ Ack(last, list).seq <= ch.NextSendSeq
<1> USE Sizes
<1> DEFINE lost == IF list = << >> THEN 0 ELSE (list[1].head - last) % LostSpace
<1>1. lost \in 0 .. (LostSpace - 1)
  OBVIOUS
<1>2. Ack(last, list) = [seq |-> last, lost |-> lost]
  BY DEF Ack
<1> HIDE DEF lost
<1> QED
  BY <1>1, <1>2 DEF Acks

\* What a packet that is put makes of the receiving window.
LEMMA PutStep == ASSUME Inv, NEW m \in net, ReceivePut(m) PROVE RcvInv'
<1> USE Sizes DEF Inv
<1> DEFINE N == ch.NextSendSeq
           list == altusUBCheck(rcv.ub_list, m.seq, Len(m.data)).list
           inSeq == list[1].head = rcv.lastSeq
           last == IF inSeq THEN list[1].tail ELSE rcv.lastSeq
           rest == IF inSeq THEN altusUBPop(list) ELSE list
<1>1. /\ N \in Nat /\ N <= End /\ End \in Nat /\ End < SeqSpace
  BY EndBounds, EndFits DEF ChInv
<1>2. /\ rcv' = [rcv EXCEPT !.lastSeq = last, !.ub_list = rest, !.arrived = @ \cup {m}]
      /\ acks' = acks \cup {Ack(last, rest)}
      /\ ch' = ch /\ net' = net /\ ~Refused(m)
      /\ got' = [p \in 0 .. End |->
                   IF p - m.seq + 1 \in DOMAIN m.data THEN m.data[p - m.seq + 1] ELSE got[p]]
  BY DEF ReceivePut
<1>3. /\ \A p \in Int : Held(p) => Held(p)'
      /\ \A p \in m.seq .. (m.seq + Len(m.data) - 1) : Held(p)'
  BY <1>1, HeldAfterPut
<1>4. Blocks \subseteq Blocks'
  BY <1>2, <1>3 DEF Blocks
<1>5. m.seq \in Nat /\ Len(m.data) \in Nat /\ m.seq + Len(m.data) <= N /\ m.data \in Seq(Bytes)
  <2>1. m.data \in Seq(Bytes) /\ m.seq \in Nat /\ Len(m.data) <= DataSize /\ m.seq + DataSize <= N
    BY DEF NetInv
  <2> QED
    BY <1>1, <2>1, LenProperties
<1>6. Joinable(Blocks')
  <2>1. (ch.NextSendSeq \in Nat => Joinable(Blocks))'
    BY BlocksJoin, PTL
  <2> QED
    BY <1>1, <1>2, <2>1
<1>7. [head |-> m.seq, tail |-> Plus(m.seq, Len(m.data))] \in Blocks'
  <2>1. Plus(m.seq, Len(m.data)) = m.seq + Len(m.data)
    <3>1. m.seq + Len(m.data) \in 0 .. (SeqSpace - 1)
      BY <1>1, <1>5, SeqSpaceAssumption
    <3> QED
      BY <3>1, SeqSpaceAssumption, ModSmall DEF Plus
  <2> DEFINE b == [head |-> m.seq, tail |-> m.seq + Len(m.data)]
  <2>2. b \in [head : Int, tail : Int] /\ b.head = m.seq /\ b.tail = m.seq + Len(m.data)
    BY <1>5
  <2> HIDE DEF b
  <2>3. \A p \in b.head .. (b.tail - 1) : Held(p)'
    BY <1>3, <2>2
  <2>4. 0 <= b.head /\ b.head <= b.tail /\ b.tail <= ch'.NextSendSeq
    BY <1>1, <1>2, <1>5, <2>2
  <2>5. b \in Blocks'
    BY <2>2, <2>3, <2>4 DEF Blocks
  <2> QED
    BY <2>1, <2>5 DEF b
<1>8. rcv.ub_list \in Seq(Blocks')
  <2>1. rcv.ub_list \in Seq(Blocks)
    BY DEF RcvInv, Windows
  <2> QED
    BY <1>4, <2>1, SeqMonotonic
<1>9. Kept(Blocks', rcv.ub_list, altusUBCheck(rcv.ub_list, m.seq, Len(m.data)))
  <2> DEFINE B == Blocks'
  <2> HIDE DEF B
  <2>1. /\ Joinable(B) /\ rcv.ub_list \in Seq(B)
        /\ [head |-> m.seq, tail |-> Plus(m.seq, Len(m.data))] \in B
    BY <1>6, <1>7, <1>8 DEF B
  <2>2. Kept(B, rcv.ub_list, altusUBCheck(rcv.ub_list, m.seq, Len(m.data)))
    BY <1>5, <2>1, altusUBCheckKeeps
  <2> QED
    BY <2>2 DEF B
<1>10. list \in Seq(Blocks') /\ list # << >>
  BY <1>2, <1>9 DEF Kept, Fails, Refused, NoRoom
<1> HIDE DEF list
<1>11. /\ list[1] \in [head : Int, tail : Int]
       /\ 0 <= list[1].head /\ list[1].head <= list[1].tail /\ list[1].tail <= N
       /\ \A p \in list[1].head .. (list[1].tail - 1) : Held(p)'
  <2>1. list[1] \in Blocks'
    BY <1>10, EmptySeq, ElementOfSeq
  <2> QED
    BY <1>2, <2>1 DEF Blocks
<1>12. rest \in Seq(Blocks')
  BY <1>10, HeadTailProperties DEF altusUBPop
<1>13. rcv.lastSeq \in Nat /\ rcv.lastSeq <= N /\ rcv.read \in Nat /\ rcv.read <= rcv.lastSeq
  BY DEF RcvInv, Windows
<1>14. last \in Nat /\ rcv.lastSeq <= last /\ last <= N
  BY <1>1, <1>11, <1>13
<1>15. \A p \in 0 .. (last - 1) : Held(p)'
  <2> SUFFICES ASSUME NEW p \in 0 .. (last - 1) PROVE Held(p)'
    OBVIOUS
  <2>1. CASE p < rcv.lastSeq
    <3>1. Held(p)
      BY <1>13, <2>1 DEF RcvInv
    <3> QED
      BY <1>3, <3>1
  <2>2. CASE ~(p < rcv.lastSeq)
    <3>1. inSeq /\ p \in list[1].head .. (list[1].tail - 1)
      BY <1>11, <1>13, <1>14, <2>2
    <3> QED
      BY <1>11, <3>1
  <2> QED
    BY <2>1, <2>2
<1>16. rest # << >> => rest[1].head \in Int
  <2> SUFFICES ASSUME rest # << >> PROVE rest[1].head \in Int
    OBVIOUS
  <2> HIDE DEF rest
  <2>1. rest[1] \in Blocks'
    BY <1>12, EmptySeq, ElementOfSeq
  <2> QED
    BY <2>1 DEF Blocks
<1> HIDE DEF last, rest
<1>17. Ack(last, rest) \in Acks /\ Ack(last, rest).seq <= N
  BY <1>1, <1>14, <1>16, AckOfWindow
<1>18. /\ rcv' = [lastSeq |-> last, ub_list |-> rest, read |-> rcv.read, stray |-> rcv.stray,
                  arrived |-> rcv.arrived \cup {m}, noRoom |-> rcv.noRoom]
       /\ rcv.stray \in BOOLEAN /\ rcv.noRoom \in BOOLEAN /\ rcv.arrived \subseteq net
  BY <1>2 DEF RcvInv, Windows
<1>19. rcv' \in Windows'
  <2>1. rcv.arrived \cup {m} \subseteq net'
    BY <1>2, <1>18
  <2> QED
    BY <1>12, <1>13, <1>14, <1>18, <2>1 DEF Windows
<1>20. rcv'.lastSeq = last /\ rcv'.read <= rcv'.lastSeq
  BY <1>13, <1>14, <1>18
<1>21. got' \in [0 .. End -> Bytes]
  <2>1. \A j \in DOMAIN m.data : m.data[j] \in Bytes
    BY <1>5, LenProperties, ElementOfSeq
  <2>2. \A p \in 0 .. End : got[p] \in Bytes
    BY DEF RcvInv
  <2> QED
    BY <1>2, <2>1, <2>2
<1>22. \A a \in acks' : a \in Acks /\ a.seq <= ch'.NextSendSeq
  BY <1>2, <1>17 DEF RcvInv
<1> QED
  BY <1>2, <1>14, <1>15, <1>19, <1>20, <1>21, <1>22 DEF RcvInv

\* Every step keeps the receiver's part.
LEMMA RcvStep == ASSUME Inv, [Next]_vars PROVE RcvInv'
<1> USE Sizes DEF Inv
<1>t. /\ ch.NextSendSeq \in Nat /\ ch.NextSendSeq <= End /\ End \in Nat
  BY EndBounds, EndFits DEF ChInv
<1>1. ASSUME net \subseteq net', ch'.NextSendSeq \in Nat, ch'.NextSendSeq >= ch.NextSendSeq,
             UNCHANGED << acks, rcv, got >>
      PROVE  RcvInv'
  <2>1. \A p \in Int : Held(p) => Held(p)'
    BY <1>1 DEF Held
  <2>2. Blocks \subseteq Blocks'
    BY <1>t, <1>1, <2>1 DEF Blocks
  <2>3. rcv.ub_list \in Seq(Blocks')
    <3>1. rcv.ub_list \in Seq(Blocks)
      BY DEF RcvInv, Windows
    <3> QED
      BY <2>2, <3>1, SeqMonotonic
  <2>4. rcv \in Windows'
    <3>1. rcv \in Windows /\ rcv.arrived \subseteq net'
      BY <1>1 DEF RcvInv, Windows
    <3> QED
      BY <2>3, <3>1 DEF Windows
  <2>5. \A p \in 0 .. (rcv.lastSeq - 1) : Held(p)'
    BY <2>1 DEF RcvInv
  <2>6. rcv.lastSeq <= ch'.NextSendSeq /\ \A a \in acks : a \in Acks /\ a.seq <= ch'.NextSendSeq
    BY <1>t, <1>1, EndFits DEF RcvInv, Windows, Acks
  <2> QED
    BY <1>1, <2>4, <2>5, <2>6 DEF RcvInv
<1>2. CASE SendPacket
  BY <1>1, <1>2, <1>t, PacketEffect
<1>3. CASE UploadFlag
  <2>1. ch'.NextSendSeq = ch.NextSendSeq
    BY <1>3 DEF UploadFlag, ChInv
  <2> QED
    BY <1>1, <1>3, <1>t, <2>1 DEF UploadFlag
<1>4. CASE UNCHANGED << ch, net, acks, rcv, got >>
  BY <1>1, <1>4, <1>t
<1>5. ASSUME UNCHANGED << ch, net, got >>, \A p : Held(p)' <=> Held(p), Windows' = Windows,
             rcv' \in Windows,
             rcv'.read <= rcv'.lastSeq, rcv'.lastSeq = rcv.lastSeq,
             \A a \in acks' : a \in Acks /\ a.seq <= ch.NextSendSeq
      PROVE  RcvInv'
  BY <1>5 DEF RcvInv
<1>6. ASSUME UNCHANGED << ch, net, got >> PROVE (\A p : Held(p)' <=> Held(p)) /\ Windows' = Windows
  BY <1>6 DEF Held, Blocks, Windows
<1>7. ASSUME NEW m \in net, ReceiveRefused(m) PROVE RcvInv'
  <2> DEFINE full == rcv.noRoom \/ (m \notin rcv.arrived /\ NoRoom(m))
  <2>1. /\ acks' = acks \cup {Ack(rcv.lastSeq, rcv.ub_list)} /\ UNCHANGED << ch, net, got >>
        /\ rcv' = [rcv EXCEPT !.arrived = @ \cup {m}, !.noRoom = full]
    BY <1>7 DEF ReceiveRefused
  <2>f. full \in BOOLEAN
    OBVIOUS
  <2> HIDE DEF full
  <2>2. rcv.ub_list # << >> => rcv.ub_list[1].head \in Int
    <3> SUFFICES ASSUME rcv.ub_list # << >> PROVE rcv.ub_list[1].head \in Int
      OBVIOUS
    <3>1. rcv.ub_list[1] \in Blocks
      BY EmptySeq, ElementOfSeq DEF RcvInv, Windows
    <3> QED
      BY <3>1 DEF Blocks
  <2>3. rcv.lastSeq \in Nat /\ rcv.lastSeq <= ch.NextSendSeq
    BY DEF RcvInv, Windows
  <2>4. /\ Ack(rcv.lastSeq, rcv.ub_list) \in Acks
        /\ Ack(rcv.lastSeq, rcv.ub_list).seq <= ch.NextSendSeq
    BY <1>t, <2>2, <2>3, AckOfWindow
  <2>5. \A a \in acks' : a \in Acks /\ a.seq <= ch.NextSendSeq
    BY <2>1, <2>4 DEF RcvInv
  <2>6. /\ rcv' = [lastSeq |-> rcv.lastSeq, ub_list |-> rcv.ub_list, read |-> rcv.read,
                   stray |-> rcv.stray, arrived |-> rcv.arrived \cup {m}, noRoom |-> full]
        /\ rcv' \in Windows /\ rcv'.read <= rcv'.lastSeq /\ rcv'.lastSeq = rcv.lastSeq
    BY <1>7, <2>1, <2>f DEF RcvInv, Windows
  <2> QED
    BY <1>5, <1>6, <2>1, <2>5, <2>6
<1>8. ASSUME NEW m \in net, ReceiveStray(m) PROVE RcvInv'
  <2>1. /\ rcv' = [rcv EXCEPT !.stray = TRUE, !.arrived = @ \cup {m}]
        /\ acks' = acks /\ UNCHANGED << ch, net, got >>
    BY <1>8 DEF ReceiveStray
  <2>2. rcv' = [lastSeq |-> rcv.lastSeq, ub_list |-> rcv.ub_list, read |-> rcv.read,
                stray |-> TRUE, arrived |-> rcv.arrived \cup {m}, noRoom |-> rcv.noRoom]
    BY <2>1 DEF RcvInv, Windows
  <2>3. rcv' \in Windows /\ rcv'.read <= rcv'.lastSeq /\ rcv'.lastSeq = rcv.lastSeq
    BY <1>8, <2>2 DEF RcvInv, Windows
  <2>4. \A a \in acks' : a \in Acks /\ a.seq <= ch.NextSendSeq
    BY <2>1 DEF RcvInv
  <2> QED
    BY <1>5, <1>6, <2>1, <2>3, <2>4
<1>9. CASE Read
  <2>1. rcv' = [rcv EXCEPT !.read = rcv.lastSeq] /\ acks' = acks /\ UNCHANGED << ch, net, got >>
    BY <1>9 DEF Read
  <2>2. rcv' = [lastSeq |-> rcv.lastSeq, ub_list |-> rcv.ub_list, read |-> rcv.lastSeq,
                stray |-> rcv.stray, arrived |-> rcv.arrived, noRoom |-> rcv.noRoom]
    BY <2>1 DEF RcvInv, Windows
  <2>3. rcv' \in Windows /\ rcv'.read <= rcv'.lastSeq /\ rcv'.lastSeq = rcv.lastSeq
    BY <2>2 DEF RcvInv, Windows
  <2>4. \A a \in acks' : a \in Acks /\ a.seq <= ch.NextSendSeq
    BY <2>1 DEF RcvInv
  <2> QED
    BY <1>5, <1>6, <2>1, <2>3, <2>4
<1>10. ASSUME NEW m \in net, ReceivePut(m) PROVE RcvInv'
  BY <1>10, PutStep
<1> QED
  BY <1>2, <1>3, <1>4, <1>7, <1>8, <1>9, <1>10
     DEF Next, Upload, UploadPut, UploadCopy, UploadAdvance, UploadNext, SendPeek,
         SendPeekMore, Receive, ReceiveAck, ReceiveAckRaces, vars

-----------------------------------------------------------------------------
(* The stream.                                                             *)

\* Before any node is popped, altusWQPeek shows what was uploaded from a place
\* that is not behind lastSeq, if it reads no node that is not set up.
LEMMA PeekShows ==
    ASSUME UpInv, CountInv, ChInv, up.head = 1, NEW q \in Nat, q <= up.lastSeq, ~ReadsOld(q)
    PROVE  Shows(Peek(q), q)
<1> USE Sizes
<1> DEFINE N == NodeSize
           n == Len(up.count)
           s == up.safe
           node == q \div N
           qr == q % N
           valid == up.count[1 + node]
           left == Minus(valid, qr)
<1>1. /\ Peek(q) = IF 1 + node > n \/ left = 0 THEN Nowhere ELSE [place |-> First + q, length |-> left]
      /\ First = (1 - 1) * NodeSize
      /\ ~(1 + node > s /\ 1 + node <= n)
  BY DEF Peek, PeekNode, First, ReadsOld
<1>2. /\ n \in Nat /\ s \in 1 .. n /\ up.lastSeq \in Nat /\ up.count[s] \in Nat
  BY UpFacts
<1>3. node \in Nat /\ q = N * node + qr /\ qr \in 0 .. (N - 1)
  BY DivMod
<1>4. up.lastSeq = N * (s - 1) + up.count[s] /\ up.count[s] <= N
  <2>1. IF app.pc = "next" THEN up.count[s] = N ELSE up.count[s] < N
    BY DEF CountInv
  <2>2. up.lastSeq = N * (s - 1) + up.count[s]
    BY DEF CountInv
  <2>3. up.count[s] <= N
    BY <1>2, <2>1
  <2> QED
    BY <2>2, <2>3
<1>z. First + q = q
  <2>1. (1 - 1) * NodeSize = 0
    OBVIOUS
  <2> QED
    BY <1>1, <2>1
<1> HIDE DEF node, qr, n
<1>5. CASE Peek(q) = Nowhere
  BY <1>5 DEF Shows
<1>6. CASE 1 + node <= s /\ Peek(q) = [place |-> First + q, length |-> left]
  <2>1. valid \in Nat /\ valid <= N /\ qr <= valid /\ N * node + valid <= up.lastSeq
    <3>1. CASE node + 1 = s
      <4>1. valid = up.count[s] /\ N * (s - 1) = N * node
        BY <1>2, <1>3, <3>1
      <4> DEFINE x == N * node
                 v == up.count[s]
                 l == up.lastSeq
      <4>2. x \in Int /\ l = x + v /\ v \in Nat /\ v <= N /\ l \in Nat /\ q = x + qr /\ q <= l
        <5>1. x \in Int
          BY <1>3
        <5> QED
          BY <1>2, <1>3, <1>4, <4>1, <5>1
      <4> HIDE DEF x, v, l
      <4>3. qr <= v /\ x + v <= l
        BY <1>3, <4>2
      <4> QED
        BY <4>1, <4>2, <4>3 DEF x, v, l
    <3>2. CASE node + 1 < s
      <4>1. 1 + node \in 1 .. (s - 1)
        BY <1>2, <1>3, <3>2
      <4>2. valid = N
        BY <4>1 DEF CountInv
      <4>3. N * (node + 1) <= N * (s - 1) /\ N * (node + 1) = N * node + N
        <5>1. node + 1 <= s - 1 /\ node + 1 \in Nat /\ s - 1 \in Nat
          BY <1>2, <1>3, <3>2
        <5>2. N * (node + 1) <= N * (s - 1)
          BY <5>1, TimesMonotonic
        <5> QED
          BY <1>3, <5>2
      <4>4. N * node \in Int /\ N * (s - 1) \in Int
        BY <1>2, <1>3
      <4>5. N * node + N <= up.lastSeq
        BY <1>2, <1>4, <4>3, <4>4
      <4> QED
        BY <1>3, <4>2, <4>5
    <3> QED
      BY <1>2, <1>3, <1>6, <3>1, <3>2
  <2> HIDE DEF valid
  <2>2. left = valid - qr
    <3>1. N < SeqSpace
      <4>1. up.written \in Nat /\ up.written + N <= End
        BY EndBounds DEF UpInv
      <4> QED
        BY <4>1, EndFits, SeqSpaceAssumption
    <3>2. valid - qr \in 0 .. (SeqSpace - 1)
      BY <1>3, <2>1, <3>1, SeqSpaceAssumption
    <3> QED
      BY <3>2, ModSmall, SeqSpaceAssumption DEF Minus
  <2>3. \A i \in 0 .. (left - 1) : (q + i) \div N = node
    <3> SUFFICES ASSUME NEW i \in 0 .. (left - 1) PROVE (q + i) \div N = node
      OBVIOUS
    <3> DEFINE rr == qr + i
    <3>1. rr \in 0 .. (N - 1)
      BY <1>3, <2>1, <2>2
    <3>2. q + i = N * node + rr
      BY <1>3
    <3> HIDE DEF rr
    <3>3. (N * node + rr) \div N = node
      BY <1>3, <3>1, DivUnique
    <3> QED
      BY <3>2, <3>3
  <2>4. q + left <= up.lastSeq
    <3>1. N * node \in Int
      BY <1>3
    <3> QED
      BY <1>2, <1>3, <2>1, <2>2, <3>1
  <2> HIDE DEF left
  <2>5. Peek(q).place = q /\ Peek(q).length = left
    BY <1>6, <1>z
  <2> QED
    BY <2>3, <2>4, <2>5 DEF Shows, node
<1> QED
  <2>1. 1 + node > n \/ 1 + node <= s
    BY <1>1, <1>2, <1>3
  <2> QED
    BY <1>1, <1>5, <1>6, <2>1

\* Bytes behind a pointer that shows the stream are the stream's.
LEMMA ShownBytes ==
    ASSUME UpInv, up.head = 1, NEW pos \in [place : Int, length : Nat], NEW q \in Nat,
           Shows(pos, q), NEW reused \in BOOLEAN, NEW j \in 1 .. pos.length
    PROVE  Found(pos.place, j - 1, reused) = q + (j - 1)
<1>1. pos # Nowhere
  BY DEF Nowhere
<1>2. /\ pos.place = q /\ q + pos.length <= up.lastSeq
      /\ (q + (j - 1)) \div NodeSize = q \div NodeSize
  <2>1. j - 1 \in 0 .. (pos.length - 1)
    OBVIOUS
  <2> QED
    BY <1>1, <2>1 DEF Shows
<1>3. q + (j - 1) < up.written /\ q + (j - 1) >= 0
  BY <1>2 DEF UpInv
<1>4. First = 0
  <2>1. (1 - 1) * NodeSize = 0
    BY Sizes
  <2> QED
    BY <2>1 DEF First
<1> QED
  BY <1>2, <1>3, <1>4 DEF Found

\* Every step keeps what is known of the bytes.
LEMMA StreamStep == ASSUME Inv, [Next]_vars PROVE StreamInv'
<1> SUFFICES ASSUME up'.head = 1, ~sender'.torn PROVE StreamInv'
  BY DEF StreamInv
<1> USE Sizes DEF Inv
<1>t. ch.NextSendSeq \in Nat /\ up.lastSeq \in Nat
  BY DEF UpInv, ChInv
<1>w. up.head = 1 /\ up'.lastSeq \in Nat /\ up.lastSeq <= up'.lastSeq
  <2>1. UpGoal
    BY UpStep
  <2>2. up'.lastSeq \in Nat /\ up.lastSeq <= up'.lastSeq /\ up.head <= 1
    BY <2>1 DEF UpGoal, UpInv, Forward
  <2> QED
    BY <2>2, UpFacts
<1>1. ASSUME ch'.NextSendSeq = ch.NextSendSeq, UNCHANGED << sender, net >>
      PROVE  StreamInv'
  <2>1. sender.pos.length \in Nat /\ sender.pos2.length \in Nat
    BY DEF SenderInv
  <2>2. \A pos, q : Shows(pos, q) /\ pos.length \in Nat /\ q \in Nat => Shows(pos, q)'
    BY <1>t, <1>w, <1>1 DEF Shows
  <2>3. ch.NextSendSeq + sender.pos.length \in Nat
    BY <1>t, <2>1
  <2> QED
    BY <1>t, <1>w, <1>1, <2>1, <2>2, <2>3 DEF StreamInv, Full, Intact
<1>3. CASE UploadFlag
  <2>1. ch'.NextSendSeq = ch.NextSendSeq
    BY <1>3 DEF UploadFlag, ChInv
  <2> QED
    BY <1>1, <1>3, <2>1 DEF UploadFlag
<1>4. CASE SendPeek
  <2> DEFINE pos == Peek(ch.NextSendSeq)
             t == sender.torn \/ ReadsOld(ch.NextSendSeq)
             pc == IF pos.length >= DataSize THEN "copy" ELSE "peek"
  <2>1. /\ sender' = [pc |-> pc, pos |-> pos, pos2 |-> Nowhere, torn |-> t]
        /\ UNCHANGED << up, ch, net >>
    BY <1>4 DEF SendPeek
  <2>2. ~sender.torn /\ ~ReadsOld(ch.NextSendSeq)
    BY <2>1
  <2>3. ASSUME \A m \in net : Full(m)
        PROVE  ch.NextSendSeq <= up.lastSeq /\ Shows(pos, ch.NextSendSeq)
    <3>1. ch.NextSendSeq <= up.lastSeq
      BY <1>w, <2>2, <2>3 DEF StreamInv
    <3> QED
      BY <1>t, <1>w, <2>2, <3>1, PeekShows
  <2>4. sender'.pos = pos /\ sender'.pos2 = Nowhere
    BY <2>1
  <2> HIDE DEF pos, t, pc
  <2>5. \A p, q : Shows(p, q)' <=> Shows(p, q)
    BY <2>1 DEF Shows
  <2>6. \A m \in net : (\A k \in net : k.seq < m.seq => Full(k)) => Intact(m)
    BY <1>w, <2>2 DEF StreamInv
  <2>7. Shows(Nowhere, ch.NextSendSeq + pos.length)
    BY DEF Shows
  <2> QED
    BY <2>1, <2>3, <2>4, <2>5, <2>6, <2>7 DEF StreamInv, Full, Intact
<1>5. CASE SendPeekMore
  <2> DEFINE seq == ch.NextSendSeq + sender.pos.length
             pos2 == Peek(seq)
             t == sender.torn \/ ReadsOld(seq)
  <2>1. /\ sender' = [pc |-> "copy", pos |-> sender.pos, pos2 |-> pos2, torn |-> t]
        /\ UNCHANGED << up, ch, net >> /\ sender.pc = "peek"
    BY <1>5 DEF SendPeekMore
  <2>2. ~sender.torn /\ ~ReadsOld(seq)
    BY <2>1
  <2>3. ASSUME \A m \in net : Full(m)
        PROVE  /\ ch.NextSendSeq <= up.lastSeq
               /\ Shows(sender.pos, ch.NextSendSeq) /\ Shows(pos2, seq)
    <3>1. ch.NextSendSeq <= up.lastSeq /\ Shows(sender.pos, ch.NextSendSeq)
      BY <1>w, <2>1, <2>2, <2>3 DEF StreamInv
    <3>2. sender.pos \in [place : Int, length : Nat]
      BY DEF SenderInv
    <3>3. seq \in Nat /\ seq <= up.lastSeq
      <4>1. CASE sender.pos = Nowhere
        BY <1>t, <3>1, <4>1 DEF Nowhere
      <4>2. CASE sender.pos # Nowhere
        BY <1>t, <3>1, <3>2, <4>2 DEF Shows
      <4> QED
        BY <4>1, <4>2
    <3> HIDE DEF seq
    <3>4. Shows(pos2, seq)
      BY <1>w, <2>2, <3>3, PeekShows
    <3> QED
      BY <3>1, <3>4
  <2>4. sender'.pos = sender.pos /\ sender'.pos2 = pos2
    BY <2>1
  <2> HIDE DEF pos2, t
  <2>5. \A p, q : Shows(p, q)' <=> Shows(p, q)
    BY <2>1 DEF Shows
  <2>6. \A m \in net : (\A k \in net : k.seq < m.seq => Full(k)) => Intact(m)
    BY <1>w, <2>2 DEF StreamInv
  <2> QED
    BY <2>1, <2>3, <2>4, <2>5, <2>6 DEF StreamInv, Full, Intact
<1>6. CASE SendPacket
  <2>1. PICK reused \in BOOLEAN, data \in Seq(Bytes), k1 \in Nat, k2 \in Nat :
           /\ Parts(data, k1, k2, reused)
           /\ net' = net \cup {[seq |-> ch.NextSendSeq, data |-> data]}
           /\ ch'.NextSendSeq = ch.NextSendSeq + DataSize
           /\ up' = up
    BY <1>6, PacketEffect
  <2> DEFINE new == [seq |-> ch.NextSendSeq, data |-> data]
             N == ch.NextSendSeq
  <2>2. new.seq = N /\ new.data = data /\ net' = net \cup {new}
    BY <2>1
  <2> HIDE DEF new
  <2>3. sender'.pc = "loop" /\ sender.pc = "copy" /\ ~sender.torn
    BY <1>6 DEF SendPacket
  <2>4. ASSUME \A n \in net : Full(n)
        PROVE  Intact(new) /\ (Full(new) => N + DataSize <= up.lastSeq)
    <3>1. /\ N <= up.lastSeq /\ Shows(sender.pos, N) /\ Shows(sender.pos2, N + sender.pos.length)
      BY <1>w, <2>3, <2>4 DEF StreamInv
    <3>2. /\ sender.pos \in [place : Int, length : Nat]
          /\ sender.pos2 \in [place : Int, length : Nat]
      BY DEF SenderInv
    <3>3. \A j \in 1 .. k1 : data[j] = N + (j - 1)
      <4> SUFFICES ASSUME NEW j \in 1 .. k1 PROVE data[j] = N + (j - 1)
        OBVIOUS
      <4>1. j \in 1 .. sender.pos.length /\ data[j] = Found(sender.pos.place, j - 1, reused)
        BY <2>1, <3>2 DEF Parts
      <4> QED
        BY <1>t, <1>w, <3>1, <3>2, <4>1, ShownBytes
    <3>4. \A j \in 1 .. k2 : data[k1 + j] = N + k1 + (j - 1)
      <4> SUFFICES ASSUME NEW j \in 1 .. k2 PROVE data[k1 + j] = N + k1 + (j - 1)
        OBVIOUS
      <4>1. /\ j \in 1 .. sender.pos2.length /\ k1 = sender.pos.length
            /\ data[k1 + j] = Found(sender.pos2.place, j - 1, reused)
        BY <2>1, <3>2 DEF Parts
      <4>2. N + k1 \in Nat /\ Shows(sender.pos2, N + k1)
        BY <1>t, <3>1, <4>1
      <4> QED
        BY <1>w, <3>2, <4>1, <4>2, ShownBytes
    <3>5. Len(data) = k1 + k2
      BY <2>1 DEF Parts
    <3>6. Intact(new)
      <4> SUFFICES ASSUME NEW j \in 1 .. (k1 + k2) PROVE data[j] = N + j - 1
        BY <2>2, <3>5 DEF Intact
      <4>1. CASE j <= k1
        BY <1>t, <3>3, <4>1
      <4>2. CASE ~(j <= k1)
        <5>1. j - k1 \in 1 .. k2 /\ k1 + (j - k1) = j
          BY <4>2
        <5>2. data[k1 + (j - k1)] = N + k1 + ((j - k1) - 1)
          BY <3>4, <5>1
        <5> QED
          BY <1>t, <5>1, <5>2
      <4> QED
        BY <4>1, <4>2
    <3>7. ASSUME k1 + k2 = DataSize PROVE N + DataSize <= up.lastSeq
      <4>1. k1 <= sender.pos.length /\ k2 <= sender.pos2.length /\ (k2 > 0 => k1 = sender.pos.length)
        BY <2>1 DEF Parts
      <4>2. sender.pos.length > 0 => N + sender.pos.length <= up.lastSeq
        BY <3>1, <3>2 DEF Shows, Nowhere
      <4>3. sender.pos2.length > 0 => N + sender.pos.length + sender.pos2.length <= up.lastSeq
        BY <3>1, <3>2 DEF Shows, Nowhere
      <4> DEFINE l1 == sender.pos.length
                 l2 == sender.pos2.length
                 top == up.lastSeq
      <4>4. l1 \in Nat /\ l2 \in Nat
        BY <3>2
      <4> HIDE DEF l1, l2, N, top
      <4>5. /\ k1 <= l1 /\ k2 <= l2 /\ (k2 > 0 => k1 = l1)
            /\ (l1 > 0 => N + l1 <= top) /\ (l2 > 0 => N + l1 + l2 <= top)
            /\ N \in Nat /\ top \in Nat
        BY <1>t, <4>1, <4>2, <4>3 DEF l1, l2, N, top
      <4>6. N + DataSize <= top
        BY <3>7, <4>4, <4>5
      <4> QED
        BY <4>6 DEF N, top
    <3> QED
      BY <2>2, <3>5, <3>6, <3>7 DEF Full
  <2>5. \A m \in net : m.seq \in Nat /\ m.seq < N
    BY <1>t DEF NetInv
  <2>6. ASSUME NEW m \in net', \A n \in net' : n.seq < m.seq => Full(n) PROVE Intact(m)
    <3>1. CASE m = new
      BY <2>2, <2>4, <2>5, <2>6, <3>1
    <3>2. CASE m \in net
      BY <1>w, <2>2, <2>3, <2>6, <3>2 DEF StreamInv
    <3> QED
      BY <2>2, <3>1, <3>2
  <2>7. ASSUME \A n \in net' : Full(n) PROVE ch'.NextSendSeq <= up'.lastSeq
    BY <2>1, <2>2, <2>4, <2>7
  <2> QED
    BY <2>3, <2>6, <2>7 DEF StreamInv, Full, Intact
<1>7. CASE UNCHANGED << ch, sender, net >>
  BY <1>1, <1>7
<1> QED
  BY <1>3, <1>4, <1>5, <1>6, <1>7 DEF Next, Upload, UploadPut, UploadCopy, UploadAdvance,
     UploadNext, Receive, ReceiveRefused, ReceivePut, ReceiveStray, ReceiveAck,
     ReceiveAckRaces, Read, vars

-----------------------------------------------------------------------------
(* The theorems.                                                           *)

\* The channel starts in the invariant, whatever lastAckedSeq happens to be.
LEMMA InvInit == Init => Inv
<1> SUFFICES ASSUME Init PROVE Inv
  OBVIOUS
<1> USE Sizes DEF Init
<1>1. PICK leftover \in Leftovers :
         ch = [NextSendSeq |-> 0, IsUpdated |-> FALSE, lastAckedSeq |-> leftover]
  OBVIOUS
<1>2. Len(app.uploads) = 0 /\ app.uploads \in Seq(Nat)
  OBVIOUS
<1>c. << 0 >> \in Seq(Nat) /\ Len(<< 0 >>) = 1 /\ << 0 >>[1] = 0
  OBVIOUS
<1>3. UpInv
  <2>1. up \in [head : Nat, safe : Nat, headDataOffset : 0 .. (NodeSize - 1), lastSeq : Nat,
               written : Nat, count : Seq(Nat), raced : BOOLEAN]
    BY <1>c
  <2>2. 0 <= Len(app.uploads) * MaxUpload
    BY <1>2
  <2> QED
    BY <1>2, <2>1, <2>2 DEF UpInv
<1>d. CountInv
  BY <1>c DEF CountInv
<1>4. ChInv
  <2>1. ch \in [NextSendSeq : Nat, IsUpdated : BOOLEAN, lastAckedSeq : Seqs]
    BY <1>1
  <2>2. Pending = 0
    BY <1>1 DEF Pending
  <2> QED
    BY <1>1, <1>2, <2>1, <2>2 DEF ChInv
<1>5. SenderInv
  <2>1. Nowhere \in [place : Int, length : Nat]
    BY DEF Nowhere, Junk
  <2> QED
    BY <2>1 DEF SenderInv
<1>6. NetInv
  BY DEF NetInv
<1>7. RcvInv
  <2>1. rcv \in Windows
    BY DEF Windows
  <2>2. got \in [0 .. End -> Bytes]
    BY DEF Bytes
  <2> QED
    BY <1>1, <2>1, <2>2 DEF RcvInv, Windows
<1>8. StreamInv
  BY <1>1 DEF StreamInv
<1> QED
  BY <1>3, <1>d, <1>4, <1>5, <1>6, <1>7, <1>8 DEF Inv

\* Every behaviour keeps the invariant of channel, window, packets and receiver.
THEOREM InvCorrect == Spec => []Inv
<1>1. Inv /\ [Next]_vars => Inv'
  BY UpStep, ChStep, SenderStep, NetStep, RcvStep, StreamStep DEF Inv, UpGoal
<1> QED
  BY <1>1, InvInit, PTL DEF Spec

\* The loop of altusWQPop, led by the counts in the nodes alone, never passes
\* the writer's end: for every leftover value of lastAckedSeq, every
\* acknowledgement, late or repeated, and every moment of a put at which it
\* comes.
THEOREM PoppedCorrect == Spec => []PoppedBehindWritten
<1>1. Inv => PoppedBehindWritten
  <2> SUFFICES ASSUME Inv PROVE PoppedBehindWritten
    OBVIOUS
  <2> USE Sizes DEF Inv
  <2> DEFINE h == up.head
             s == up.safe
             o == up.headDataOffset
             v == up.count[s]
             x == (h - 1) * NodeSize
             y == NodeSize * (s - 1)
  <2>1. h \in 1 .. s /\ s \in Nat /\ o \in 0 .. (NodeSize - 1) /\ v \in Nat
    BY UpFacts
  <2>2. up.lastSeq = y + v /\ (h = s => o <= v) /\ First = x
    BY DEF CountInv, First
  <2>5. up.lastSeq <= up.written /\ up.lastSeq \in Int /\ up.written \in Int
    BY DEF UpInv
  <2> HIDE DEF h, s, o, v
  <2>3. CASE h = s
    <3>1. x = y /\ y \in Int
      BY <2>1, <2>3
    <3> HIDE DEF x, y
    <3>2. x + o <= y + v
      BY <2>1, <2>2, <2>3, <3>1
    <3> QED
      <4>1. x + o <= up.written
        BY <2>1, <2>2, <2>5, <3>1, <3>2
      <4> QED
        BY <2>2, <4>1 DEF PoppedBehindWritten, o
  <2>4. CASE h # s
    <3>1. h <= s - 1 /\ h \in Nat /\ s - 1 \in Nat
      BY <2>1, <2>4
    <3>2. NodeSize * h <= NodeSize * (s - 1) /\ NodeSize * h = x + NodeSize
      <4>1. NodeSize * h <= NodeSize * (s - 1)
        BY <3>1, TimesMonotonic
      <4> QED
        BY <3>1, <4>1
    <3>3. x \in Int /\ y \in Int
      BY <2>1, <3>1
    <3>4. x + NodeSize <= y
      BY <3>2
    <3> HIDE DEF x, y
    <3>5. x + o <= y + v
      BY <2>1, <3>3, <3>4
    <3> QED
      <4>1. x + o <= up.written
        BY <2>1, <2>2, <2>5, <3>3, <3>5
      <4> QED
        BY <2>2, <4>1 DEF PoppedBehindWritten, o
  <2> QED
    BY <2>3, <2>4
<1> QED
  BY <1>1, InvCorrect, PTL

\* The receiver's lastSeq never passes NextSendSeq: processPacket never takes an
\* acknowledgement for one of the future.
THEOREM AheadCorrect == Spec => []NeverAheadOfSender
<1>1. Inv => NeverAheadOfSender
  BY DEF Inv, RcvInv, NeverAheadOfSender
<1> QED
  BY <1>1, InvCorrect, PTL

\* What the receiver takes for the stream is the stream, although Send runs
\* ahead of the window and fills packets with foreign memory, and although it
\* peeks into the window at every moment of a put, up to the first time it reads
\* a node that is linked and not set up.
THEOREM StreamCorrect == Spec => []DeliveredIntact
<1>1. Inv => DeliveredIntact
  <2> SUFFICES ASSUME Inv, Undisturbed, NEW p \in 0 .. (rcv.lastSeq - 1) PROVE got[p] = p
    BY DEF DeliveredIntact
  <2> USE Sizes
  <2>1. \A q \in 0 .. (rcv.lastSeq - 1) : Held(q)
    BY DEF Inv, RcvInv
  <2>2. PICK m \in net : /\ m.seq <= p /\ p < m.seq + Len(m.data)
                         /\ got[p] = m.data[p - m.seq + 1]
    BY <2>1 DEF Held
  <2>3. \A n \in net : n.seq \in Nat /\ Len(n.data) \in Nat /\ Len(n.data) <= DataSize
    <3> SUFFICES ASSUME NEW n \in net
                 PROVE  n.seq \in Nat /\ Len(n.data) \in Nat /\ Len(n.data) <= DataSize
      OBVIOUS
    <3>1. n.seq \in Nat /\ n.data \in Seq(Bytes) /\ Len(n.data) <= DataSize
      BY DEF Inv, NetInv
    <3> QED
      BY <3>1, LenProperties
  <2>4. ASSUME NEW n \in net, n.seq < m.seq PROVE Full(n)
    <3> SUFFICES ASSUME Len(n.data) < DataSize PROVE FALSE
      BY <2>3 DEF Full
    <3> DEFINE q == n.seq + Len(n.data)
    <3>1. n.seq + DataSize <= m.seq
      <4>1. n.seq + DataSize <= m.seq \/ m.seq + DataSize <= n.seq
        BY <2>4 DEF Inv, NetInv
      <4> QED
        BY <2>3, <2>4, <4>1
    <3>2. q \in 0 .. (rcv.lastSeq - 1)
      <4>1. rcv.lastSeq \in Nat
        BY DEF Inv, RcvInv, Windows
      <4>2. n.seq \in Nat /\ Len(n.data) \in Nat /\ m.seq \in Nat
        BY <2>3
      <4>3. q \in Nat /\ q < n.seq + DataSize
        BY <4>2
      <4>4. p \in Int /\ m.seq <= p /\ p < rcv.lastSeq
        BY <2>2, <4>1
      <4>5. q <= rcv.lastSeq - 1
        <5> HIDE DEF q
        <5> QED
          BY <3>1, <4>1, <4>2, <4>3, <4>4
      <4> QED
        BY <4>1, <4>3, <4>5
    <3>3. PICK k \in net : k.seq <= q /\ q < k.seq + Len(k.data)
      BY <2>1, <3>2 DEF Held
    <3>4. k # n
      BY <2>3, <3>3
    <3>5. k.seq + DataSize <= n.seq \/ n.seq + DataSize <= k.seq
      BY <3>4 DEF Inv, NetInv
    <3> QED
      BY <2>3, <3>3, <3>5
  <2>5. Intact(m)
    BY <2>4 DEF Inv, StreamInv, Undisturbed
  <2>6. p - m.seq + 1 \in 1 .. Len(m.data) /\ m.seq + (p - m.seq + 1) - 1 = p
    BY <2>2, <2>3
  <2> QED
    BY <2>2, <2>5, <2>6 DEF Intact
<1> QED
  BY <1>1, InvCorrect, PTL

\* The fields of channels and windows keep their types, and nothing in the
\* explored part lies behind End.
THEOREM TypeCorrect == Spec => []TypeOK
<1>1. Inv => TypeOK
  <2> SUFFICES ASSUME Inv PROVE TypeOK
    OBVIOUS
  <2> USE Sizes DEF Inv
  <2>1. /\ ch.NextSendSeq <= End /\ up.written + NodeSize <= End /\ app.newSeq <= End
        /\ End \in Nat
    BY EndBounds, EndFits
  <2>2. /\ up.head \in 1 .. up.safe /\ up.safe \in 1 .. Len(up.count)
        /\ up.headDataOffset \in 0 .. (NodeSize - 1)
        /\ up.lastSeq \in 0 .. End /\ up.written \in 0 .. End /\ up.raced \in BOOLEAN
    <3>1. up.lastSeq <= up.written /\ up.raced \in BOOLEAN
      BY DEF UpInv
    <3>2. /\ up.lastSeq \in Nat /\ up.written \in Nat
          /\ up.headDataOffset \in 0 .. (NodeSize - 1)
          /\ up.head \in 1 .. up.safe /\ up.safe \in 1 .. Len(up.count)
      BY UpFacts
    <3>3. up.lastSeq \in 0 .. End /\ up.written \in 0 .. End
      BY <2>1, <3>1, <3>2
    <3> QED
      BY <3>1, <3>2, <3>3
  <2>3. ch \in [NextSendSeq : 0 .. End, IsUpdated : BOOLEAN, lastAckedSeq : Seqs]
    BY <2>1 DEF ChInv
  <2>4. /\ app.pc \in {"idle", "copy", "advance", "next", "flag"}
        /\ Len(app.uploads) <= MaxUploads /\ app.newSeq \in 0 .. End
    BY <2>1 DEF UpInv
  <2>5. sender \in [pc : {"loop", "peek", "copy"}, pos : Pointer, pos2 : Pointer, torn : BOOLEAN]
    <3>1. ASSUME NEW pos \in {sender.pos, sender.pos2} PROVE pos \in Pointer
      <4>1. pos \in [place : Int, length : Nat]
        BY DEF SenderInv
      <4>2. pos.place \in Bytes
        <5>1. pos = Nowhere \/ pos.place \in 0 .. (up.written + NodeSize)
          BY DEF SenderInv
        <5>2. up.written \in Nat
          BY DEF UpInv
        <5> QED
          BY <2>1, <5>1, <5>2 DEF Bytes, Nowhere
      <4> QED
        BY <4>1, <4>2 DEF Pointer
    <3> QED
      BY <3>1 DEF SenderInv
  <2>6. net \subseteq Packets
    <3> SUFFICES ASSUME NEW m \in net PROVE m \in Packets
      OBVIOUS
    <3>1. /\ m \in [seq : Nat, data : Seq(Bytes)] /\ Len(m.data) <= DataSize
          /\ m.seq + DataSize <= ch.NextSendSeq
      BY DEF NetInv
    <3>2. m.data \in [1 .. Len(m.data) -> Bytes] /\ Len(m.data) \in 0 .. DataSize
      BY <3>1, LenProperties
    <3>3. m.seq \in 0 .. End
      BY <2>1, <3>1 DEF ChInv
    <3>4. m.data \in UNION {[1 .. n -> Bytes] : n \in 0 .. DataSize}
      BY <3>2
    <3> QED
      BY <3>1, <3>3, <3>4 DEF Packets
  <2>7. acks \subseteq Acks
    BY DEF RcvInv
  <2>8. /\ rcv.lastSeq \in 0 .. End /\ rcv.read \in 0 .. rcv.lastSeq /\ rcv.stray \in BOOLEAN
        /\ rcv.noRoom \in BOOLEAN /\ rcv.arrived \subseteq net
    <3>1. rcv.lastSeq \in Nat /\ rcv.read \in Nat /\ rcv.read <= rcv.lastSeq
          /\ rcv.lastSeq <= ch.NextSendSeq
      BY DEF RcvInv, Windows
    <3>2. rcv.stray \in BOOLEAN /\ rcv.noRoom \in BOOLEAN /\ rcv.arrived \subseteq net
      BY DEF RcvInv, Windows
    <3>3. ch.NextSendSeq \in Nat
      BY DEF ChInv
    <3> QED
      BY <2>1, <3>1, <3>2, <3>3
  <2>9. got \in [0 .. End -> Bytes]
    BY DEF RcvInv
  <2> QED
    BY <2>2, <2>3, <2>4, <2>5, <2>6, <2>7, <2>8, <2>9 DEF TypeOK
<1> QED
  BY <1>1, InvCorrect, PTL
=============================================================================
