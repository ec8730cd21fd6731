----------------------------- MODULE RdtStream -----------------------------
(***************************************************************************)
(* One rdt channel from end to end: CreateUpstream and Send of ALTUSPeer   *)
(* at the sending host, the network, channel::receive and processPacket at *)
(* the receiving host, and the acknowledgements on their way back.         *)
(*                                                                         *)
(* The application, the Sender thread and the Listener thread of the       *)
(* sending host share the window without a lock.  CreateUpstream is cut    *)
(* wherever altusWQPeek can see the difference: a node is linked, a        *)
(* validBlockCount is set, the flag is set.  An iteration of Send is one   *)
(* step per altusWQPeek and one for the copy and sendto; altusWQPop for an *)
(* acknowledgement is one.  The receiving window is given by what the      *)
(* module WindowedQueue shows of it.  A byte is the position it was        *)
(* uploaded at.  Nothing is ever sent twice: the code for losses is still  *)
(* to be written.                                                          *)
(***************************************************************************)
EXTENDS UBList

CONSTANTS
    NodeSize,    \* ALTUS_NODE_SIZE: 4096 in the code
    DataSize,    \* ALTUS_RDT_DATA_SIZE: 488 in the code
    WindowSize,  \* ALTUS_WINDOW_BLOCK_MAX_DEFAULT, in nodes
    LostSpace,   \* lostLen is a number modulo this: 2^16 in the code
    Leftovers,   \* what lastAckedSeq may be at first: nothing sets it
    OldCounts,   \* what validBlockCount may be in a node altusWQNewNode links
    MaxUploads,  \* bound: calls of CreateUpstream
    MaxUpload,   \* bound: length of one upload
    Lengths      \* the lengths that are tried

ASSUME StreamAssumption ==
    /\ NodeSize \in Nat \ {0} /\ DataSize \in 1 .. NodeSize
    /\ WindowSize \in Nat \ {0} /\ LostSpace \in Nat \ {0}
    /\ Leftovers \subseteq Seqs /\ OldCounts \subseteq Nat /\ OldCounts # {}
    /\ MaxUploads \in Nat /\ MaxUpload \in Nat /\ Lengths \subseteq 1 .. MaxUpload
    \* the numbers do not wrap round in the part that is explored
    /\ 2 * (MaxUploads * (MaxUpload + DataSize) + NodeSize + DataSize) < SeqSpace

VARIABLES
    up,      \* the sending window
    ch,      \* the sending channel
    app,     \* the application of the sending host, inside CreateUpstream or not
    sender,  \* the Sender thread: what altusWQPeek told it
    net,     \* data packets sent so far: they may arrive late, again or never
    acks,    \* acknowledgements sent so far, likewise
    rcv,     \* the receiving window
    got      \* the byte the receiving window holds for a sequence number

vars == << up, ch, app, sender, net, acks, rcv, got >>

-----------------------------------------------------------------------------
Junk == -1
\* no packet goes beyond: every upload may send one that is empty
End == MaxUploads * (MaxUpload + DataSize) + NodeSize + DataSize
Bytes == (0 .. End) \cup {Junk}

\* where altusWQPeek points: a place in memory, named by the position that is
\* stored there, and the number of bytes it claims to find
Nowhere == [place |-> Junk, length |-> 0]
Pointer == [place : Bytes, length : Nat]

Packets == [seq : 0 .. End, data : UNION {[1 .. n -> Bytes] : n \in 0 .. DataSize}]
Acks == [seq : 0 .. End, lost : 0 .. (LostSpace - 1)]

NodeStart(p) == NodeSize * (p \div NodeSize)
Negative(n) == n >= SeqSpace \div 2    \* (int)n < 0

\* up.count: validBlockCount of every node that was ever linked; "head", "safe"
\* and Len(up.count) are the numbers of head, safe_tail and unsafe_tail.
\* up.written: how far memcpy has copied; up.raced: see ReceiveAckRaces.
Init ==
    /\ up = [head |-> 1, safe |-> 1, headDataOffset |-> 0, lastSeq |-> 0,
             written |-> 0, count |-> << 0 >>, raced |-> FALSE]
    /\ \E leftover \in Leftovers :
          ch = [NextSendSeq |-> 0, IsUpdated |-> FALSE, lastAckedSeq |-> leftover]
    /\ app = [pc |-> "idle", uploads |-> << >>, newSeq |-> 0]
    /\ sender = [pc |-> "loop", pos |-> Nowhere, pos2 |-> Nowhere, torn |-> FALSE]
    /\ net = {}
    /\ acks = {}
    /\ rcv = [lastSeq |-> 0, ub_list |-> << >>, read |-> 0, stray |-> FALSE,
              arrived |-> {}, noRoom |-> FALSE]
    /\ got = [p \in 0 .. End |-> Junk]

-----------------------------------------------------------------------------
(* The application: CreateUpstream.                                        *)

\* altusWQPut at lastSeq: refused (-3) when the window is full
UploadPut(length) ==
    /\ app.pc = "idle" /\ ~up.raced
    /\ Len(app.uploads) < MaxUploads
    /\ LET fits == (up.safe - up.head + 1) + (length \div NodeSize) + 1 <= WindowSize
           n == IF fits THEN length ELSE 0
       IN  app' = [pc |-> IF fits THEN "copy" ELSE "flag",
                   uploads |-> Append(app.uploads, n), newSeq |-> up.lastSeq + n]
    /\ UNCHANGED << up, ch, sender, net, acks, rcv, got >>

\* One turn of the copy loop: memcpy into a node, and at its end altusWQNewNode,
\* which does not set validBlockCount.
UploadCopy ==
    /\ app.pc = "copy" /\ ~up.raced
    /\ LET to == Min({app.newSeq, NodeStart(up.written) + NodeSize})
       IN  /\ \E old \in OldCounts :
                 up' = [up EXCEPT !.written = to,
                                  !.count = IF to % NodeSize = 0 THEN Append(@, old) ELSE @]
           /\ app' = [app EXCEPT !.pc = IF to = app.newSeq THEN "advance" ELSE "copy"]
    /\ UNCHANGED << ch, sender, net, acks, rcv, got >>

\* One turn of the loop that moves safe_tail: validBlockCount and lastSeq ...
UploadAdvance ==
    /\ app.pc = "advance" /\ ~up.raced
    /\ LET SafeNodeSeq == up.lastSeq - up.count[up.safe]
           full == app.newSeq - SafeNodeSeq >= NodeSize
           seqDiff == IF full THEN NodeSize ELSE app.newSeq - SafeNodeSeq
       IN  /\ up' = [up EXCEPT !.count[up.safe] = seqDiff, !.lastSeq = SafeNodeSeq + seqDiff]
           /\ app' = [app EXCEPT !.pc = IF full THEN "next" ELSE "flag"]
    /\ UNCHANGED << ch, sender, net, acks, rcv, got >>

\* Mutant: validBlockCount of the new safe_tail stays as it was.
NextCount_Old(old) == old

\* validBlockCount of the node that becomes safe_tail
NextCount(old) == 0

\* ... and, after a full node, safe_tail and the validBlockCount of the next.
UploadNext ==
    /\ app.pc = "next" /\ ~up.raced
    /\ up.safe < Len(up.count)    \* there is one: else the program would end here
    /\ up' = [up EXCEPT !.safe = @ + 1, !.count[up.safe + 1] = NextCount(@)]
    /\ app' = [app EXCEPT !.pc = IF up.lastSeq = app.newSeq THEN "flag" ELSE "advance"]
    /\ UNCHANGED << ch, sender, net, acks, rcv, got >>

\* _IsUpdated = true, whatever altusWQPut returned
UploadFlag ==
    /\ app.pc = "flag" /\ ~up.raced
    /\ ch' = [ch EXCEPT !.IsUpdated = TRUE]
    /\ app' = [app EXCEPT !.pc = "idle"]
    /\ UNCHANGED << up, sender, net, acks, rcv, got >>

Upload == UploadCopy \/ UploadAdvance \/ UploadNext \/ UploadFlag

-----------------------------------------------------------------------------
(* The Sender thread: one iteration of the loop of Send.                   *)

\* where the head node begins
First == (up.head - 1) * NodeSize

\* altusWQPeek: the nodes are counted from headSeq, which stays 0 while
\* altusWQPop takes nodes away; "validBlockCount - deltaSeq" is unsigned.
PeekNode(seq) == up.head + (seq \div NodeSize)
Peek(seq) ==
    LET left == Minus(up.count[PeekNode(seq)], seq % NodeSize)
    IN  IF PeekNode(seq) > Len(up.count) \/ left = 0 THEN Nowhere
        ELSE [place |-> First + seq, length |-> left]

\* altusWQPeek reads a validBlockCount that altusWQPut has not set yet.
ReadsOld(seq) == PeekNode(seq) > up.safe /\ PeekNode(seq) <= Len(up.count)

SendPeek ==
    /\ sender.pc = "loop" /\ ~up.raced
    /\ ch.IsUpdated
    /\ LET pos == Peek(ch.NextSendSeq)
       IN  sender' = [pc |-> IF pos.length >= DataSize THEN "copy" ELSE "peek",
                      pos |-> pos, pos2 |-> Nowhere,
                      torn |-> sender.torn \/ ReadsOld(ch.NextSendSeq)]
    /\ UNCHANGED << up, ch, app, net, acks, rcv, got >>

\* the second altusWQPeek, for what the first one lacks
SendPeekMore ==
    /\ sender.pc = "peek" /\ ~up.raced
    /\ LET seq == ch.NextSendSeq + sender.pos.length
       IN  sender' = [pc |-> "copy", pos |-> sender.pos, pos2 |-> Peek(seq),
                      torn |-> sender.torn \/ ReadsOld(seq)]
    /\ UNCHANGED << up, ch, app, net, acks, rcv, got >>

\* What memcpy finds n bytes behind p: a node that went to the pool since may
\* have been written again, and behind a node lies foreign memory.
Found(p, n, reused) ==
    IF /\ (p + n) \div NodeSize = p \div NodeSize
       /\ p + n < up.written
       /\ p + n >= First \/ ~reused
    THEN p + n ELSE Junk

Copied(pos, length, reused) == [j \in 1 .. length |-> Found(pos.place, j - 1, reused)]

\* Mutant: the part from the second node is copied from the first one.
PacketData_FirstTwice(pos, pos2, reused) ==
    IF pos.length >= DataSize THEN Copied(pos, DataSize, reused)
    ELSE Copied(pos, pos.length, reused)
         \o Copied(pos, Min({pos2.length, DataSize - pos.length}), reused)

PacketData(pos, pos2, reused) ==
    IF pos.length >= DataSize THEN Copied(pos, DataSize, reused)
    ELSE Copied(pos, pos.length, reused)
         \o Copied(pos2, Min({pos2.length, DataSize - pos.length}), reused)

\* Mutant: the flag is cleared by every packet.
StaysUpdated_Never(pos, pos2) == FALSE

\* _IsUpdated is cleared when nothing follows the packet, or nothing seems to.
StaysUpdated(pos, pos2) == ch.IsUpdated /\ (pos.length >= DataSize \/ pos2 # Nowhere)

\* Mutant: the next number is one too small.
NextSeq_OneShort(seq) == seq + DataSize - 1

\* NextSendSeq advances by a full packet, however short this one is.
NextSeq(seq) == seq + DataSize

SendPacket ==
    /\ sender.pc = "copy" /\ ~up.raced
    /\ \E reused \in BOOLEAN :
          net' = net \cup {[seq |-> ch.NextSendSeq,
                            data |-> PacketData(sender.pos, sender.pos2, reused)]}
    /\ ch' = [ch EXCEPT !.IsUpdated = StaysUpdated(sender.pos, sender.pos2),
                        !.NextSendSeq = NextSeq(@)]
    /\ sender' = [pc |-> "loop", pos |-> Nowhere, pos2 |-> Nowhere, torn |-> sender.torn]
    /\ UNCHANGED << up, app, acks, rcv, got >>

-----------------------------------------------------------------------------
(* The receiving host: the Listener, and the application that reads.       *)

\* safe_len of a window whose head node begins at "first"
SafeLen(first, last) == ((last - first) \div NodeSize) + 1

\* altusWQPut returns -3 or -4 ...
NoRoom(m) ==
    LET required == (Minus(m.seq + Len(m.data), rcv.lastSeq) \div NodeSize) + 1
    IN  \/ SafeLen(NodeStart(rcv.read), rcv.lastSeq) + required > WindowSize
        \/ altusUBCheck(rcv.ub_list, m.seq, Len(m.data)).code = "FULL"

\* ... or -2 or -5
Refused(m) ==
    \/ After(rcv.lastSeq, m.seq)
    \/ NoRoom(m)
    \/ altusUBCheck(rcv.ub_list, m.seq, Len(m.data)).code = "MALICIOUS_INPUT"

\* the block begins more than a node behind the node of lastSeq
Strays(m) == m.data # << >> /\ m.seq - NodeStart(rcv.lastSeq) > NodeSize

\* processPacket answers every packet: "flags | ALTUS_FLAG_ACK" is never 0, and
\* lostLen is not limited to ALTUS_RETRY_SIZE but cut to 16 bits.
Ack(last, list) ==
    [seq |-> last,
     lost |-> IF list = << >> THEN 0 ELSE (list[1].head - last) % LostSpace]

ReceiveRefused(m) ==
    /\ m \in net
    /\ ~rcv.stray
    /\ Refused(m)
    /\ rcv' = [rcv EXCEPT !.arrived = @ \cup {m},
                          !.noRoom = @ \/ (m \notin rcv.arrived /\ NoRoom(m))]
    /\ acks' = acks \cup {Ack(rcv.lastSeq, rcv.ub_list)}
    /\ UNCHANGED << up, ch, app, sender, net, got >>

ReceivePut(m) ==
    /\ m \in net
    /\ ~rcv.stray
    /\ ~Refused(m)
    /\ ~Strays(m)
    /\ LET list == altusUBCheck(rcv.ub_list, m.seq, Len(m.data)).list
           inSeq == list[1].head = rcv.lastSeq
           last == IF inSeq THEN list[1].tail ELSE rcv.lastSeq
           rest == IF inSeq THEN altusUBPop(list) ELSE list
       IN  /\ rcv' = [rcv EXCEPT !.lastSeq = last, !.ub_list = rest, !.arrived = @ \cup {m}]
           /\ acks' = acks \cup {Ack(last, rest)}
    /\ got' = [p \in 0 .. End |->
                  IF p - m.seq + 1 \in DOMAIN m.data THEN m.data[p - m.seq + 1] ELSE got[p]]
    /\ UNCHANGED << up, ch, app, sender, net >>

\* A memcpy outside the node: what the receiving host does then is undefined.
ReceiveStray(m) ==
    /\ m \in net
    /\ ~rcv.stray
    /\ ~Refused(m)
    /\ Strays(m)
    /\ rcv' = [rcv EXCEPT !.stray = TRUE, !.arrived = @ \cup {m}]
    /\ UNCHANGED << up, ch, app, sender, net, acks, got >>

Receive(m) == ReceiveRefused(m) \/ ReceivePut(m) \/ ReceiveStray(m)

\* altusWQPop by the receiving application, everything there is
Read ==
    /\ rcv.read < rcv.lastSeq
    /\ rcv' = [rcv EXCEPT !.read = rcv.lastSeq]
    /\ UNCHANGED << up, ch, app, sender, net, acks, got >>

-----------------------------------------------------------------------------
(* The sending host's Listener: an acknowledgement.                        *)

\* altusWQPop, asked for delta bytes, empties k nodes: it goes on to the next
\* node when it has read a whole one.
Empties(k, delta) ==
    LET whole(j) == /\ j * NodeSize <= up.headDataOffset + delta
                    /\ \A i \in up.head .. (up.head + j - 1) : up.count[i] = NodeSize
    IN  whole(k) /\ (up.head + k < Len(up.count) => ~whole(k + 1))

\* Bytes are popped from lastAckedSeq, which is never set, to the number
\* acknowledged: the same bytes again with every acknowledgement.
AckDelta(a) == Minus(a.seq, ch.lastAckedSeq)
Pops(a) ==
    /\ a \in acks /\ ~up.raced
    /\ ~Negative(AckDelta(a)) /\ ~Negative(Minus(ch.NextSendSeq, a.seq))
    /\ a.lost = 0

Putting == app.pc \in {"copy", "advance", "next"}

ReceiveAck(a) ==
    /\ Pops(a)
    /\ \E k \in 0 .. (Len(up.count) - up.head) :
          /\ Empties(k, AckDelta(a))
          /\ ~(Putting /\ k > 0)
          /\ LET rest == up.headDataOffset + AckDelta(a) - k * NodeSize
             IN  up' = [up EXCEPT !.head = @ + k,
                                  !.headDataOffset = Min({rest, up.count[up.head + k]})]
    /\ UNCHANGED << ch, app, sender, net, acks, rcv, got >>

\* altusWQPop gives a node away while altusWQPut runs: both change the pool, the
\* ends of the window and its counters.  What the host does then is undefined.
ReceiveAckRaces(a) ==
    /\ Pops(a)
    /\ Putting /\ \E k \in 1 .. (Len(up.count) - up.head) : Empties(k, AckDelta(a))
    /\ up' = [up EXCEPT !.raced = TRUE]
    /\ UNCHANGED << ch, app, sender, net, acks, rcv, got >>

-----------------------------------------------------------------------------
\* (an acknowledgement that is delayed or reports a loss changes nothing)
Next ==
    \/ \E length \in Lengths : UploadPut(length)
    \/ Upload
    \/ SendPeek \/ SendPeekMore \/ SendPacket
    \/ \E m \in net : Receive(m)
    \/ \E a \in acks : ReceiveAck(a) \/ ReceiveAckRaces(a)
    \/ Read

Spec == Init /\ [][Next]_vars

\* The application's call returns, the Sender thread goes on while the flag is
\* set, and every packet arrives once: the network loses nothing, but neither
\* it nor the code repeats a packet that was refused.
Fairness ==
    /\ WF_vars(Upload)
    /\ WF_vars(SendPeek \/ SendPeekMore \/ SendPacket)
    /\ WF_vars(\E m \in net \ rcv.arrived : Receive(m))

FairSpec == Spec /\ Fairness

-----------------------------------------------------------------------------
(* Properties.                                                             *)

\* The fields of the channels and windows have the types of channel.h and
\* windowedqueue.h.
TypeOK ==
    /\ up.head \in 1 .. up.safe /\ up.safe \in 1 .. Len(up.count)
    /\ up.headDataOffset \in 0 .. (NodeSize - 1)
    /\ up.lastSeq \in 0 .. End /\ up.written \in 0 .. End /\ up.raced \in BOOLEAN
    /\ ch \in [NextSendSeq : 0 .. End, IsUpdated : BOOLEAN, lastAckedSeq : Seqs]
    /\ app.pc \in {"idle", "copy", "advance", "next", "flag"}
    /\ Len(app.uploads) <= MaxUploads /\ app.newSeq \in 0 .. End
    /\ sender \in [pc : {"loop", "peek", "copy"}, pos : Pointer, pos2 : Pointer, torn : BOOLEAN]
    /\ net \subseteq Packets
    /\ acks \subseteq Acks
    /\ rcv.lastSeq \in 0 .. End /\ rcv.read \in 0 .. rcv.lastSeq
    /\ rcv.stray \in BOOLEAN /\ rcv.noRoom \in BOOLEAN /\ rcv.arrived \subseteq net
    /\ got \in [0 .. End -> Bytes]

\* None of the defects that end the promise has happened: no node of the
\* sending window went to the pool (headSeq in altusWQPeek), neither Sender nor
\* Listener met a put half done in a node that is not set up, and no block
\* strayed (the finding NoStrayWrite of WindowedQueue).
Undisturbed == up.head = 1 /\ ~up.raced /\ ~sender.torn /\ ~rcv.stray

\* What the receiver takes for the stream is the stream, however packets are
\* delayed, repeated or lost, and although Sender looks at the window while
\* altusWQPut changes it: the packets that Send fills with foreign memory,
\* because NextSendSeq is ahead of lastSeq, lie behind a gap that no packet
\* ever fills, and are never delivered.
DeliveredIntact ==
    Undisturbed => \A p \in 0 .. (rcv.lastSeq - 1) : got[p] = p

\* The sending window survives every value that lastAckedSeq happens to have
\* and every acknowledgement, late, repeated or in the middle of a put: the
\* loop of altusWQPop stops at what memcpy has copied, because it never gets to
\* see a validBlockCount that is left over from a node's former life.
PoppedBehindWritten == First + up.headDataOffset <= up.written

\* An acknowledgement is never taken for one of the future: the receiver's
\* lastSeq does not pass NextSendSeq.
NeverAheadOfSender == rcv.lastSeq <= ch.NextSendSeq

\* The first upload arrives whole when no packet is lost, in whatever order
\* packets and acknowledgements come and whatever is uploaded next, unless the
\* receiver had no room (-3, -4) for a packet when it came.
FirstUploadArrives ==
    app.uploads # << >>
        ~> \/ app.uploads # << >> /\ rcv.lastSeq >= Head(app.uploads)
           \/ rcv.noRoom \/ ~Undisturbed

-----------------------------------------------------------------------------
(* What documents say and the code does not do.                            *)

\* packetHeader.txt, rdt_stream: sequence numbers start at 0 and the length is
\* that of the packet: the packets cover the stream, and what is uploaded
\* arrives when no packet is lost.
UploadArrives ==
    \A p \in 1 .. (MaxUploads * MaxUpload) : up.lastSeq >= p ~> rcv.lastSeq >= p
=============================================================================
