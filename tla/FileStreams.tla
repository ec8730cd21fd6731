---------------------------- MODULE FileStreams ----------------------------
(***************************************************************************)
(* The file streams of a host at the receiving end (FileRcvStream) and the *)
(* pool of nodes they share (NodePool).  The Listener makes streams and    *)
(* appends packets to them, the application finalizes and destroys them;   *)
(* both use the pool.                                                      *)
(*                                                                         *)
(* NewNode() never moves "tail", so tail = head and head never moves: the  *)
(* branch of FlushNode that advances it is not reached.  The pool is a     *)
(* list over the same pointers to_tail as the streams, and is modelled     *)
(* with them.  The sender cuts the file into packets of PacketSize bytes   *)
(* and a shorter last one; the network may reorder, repeat and lose them.  *)
(* A byte is its position in the file.                                     *)
(***************************************************************************)
EXTENDS UBList, FiniteSets

CONSTANTS
    Streams,      \* identities of streams (one per peer)
    Nodes,        \* heap nodes, a finite set of numbers: bound on new
    NodeSize,     \* ALTUS_NODE_SIZE: 4096 in the code
    MaxNodes,     \* ALTUS_DEFAULT_MAX_NODE_COUNT: 16384 in the code
    PacketSize,   \* ALTUS_RDT_DATA_SIZE: 488 in the code
    FileSize,     \* bound: length of the file every stream receives
    MaxArrivals,  \* bound: packets taken by all streams
    MaxLives,     \* bound: streams made
    MaxFinals,    \* bound: calls of Finalize that wrote, for each stream
    MaxPool       \* bound: size of the pool

Null == 0

ASSUME FileAssumption ==
    /\ Nodes \subseteq Nat \ {Null} /\ IsFiniteSet(Nodes) /\ Null \notin Streams
    /\ NodeSize \in Nat \ {0} /\ MaxNodes \in Nat \ {0}
    /\ PacketSize \in 1 .. NodeSize /\ FileSize \in Nat
    /\ MaxArrivals \in Nat /\ MaxLives \in Nat /\ MaxPool \in Nat
    /\ MaxFinals \in Nat
    /\ 2 * (FileSize + MaxNodes * NodeSize) <= SeqSpace

VARIABLES
    to_tail,   \* the link of every node
    mem,       \* the data of every node
    heap,      \* nodes obtained from new
    pool,      \* NodePool: recycled_head, recycled_tail and size
    st,        \* the live streams: a function from some streams to records
    listener,  \* the Listener thread, inside NodePool::pop or not
    killer,    \* the application inside ~FileRcvStream, or NoKill
    lives,     \* number of streams made
    taken,     \* number of packets taken
    crowded    \* history: a node was pushed while the pool held another one

vars == << to_tail, mem, heap, pool, st, listener, killer, lives, taken, crowded >>

-----------------------------------------------------------------------------
Offsets == 0 .. (NodeSize - 1)
Junk == -1
Garbage == [o \in Offsets |-> Junk]

\* packet k of the file
PacketIds == {k \in 0 .. FileSize : k * PacketSize < FileSize}
Start(k) == k * PacketSize
Length(k) == Min({PacketSize, FileSize - Start(k)})

Idle == [pc |-> "idle", stream |-> Null, saw |-> FALSE]
Ended == [pc |-> "ended", stream |-> Null, saw |-> FALSE]
NoKill == [stream |-> Null, node |-> Null]

Init ==
    /\ to_tail = [n \in Nodes |-> Null]
    /\ mem = [n \in Nodes |-> Garbage]
    /\ heap = {}
    /\ pool = [head |-> Null, tail |-> Null, size |-> 0]
    /\ st = << >>
    /\ listener = Idle
    /\ killer = NoKill
    /\ lives = 0
    /\ taken = 0
    /\ crowded = FALSE

-----------------------------------------------------------------------------
(* NodePool.                                                               *)

\* pop() or new Node: the node, and what remains.  The link of a popped node
\* keeps pointing into the pool.
Fresh == Min(Nodes \ heap)
Obtained == IF pool.head # Null THEN pool.head ELSE Fresh
HasNode == pool.head # Null \/ Nodes \ heap # {}

\* Mutant: the node taken stays in the pool.
PoolAfterPop_Keeps == [pool EXCEPT !.size = @ - 1]

PoolAfterPop == [pool EXCEPT !.head = to_tail[@], !.size = @ - 1]

\* a step that obtains one node
Obtain ==
    /\ HasNode
    /\ IF pool.head # Null
       THEN pool' = PoolAfterPop /\ heap' = heap
       ELSE pool' = pool /\ heap' = heap \cup {Fresh}

\* push: recycled_tail is only set when the pool was empty, so that the third
\* node of a list cuts off the second.
Push(n) ==
    /\ pool.size < MaxPool
    /\ pool' = [head |-> IF pool.head = Null THEN n ELSE pool.head,
                tail |-> IF pool.head = Null THEN n ELSE pool.tail,
                size |-> pool.size + 1]
    /\ to_tail' = IF pool.head = Null THEN [to_tail EXCEPT ![n] = Null]
                  ELSE [to_tail EXCEPT ![n] = Null, ![pool.tail] = n]
    /\ crowded' = (crowded \/ pool.head # Null)

-----------------------------------------------------------------------------
(* The life of a stream.                                                   *)

NewStream(head) ==
    [head |-> head, headSeq |-> 0, headByteCount |-> 0, lastSeq |-> 0,
     ub_list |-> << >>, file |-> << >>, final |-> "no", finals |-> 0,
     arrived |-> << >>, plain |-> TRUE]

\* Mutant: recycled_head is not tested.
PopTest_None == TRUE

\* the test at the beginning of pop, before the mutex is taken
PopTest == pool.head # Null

\* The Listener makes a peer: the constructor calls pop, which tests ...
MakeTest(s) ==
    /\ listener = Idle
    /\ s \notin DOMAIN st
    /\ lives < MaxLives
    /\ lives' = lives + 1
    /\ listener' = [pc |-> "take", stream |-> s, saw |-> PopTest]
    /\ UNCHANGED << to_tail, mem, heap, pool, st, killer, taken, crowded >>

\* ... and takes the first node, or the constructor allocates one.
MakeTake ==
    /\ listener.pc = "take"
    /\ listener.saw => pool.head # Null    \* always: PopFindsNode
    /\ LET n == IF listener.saw THEN pool.head ELSE Fresh
       IN  /\ IF listener.saw THEN pool' = PoolAfterPop /\ heap' = heap
              ELSE Nodes \ heap # {} /\ pool' = pool /\ heap' = heap \cup {n}
           /\ st' = [x \in DOMAIN st \cup {listener.stream} |->
                        IF x = listener.stream THEN NewStream(n) ELSE st[x]]
    /\ listener' = Idle
    /\ UNCHANGED << to_tail, mem, killer, lives, taken, crowded >>

\* ~FileRcvStream, called through removePeer by the application
DestroyBegin(s) ==
    /\ killer = NoKill
    /\ s \in DOMAIN st
    /\ killer' = [stream |-> s, node |-> st[s].head]
    /\ UNCHANGED << to_tail, mem, heap, pool, st, listener, lives, taken, crowded >>

\* the next node along to_tail goes to the pool
DestroyStep ==
    /\ killer # NoKill
    /\ Push(killer.node)
    /\ LET next == to_tail[killer.node]
       IN  IF next = Null
           THEN /\ st' = [x \in DOMAIN st \ {killer.stream} |-> st[x]]
                /\ killer' = NoKill
           ELSE /\ st' = st
                /\ killer' = [killer EXCEPT !.node = next]
    /\ UNCHANGED << mem, heap, listener, lives, taken >>

\* what a call of Finalize writes: headByteCount bytes of the head node
HeadBytes(S) == [i \in 1 .. S.headByteCount |-> mem[S.head][i - 1]]

\* Mutant: Finalize writes the whole node, as FlushNode does.
Written_Node(S) ==
    [S EXCEPT !.final = "done", !.finals = @ + 1,
              !.file = @ \o [i \in 1 .. NodeSize |-> mem[S.head][i - 1]]]

\* A call that writes.  It leaves headByteCount alone and nothing marks the
\* stream as finalized, so that the next call writes the same bytes again.
Written(S) ==
    [S EXCEPT !.final = "done", !.finals = @ + 1, !.file = @ \o HeadBytes(S)]

\* Finalize, called by the application any number of times, also between two
\* packets: throws when there is a second node.  ("final" is how the last call
\* ended, "finals" how many of them wrote.)
Finalize(s) ==
    /\ s \in DOMAIN st
    /\ st[s].finals < MaxFinals
    /\ killer.stream # s
    /\ st' = [st EXCEPT ![s] =
                IF to_tail[@.head] # Null THEN [@ EXCEPT !.final = "threw"] ELSE Written(@)]
    /\ UNCHANGED << to_tail, mem, heap, pool, listener, killer, lives, taken, crowded >>

-----------------------------------------------------------------------------
(* CheckUB: a message, and the list it leaves behind.                      *)

Message(m, list) == [msg |-> m, list |-> list]

\* the block would end more than MaxNodes nodes behind headSeq
TooFar(S, b) == Minus(b.tail, S.headSeq) >= MaxNodes * NodeSize

\* Mutant: what lies inside a block that is there is not recognised.
Inside_Taken(entry, b) == "ADDED"

\* the block begins inside an entry
Inside(entry, b) == IF After(b.tail, entry.tail) THEN "MALICIOUS" ELSE "OVERLAP"

\* The block begins where entry i ends.  The comparison with the next entry is
\* unsigned: any entry that does not begin exactly at the end passes.
Behind(S, i, b) ==
    LET l == S.ub_list
    IN  IF i < Len(l) /\ l[i+1].head = b.tail
        THEN Message("EXTENDED", RemoveAt(ReplaceAt(l, i, [l[i] EXCEPT !.tail = l[i+1].tail]), i + 1))
        ELSE IF TooFar(S, b) THEN Message("FULL", l)
        ELSE Message("EXTENDED", ReplaceAt(l, i, [l[i] EXCEPT !.tail = b.tail]))

CheckUB(S, b) ==
    LET l == S.ub_list
        stops == {i \in DOMAIN l : \/ After(l[i].head, b.head)
                                   \/ After(l[i].tail, b.head)
                                   \/ l[i].tail = b.head}
        i == Min(stops)
    IN  CASE b.head = S.lastSeq ->
                IF l = << >> \/ After(l[1].head, b.tail) THEN Message("ONSEQ", l)
                ELSE IF l[1].head = b.tail THEN Message("MERGING", l)
                ELSE Message("MALICIOUS", l)
          [] b.head # S.lastSeq /\ stops = {} ->
                IF Len(l) >= MaxUB \/ TooFar(S, b) THEN Message("FULL", l)
                ELSE Message("ADDED", Append(l, b))
          [] OTHER ->
                IF After(l[i].head, b.head)
                THEN IF After(l[i].head, b.tail)
                     THEN IF Len(l) < MaxUB THEN Message("ADDED", InsertAt(l, i, b))
                          ELSE Message("FULL", l)
                     ELSE IF l[i].head = b.tail
                     THEN Message("EXTENDED", ReplaceAt(l, i, [l[i] EXCEPT !.head = b.head]))
                     ELSE Message("MALICIOUS", l)
                ELSE IF After(l[i].tail, b.head) THEN Message(Inside(l[i], b), l)
                ELSE Behind(S, i, b)

-----------------------------------------------------------------------------
(* Append.                                                                 *)

\* the block of packet k, and CheckUB's message for it
BlockOf(k) == [head |-> Start(k), tail |-> Plus(Start(k), Length(k))]
Check(s, k) == CheckUB(st[s], BlockOf(k))

\* The Listener takes packet k for stream s and Append gets past its first test.
Appending(s, k) ==
    /\ listener = Idle
    /\ s \in DOMAIN st
    /\ killer.stream # s
    /\ taken < MaxArrivals
    /\ taken' = taken + 1
    /\ ~After(st[s].lastSeq, Start(k))

\* node j of the list that begins at n, or Null
Hop(n, j, links) ==
    LET hop[i \in 0 .. j] ==
            IF i = 0 THEN n ELSE IF hop[i-1] = Null THEN Null ELSE links[hop[i-1]]
    IN  hop[j]

\* contents after packet k was copied to "off" bytes behind the beginning of
\* node number 0 of the list from "head"
Copied(head, links, off, k) ==
    [n \in Nodes |-> [o \in Offsets |->
        LET hit == {d \in 0 .. (Length(k) - 1) :
                       Hop(head, (off + d) \div NodeSize, links) = n /\ (off + d) % NodeSize = o}
        IN  IF hit = {} THEN mem[n][o] ELSE Start(k) + Max(hit)]]

NodeBytes(contents, n) == [i \in 1 .. NodeSize |-> contents[n][i - 1]]

\* The Listener dies: an exception nobody catches, or a null pointer.
Dies ==
    /\ listener' = Ended
    /\ UNCHANGED << to_tail, mem, heap, pool, st, killer, lives, crowded >>

\* the block waits in ub_list
Parked(S, k, list) == [S EXCEPT !.ub_list = list, !.arrived = Append(@, k)]

\* ADDED, EXTENDED: PutUnSeq walks to the node the block belongs to.  NewNode()
\* hangs the new node behind the head, so that the walk finds a second node
\* and never a third.  A block before headSeq (off < 0; lastSeq stayed behind
\* when a packet crossed the end of the node) is copied to memory before the
\* node's data: what the program does from there is undefined, and the model
\* follows it no further.
AppendUnSeq(s, k) ==
    /\ Appending(s, k)
    /\ Check(s, k).msg \in {"ADDED", "EXTENDED"}
    /\ LET S == st[s]
           off == Start(k) - S.headSeq
           last == (off + Length(k) - 1) \div NodeSize
           new == last >= 1 /\ to_tail[S.head] = Null
           links == IF new THEN [to_tail EXCEPT ![S.head] = Obtained] ELSE to_tail
       IN  /\ new => HasNode
           /\ IF off < 0 \/ Hop(S.head, last, links) = Null THEN Dies
              ELSE
                /\ IF new THEN Obtain ELSE UNCHANGED << pool, heap >>
                /\ to_tail' = links
                /\ mem' = Copied(S.head, links, off, k)
                /\ st' = [st EXCEPT ![s] = Parked(@, k, Check(s, k).list)]
                /\ UNCHANGED << listener, killer, lives, crowded >>

\* ONSEQ, and the head node has room
Followed(S, k) ==
    [S EXCEPT !.lastSeq = @ + Length(k), !.headByteCount = @ + Length(k),
              !.arrived = Append(@, k)]

AppendFits(s, k) ==
    /\ Appending(s, k)
    /\ Check(s, k).msg = "ONSEQ"
    /\ st[s].headByteCount + Length(k) <= NodeSize
    /\ mem' = Copied(st[s].head, to_tail, st[s].headByteCount, k)
    /\ st' = [st EXCEPT ![s] = Followed(@, k)]
    /\ UNCHANGED << to_tail, heap, pool, listener, killer, lives, crowded >>

\* FlushNode: the head node is written out and used again.
Flushed(S, contents) ==
    [S EXCEPT !.file = @ \o NodeBytes(contents, S.head), !.headSeq = @ + NodeSize,
              !.headByteCount = 0]

Crossed(S, k, contents) ==
    [Flushed(S, contents) EXCEPT !.arrived = Append(@, k), !.plain = FALSE]

\* ONSEQ across the end of the head node: the rest goes to a new node behind
\* the head, whatever was there, and is not looked at again; lastSeq stays.
AppendCrosses(s, k) ==
    /\ Appending(s, k)
    /\ Check(s, k).msg = "ONSEQ"
    /\ st[s].headByteCount + Length(k) > NodeSize
    /\ Obtain
    /\ to_tail' = [to_tail EXCEPT ![st[s].head] = Obtained]
    /\ mem' = Copied(st[s].head, to_tail', st[s].headByteCount, k)
    /\ st' = [st EXCEPT ![s] = Crossed(@, k, mem')]
    /\ UNCHANGED << listener, killer, lives, crowded >>

\* MERGING: ub_list stays as it is.  When the merged part is shorter than a
\* node the loop writes the head node until an int overflows, half a million
\* times: the first time is shown and the Listener does not come back.
AppendMerges(s, k) ==
    /\ Appending(s, k)
    /\ Check(s, k).msg = "MERGING"
    /\ LET S == st[s]
           merged == Length(k) + Minus(S.ub_list[1].tail, S.ub_list[1].head)
           next == [S EXCEPT !.headByteCount = (@ + merged) % NodeSize, !.lastSeq = @ + merged,
                             !.arrived = Append(@, k), !.plain = FALSE]
       IN  IF S.headByteCount + Length(k) > NodeSize /\ to_tail[S.head] = Null THEN Dies
           ELSE /\ mem' = Copied(S.head, to_tail, S.headByteCount, k)
                /\ st' = [st EXCEPT ![s] = IF merged < NodeSize THEN Flushed(next, mem') ELSE next]
                /\ listener' = IF merged < NodeSize THEN Ended ELSE listener
                /\ UNCHANGED << to_tail, heap, pool, killer, lives, crowded >>

\* MALICIOUS: an exception on the Listener thread that nobody catches
AppendThrows(s, k) ==
    /\ Appending(s, k)
    /\ Check(s, k).msg = "MALICIOUS"
    /\ Dies

\* (a block before lastSeq, OVERLAP and FULL change nothing)
FileAppend(s, k) ==
    \/ AppendUnSeq(s, k) \/ AppendFits(s, k) \/ AppendCrosses(s, k)
    \/ AppendMerges(s, k) \/ AppendThrows(s, k)

Next ==
    \/ \E s \in Streams :
        \/ MakeTest(s) \/ DestroyBegin(s) \/ Finalize(s)
        \/ \E k \in PacketIds : FileAppend(s, k)
    \/ MakeTake \/ DestroyStep

Spec == Init /\ [][Next]_vars

-----------------------------------------------------------------------------
(* Properties.                                                             *)

\* Pointers, counters and lists have the types of NodeBase.h and
\* fileReceiveStream.h; "all node pointer must *not* be NULL".  (A pool
\* that was crowded may count below zero: a node pushed twice is linked to
\* itself and can be popped for ever.)
TypeOK ==
    /\ to_tail \in [Nodes -> Nodes \cup {Null}]
    /\ mem \in [Nodes -> [Offsets -> Int]]
    /\ heap \subseteq Nodes
    /\ pool.head \in heap \cup {Null} /\ pool.tail \in heap \cup {Null}
    /\ pool.size \in IF crowded THEN Int ELSE 0 .. MaxPool
    /\ DOMAIN st \subseteq Streams
    /\ \A s \in DOMAIN st :
        /\ st[s].head \in heap
        /\ st[s].headByteCount \in 0 .. NodeSize
        /\ Len(st[s].ub_list) <= MaxUB
    /\ listener.pc \in {"idle", "take", "ended"}

\* pop tests recycled_head without the mutex.  The application may push
\* meanwhile, but only the Listener pops: the node it saw is still there.
PopFindsNode == listener.pc = "take" /\ listener.saw => pool.head # Null

\* the nodes that are reached from n along to_tail
ListFrom(n) == {Hop(n, j, to_tail) : j \in 0 .. Cardinality(Nodes)} \ {Null}

\* As long as a node is only pushed into an empty pool, no node is in the pool
\* and in a stream, or in two streams.  (With a second node in the pool this
\* ends: the link of a popped node still leads to it.)
OneOwner ==
    ~crowded /\ killer = NoKill =>
        /\ \A s, t \in DOMAIN st :
              s # t => ListFrom(st[s].head) \cap ListFrom(st[t].head) = {}
        /\ \A s \in DOMAIN st :
              pool.head # Null => pool.head \notin ListFrom(st[s].head)

\* A stream that did not leave its first node and closed no gap has every
\* packet it took once, every byte in its place, and in lastSeq the end of
\* what it has without a gap.
PlainInPlace ==
    ~crowded => \A s \in DOMAIN st : st[s].plain /\ killer.stream # s =>
        /\ \A i, j \in DOMAIN st[s].arrived :
              st[s].arrived[i] = st[s].arrived[j] => i = j
        /\ \A k \in ToSet(st[s].arrived) : \A p \in Start(k) .. (Start(k) + Length(k) - 1) :
              mem[Hop(st[s].head, p \div NodeSize, to_tail)][p % NodeSize] = p
        /\ st[s].lastSeq = st[s].headByteCount

\* A call of Finalize on such a stream writes the beginning of the file, up to
\* lastSeq at that moment.  So the file on disk is a beginning of the file when
\* at most one call wrote, and otherwise one beginning after the other: nothing
\* in it is out of order or was not received.
FileIsPrefix ==
    ~crowded => \A s \in DOMAIN st : st[s].plain =>
        LET file == st[s].file
        IN  /\ st[s].finals <= 1 => \A i \in DOMAIN file : file[i] = i - 1
            /\ \A i \in DOMAIN file : file[i] # 0 => i > 1 /\ file[i] = file[i - 1] + 1

-----------------------------------------------------------------------------
(* What comments say and the code does not do.                             *)

\* Finalize "flushes all remaining buffered data to file": when all packets
\* came before, in order and once, the first call that writes completes the
\* file.
FinalizeFlushesAll ==
    [][\A s \in DOMAIN st :
          Finalize(s) /\ st[s].finals = 0 /\ st[s].arrived = [i \in 1 .. Cardinality(PacketIds) |-> i - 1]
              => st'[s].file = [i \in 1 .. FileSize |-> i - 1]]_vars
=============================================================================
