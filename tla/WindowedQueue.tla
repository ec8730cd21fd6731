--------------------------- MODULE WindowedQueue ---------------------------
(***************************************************************************)
(* The windowed queue (windowedqueue.h, windowedqueue.c): a window is a    *)
(* linked list of fixed-size nodes in which blocks of a byte stream are    *)
(* put at their sequence number, in any order, and popped in order.  The   *)
(* nodes that were read go to a pool shared by the windows of a host.      *)
(*                                                                         *)
(* A byte is the position it has in its stream, so that "the right byte"   *)
(* can be said; a sequence number is a position modulo SeqSpace.  The      *)
(* loops of the code are given by their result: which nodes are appended,  *)
(* which bytes land where, how far safe_tail moves.                        *)
(*                                                                         *)
(* One call is one step, and calls do not overlap.  In the program they    *)
(* can: CreateUpstream (the application) and channel::receive (the         *)
(* Listener) use the same windows and the same pool without a lock.        *)
(* RdtStream shows what that does to a sending window; what is shown here  *)
(* holds for calls that come one after the other.                          *)
(***************************************************************************)
EXTENDS UBList, FiniteSets

CONSTANTS
    Windows,     \* identities of windows (one per rdt channel)
    Nodes,       \* heap nodes, a finite set of numbers: bound on malloc
    NodeSize,    \* ALTUS_NODE_SIZE: 4096 in the code
    WindowSize,  \* windowSize, in nodes: ALTUS_WINDOW_BLOCK_MAX_DEFAULT
    MaxLen,      \* bound: longest Put or Pop
    MaxPos       \* bound: end of the part of the streams that is explored

ASSUME NodesAssumption ==
    /\ Nodes \subseteq Nat /\ IsFiniteSet(Nodes) /\ Nodes # {}
    /\ Windows # {} /\ "pool" \notin Windows
ASSUME SizesAssumption ==
    /\ NodeSize \in Nat \ {0} /\ WindowSize \in Nat \ {0}
    /\ MaxLen \in Nat /\ MaxPos \in Nat
    \* 2^17 nodes of 2^12 bytes are a small part of the 2^32 numbers
    /\ 2 * WindowSize * NodeSize <= SeqSpace
    \* and so is a packet
    /\ 2 * MaxLen <= SeqSpace

VARIABLES
    win,      \* the live windows: a function from some windows to records
    pool,     \* recycled nodes, recycled_head first
    valid,    \* validBlockCount of every node
    mem,      \* the data of every node
    heap,     \* nodes obtained from malloc and not given to free
    hist,     \* per live window: stream position of lastSeq and of the reader
    ret,      \* what the last call returned
    corrupt   \* a memcpy went outside the node it was meant for

vars == << win, pool, valid, mem, heap, hist, ret, corrupt >>

-----------------------------------------------------------------------------
Offsets == 0 .. (NodeSize - 1)
Junk == -1      \* content of memory nobody wrote
Garbage == [o \in Offsets |-> Junk]
Positions == 0 .. MaxPos

Block == [head : Seqs, tail : Seqs]

\* nodes: head .. unsafe_tail along to_tail;  safe: index of safe_tail in it
Window ==
    [nodes : Seq(Nodes), safe : Nat, safe_len : Nat, unsafe_len : Int,
     headDataOffset : 0 .. NodeSize, headSeq : Seqs, lastSeq : Seqs,
     ub_list : Seq(Block)]

-----------------------------------------------------------------------------
(* Allocation.                                                             *)

\* The m nodes that malloc hands out next, whichever they are.
Malloc(m) == CHOOSE q \in Injection(1 .. m, Nodes \ heap) : TRUE

\* altusWQNewNode called k times: the nodes it appends.  The last node of the
\* pool is never taken.
Recycled(k) == IF k < Len(pool) THEN k ELSE Len(pool) - 1
NewNodes(k) == SubSeq(pool, 1, Recycled(k)) \o Malloc(k - Recycled(k))

-----------------------------------------------------------------------------
(* altusWQPut.                                                             *)

\* distance of seq from the first byte of the node safe_tail
WriteOffset(W, seq) == Minus(seq, Minus(W.lastSeq, valid[W.nodes[W.safe]]))

\* Mutant: the window's length is not looked at.
PutCode_NoWindowCheck(W, seq, length) ==
    LET check == altusUBCheck(W.ub_list, seq, length).code
    IN  IF After(W.lastSeq, seq) THEN -2
        ELSE IF check = "FULL" THEN -4
        ELSE IF check = "MALICIOUS_INPUT" THEN -5
        ELSE 0

\* Mutant: blocks that were delivered already are not recognised.
PutCode_NoDuplicateCheck(W, seq, length) ==
    LET required == (Minus(Plus(seq, length), W.lastSeq) \div NodeSize) + 1
        check == altusUBCheck(W.ub_list, seq, length).code
    IN  IF W.safe_len + required > WindowSize THEN -3
        ELSE IF check = "FULL" THEN -4
        ELSE IF check = "MALICIOUS_INPUT" THEN -5
        ELSE 0

\* the value altusWQPut returns
PutCode(W, seq, length) ==
    LET required == (Minus(Plus(seq, length), W.lastSeq) \div NodeSize) + 1
        check == altusUBCheck(W.ub_list, seq, length).code
    IN  IF After(W.lastSeq, seq) THEN -2
        ELSE IF W.safe_len + required > WindowSize THEN -3
        ELSE IF check = "FULL" THEN -4
        ELSE IF check = "MALICIOUS_INPUT" THEN -5
        ELSE 0

\* The calls of altusWQNewNode: one for every node boundary the block reaches
\* (whether or not the next node exists), and one when the block begins
\* exactly behind the only node there is.
NewNodeCalls(W, seq, length) ==
    LET off == WriteOffset(W, seq)
    IN  IF length = 0 THEN 0
        ELSE ((off + length) \div NodeSize) - (off \div NodeSize)
             + (IF off = NodeSize /\ W.safe = Len(W.nodes) THEN 1 ELSE 0)

\* Mutant: every node gets the beginning of the block.
Written_FromStart(nodes, safe, off, pos, length) ==
    [n \in Nodes |-> [o \in Offsets |->
        LET hit == {d \in 0 .. (length - 1) :
                       nodes[safe + ((off + d) \div NodeSize)] = n /\ (off + d) % NodeSize = o}
        IN  IF hit = {} THEN mem[n][o] ELSE pos + o]]

\* Contents after bytes pos, pos+1, ... were written "off" bytes behind the
\* beginning of node number "safe".
Written(nodes, safe, off, pos, length) ==
    [n \in Nodes |-> [o \in Offsets |->
        LET hit == {d \in 0 .. (length - 1) :
                       nodes[safe + ((off + d) \div NodeSize)] = n /\ (off + d) % NodeSize = o}
        IN  IF hit = {} THEN mem[n][o] ELSE pos + Max(hit)]]

\* safe_tail has moved "total" bytes behind the beginning of node number safe.
AdvancedValid(nodes, safe, total) ==
    [n \in Nodes |->
        IF \E i \in safe .. (safe + (total \div NodeSize) - 1) : nodes[i] = n
        THEN NodeSize
        ELSE IF nodes[safe + (total \div NodeSize)] = n THEN total % NodeSize
        ELSE valid[n]]

\* Mutant: the lengths are not maintained when safe_tail moves.
Advanced_NoLen(W, list, total) ==
    IF list[1].head = W.lastSeq
    THEN [W EXCEPT !.safe = @ + (total \div NodeSize), !.lastSeq = list[1].tail,
                   !.ub_list = altusUBPop(list)]
    ELSE [W EXCEPT !.ub_list = list]

\* The window when its list of blocks has become "list": when the first block
\* begins at lastSeq it is taken over into the safe part.
Advanced(W, list, total) ==
    IF list[1].head = W.lastSeq
    THEN LET q == total \div NodeSize
         IN  [W EXCEPT !.safe = @ + q, !.safe_len = @ + q, !.unsafe_len = @ - q,
                       !.lastSeq = list[1].tail, !.ub_list = altusUBPop(list)]
    ELSE [W EXCEPT !.ub_list = list]

PutRefused(w, pos, length) ==
    /\ ~corrupt
    /\ w \in DOMAIN win
    /\ LET code == PutCode(win[w], pos % SeqSpace, length)
       IN  /\ code # 0
           /\ ret' = [win |-> w, code |-> code, bytes |-> << >>]
    /\ UNCHANGED << win, pool, valid, mem, heap, hist, corrupt >>

\* The block begins more than a node behind safe_tail: writelen, an unsigned
\* difference, wraps round and memcpy writes outside the node.
PutStray(w, pos, length) ==
    /\ ~corrupt
    /\ w \in DOMAIN win
    /\ length > 0
    /\ PutCode(win[w], pos % SeqSpace, length) = 0
    /\ WriteOffset(win[w], pos % SeqSpace) > NodeSize
    /\ corrupt' = TRUE
    /\ UNCHANGED << win, pool, valid, mem, heap, hist, ret >>

PutAccepted(w, pos, length) ==
    /\ ~corrupt
    /\ w \in DOMAIN win
    /\ LET seq == pos % SeqSpace
           k == NewNodeCalls(win[w], seq, length)
           off == WriteOffset(win[w], seq)
           list == altusUBCheck(win[w].ub_list, seq, length).list
           W == [win[w] EXCEPT !.nodes = @ \o NewNodes(k), !.unsafe_len = @ + k]
           total == Minus(list[1].tail, Minus(W.lastSeq, valid[W.nodes[W.safe]]))
           inSeq == list[1].head = W.lastSeq
       IN  /\ PutCode(win[w], seq, length) = 0
           /\ length = 0 \/ off <= NodeSize
           /\ Cardinality(Nodes \ heap) >= k - Recycled(k)
           /\ win' = [win EXCEPT ![w] = Advanced(W, list, total)]
           /\ pool' = SubSeq(pool, Recycled(k) + 1, Len(pool))
           /\ heap' = heap \cup ToSet(NewNodes(k))
           /\ mem' = Written(W.nodes, W.safe, off, pos, length)
           /\ valid' = IF inSeq THEN AdvancedValid(W.nodes, W.safe, total) ELSE valid
           /\ hist' = IF inSeq
                      THEN [hist EXCEPT ![w].last = @ + Minus(list[1].tail, W.lastSeq)]
                      ELSE hist
           /\ ret' = [win |-> w, code |-> 0, bytes |-> << >>]
    /\ UNCHANGED corrupt

\* The blocks the network can bring: at most half the sequence space old or
\* ahead, as every scheme with such numbers must assume.
Put(w) ==
    /\ w \in DOMAIN win
    /\ \E pos \in Positions, length \in 0 .. MaxLen :
        /\ pos + length <= MaxPos
        /\ pos - hist[w].last \in (1 - SeqSpace \div 2) .. ((SeqSpace \div 2) - 1)
        /\ \/ PutRefused(w, pos, length)
           \/ PutStray(w, pos, length)
           \/ PutAccepted(w, pos, length)

-----------------------------------------------------------------------------
(* altusWQPop, altusWQSanitize.  (altusWQPeek: see RdtStream)              *)

\* what the loop of altusWQPop finds before the first node that is not full
Readable(W) ==
    LET k == Min({i \in DOMAIN W.nodes : valid[W.nodes[i]] < NodeSize})
    IN  (k - 1) * NodeSize + valid[W.nodes[k]] - W.headDataOffset

\* the byte "off" bytes behind the beginning of the head node
ByteAt(W, off) == mem[W.nodes[1 + (off \div NodeSize)]][off % NodeSize]

\* Mutant: a node popped from a window is not handed to the pool.
RecycledNodes_Lost(nodes) == Tail(nodes)

\* The nodes that altusWQPopNode appends to the pool.
RecycledNodes(nodes) == nodes

\* Mutant: the offset is not set back when its node is popped.
PoppedOffset_NoReset(W, n) == W.headDataOffset + n

\* headDataOffset after n bytes were read
PoppedOffset(W, n) == (W.headDataOffset + n) % NodeSize

Pop(w, length) ==
    /\ ~corrupt
    /\ w \in DOMAIN win
    /\ LET W == win[w]
           n == Min({length, Readable(W)})
           q == (W.headDataOffset + n) \div NodeSize
           gone == SubSeq(W.nodes, 1, q)
           \* the last byte that there is was read and its node is kept
           drained == n > 0 /\ n = Readable(W) /\ (W.headDataOffset + n) % NodeSize # 0
       IN  /\ win' = [win EXCEPT ![w].nodes = SubSeq(@, q + 1, Len(@)),
                                 ![w].safe = @ - q,
                                 ![w].safe_len = IF drained THEN 1 ELSE @ - q,
                                 ![w].headDataOffset = PoppedOffset(W, n)]
           /\ pool' = pool \o (IF q = 0 THEN << >> ELSE RecycledNodes(gone))
           \* what a recycled node still contains is nobody's byte any more
           /\ mem' = [x \in Nodes |-> IF x \in ToSet(gone) THEN Garbage ELSE mem[x]]
           /\ ret' = [win |-> w, code |-> n,
                      bytes |-> [j \in 1 .. n |-> ByteAt(W, W.headDataOffset + j - 1)]]
           /\ hist' = [hist EXCEPT ![w].read = @ + n]
    /\ UNCHANGED << valid, heap, corrupt >>

\* recalculateWinLen does not reach unsafe_tail: safe_len keeps its value
\* when safe_tail is the last of several nodes.
Sanitize(w) ==
    /\ ~corrupt
    /\ w \in DOMAIN win
    /\ LET W == win[w]
           len == Len(W.nodes)
           recount == IF W.safe = 1 \/ W.safe < len THEN W.safe ELSE W.safe_len
       IN  /\ win' = [win EXCEPT ![w].safe_len = recount, ![w].unsafe_len = len]
           /\ ret' = [win |-> w, bytes |-> << >>,
                      code |-> IF len > 2 * WindowSize THEN -2
                               ELSE IF len > WindowSize THEN -1
                               ELSE IF len < WindowSize \div 8 THEN 3
                               ELSE IF len < WindowSize \div 4 THEN 2
                               ELSE IF len < WindowSize \div 2 THEN 1
                               ELSE 0]
    /\ UNCHANGED << pool, valid, mem, heap, hist, corrupt >>

-----------------------------------------------------------------------------
(* Lifetime of windows and of the pool.                                    *)

\* altusNewWindow, and the numbers LinkRDTWindow sets
NewWindow(w) ==
    /\ ~corrupt
    /\ w \notin DOMAIN win
    /\ pool # << >>
    /\ Nodes \ heap # {}
    /\ LET n == Malloc(1)[1]
           W == [nodes |-> << n >>, safe |-> 1, safe_len |-> 1, unsafe_len |-> 0,
                 headDataOffset |-> 0, headSeq |-> 0, lastSeq |-> 0, ub_list |-> << >>]
       IN  /\ win' = [x \in DOMAIN win \cup {w} |-> IF x = w THEN W ELSE win[x]]
           /\ hist' = [x \in DOMAIN hist \cup {w} |->
                          IF x = w THEN [last |-> 0, read |-> 0] ELSE hist[x]]
           /\ heap' = heap \cup {n}
           /\ valid' = [valid EXCEPT ![n] = 0]
    /\ UNCHANGED << pool, mem, ret, corrupt >>

\* The nodes altusFreeWQ walks over.
FreedNodes(W) == ToSet(W.nodes)

\* altusFreeWQ; the contents of freed memory are arbitrary again, see Init.
FreeWQ(w) ==
    /\ ~corrupt
    /\ w \in DOMAIN win
    /\ LET freed == FreedNodes(win[w])
       IN  /\ heap' = heap \ freed
           /\ valid' = [n \in Nodes |-> IF n \in freed THEN NodeSize ELSE valid[n]]
           /\ mem' = [n \in Nodes |-> IF n \in freed THEN Garbage ELSE mem[n]]
    /\ win' = [x \in DOMAIN win \ {w} |-> win[x]]
    /\ hist' = [x \in DOMAIN hist \ {w} |-> hist[x]]
    /\ UNCHANGED << pool, ret, corrupt >>

\* altusFreeP: the host frees its pool when its peers, and so all windows, are
\* gone (ALTUSHost::~ALTUSHost)
FreeP ==
    /\ ~corrupt
    /\ pool # << >>
    /\ DOMAIN win = {}
    /\ pool' = << >>
    /\ heap' = heap \ ToSet(pool)
    /\ UNCHANGED << win, valid, mem, hist, ret, corrupt >>

\* altusWQNewNodePool: a pool with one node.  Memory that malloc hands out
\* has arbitrary content; a count that says "full" misleads a reader most.
Init ==
    LET first == Min(Nodes)
    IN  /\ win = << >>
        /\ hist = << >>
        /\ pool = << first >>
        /\ heap = {first}
        /\ valid = [n \in Nodes |-> IF n = first THEN 0 ELSE NodeSize]
        /\ mem = [n \in Nodes |-> Garbage]
        /\ ret = [win |-> CHOOSE w \in Windows : TRUE, code |-> 0, bytes |-> << >>]
        /\ corrupt = FALSE

Next ==
    \/ \E w \in Windows :
        \/ NewWindow(w)
        \/ Put(w)
        \/ \E length \in 0 .. MaxLen : Pop(w, length)
        \/ Sanitize(w)
        \/ FreeWQ(w)
    \/ FreeP

Spec == Init /\ [][Next]_vars

-----------------------------------------------------------------------------
(* Properties.                                                             *)

\* The stream position a sequence number of window w stands for.
Position(w, seq) == hist[w].last + Minus(seq, win[w].lastSeq)

\* The positions whose bytes window w holds and has not handed out.
Held(w) ==
    (hist[w].read .. (hist[w].last - 1)) \cup
    UNION {Position(w, b.head) .. (Position(w, b.tail) - 1) : b \in ToSet(win[w].ub_list)}

\* The state variables have the shape the declarations of windowedqueue.h give
\* them; "at least one node is in the window" (and in the pool).
TypeOK ==
    /\ DOMAIN win \subseteq Windows
    /\ \A w \in DOMAIN win :
        /\ win[w] \in Window
        /\ win[w].safe \in DOMAIN win[w].nodes
        /\ Len(win[w].ub_list) <= MaxUB
    /\ DOMAIN hist = DOMAIN win
    /\ \A w \in DOMAIN hist : hist[w] \in [last : Nat, read : Nat]
    /\ pool \in Seq(Nodes)
    /\ valid \in [Nodes -> 0 .. NodeSize]
    /\ mem \in [Nodes -> [Offsets -> Nat \cup {Junk}]]
    /\ heap \subseteq Nodes
    /\ ret.win \in Windows /\ ret.code \in Int
    /\ corrupt \in BOOLEAN

\* No node is lost and none has two owners: the nodes of the pool and of the
\* windows, taken together, are exactly the allocated nodes, each of them once.
\* (altusWQNewNode, altusWQPopNode, altusFreeWQ, altusFreeP)
NodesOwnedOnce ==
    LET owned == [o \in DOMAIN win \cup {"pool"} |->
                    IF o \in DOMAIN win THEN win[o].nodes ELSE pool]
    IN  /\ heap = UNION {ToSet(owned[o]) : o \in DOMAIN owned}
        /\ \A o, p \in DOMAIN owned : \A i \in DOMAIN owned[o], j \in DOMAIN owned[p] :
              owned[o][i] = owned[p][j] => o = p /\ i = j

\* The counters that the code calls "not reliable" are exact where it decides
\* by them: safe_len is the place of safe_tail, the nodes before safe_tail are
\* full and safe_tail is not, lastSeq is the stream position modulo 2^32, and
\* what altusWQPop can read is what lies between the reader and lastSeq.
CountsExact ==
    \A w \in DOMAIN win :
        LET W == win[w]
        IN  /\ W.safe_len = W.safe
            /\ \A i \in 1 .. (W.safe - 1) : valid[W.nodes[i]] = NodeSize
            /\ valid[W.nodes[W.safe]] < NodeSize
            /\ W.lastSeq = hist[w].last % SeqSpace
            /\ Readable(W) = hist[w].last - hist[w].read

\* Every byte the window holds, sequenced or not, is at the place where
\* altusWQPop will look for it and is the byte that was received.
BytesInPlace ==
    \A w \in DOMAIN win : \A p \in Held(w) :
        ByteAt(win[w], win[w].headDataOffset + p - hist[w].read) = p

\* The blocks of ub_list lie ahead of lastSeq, in order, disjoint and never
\* adjacent: what altusUBCheck could join, it has joined.
UBCanonical ==
    \A w \in DOMAIN win :
        LET l == win[w].ub_list
        IN  /\ \A i \in DOMAIN l : /\ Position(w, l[i].head) > hist[w].last
                                   /\ Position(w, l[i].head) <= Position(w, l[i].tail)
            /\ \A i \in 1 .. (Len(l) - 1) :
                  Position(w, l[i].tail) < Position(w, l[i+1].head)

\* The memory of a window is bounded: its nodes never exceed windowSize by
\* more than one, however blocks arrive (the -3 of altusWQPut).
NodeBound == \A w \in DOMAIN win : Len(win[w].nodes) <= WindowSize + 1

\* The queue implements the abstract one: in order, once, unaltered, and a
\* block for which altusWQPut does not return 0 leaves no trace.
Promise == INSTANCE Reassembly WITH
    stream <- [w \in DOMAIN win |-> [held |-> Held(w), read |-> hist[w].read]]
ImplementsReassembly == Promise!Spec

-----------------------------------------------------------------------------
(* What comments of the source say and the code does not do.               *)

\* "now, we need to copy data to that exact link location": no block is
\* written outside the node it belongs to.
NoStrayWrite == ~corrupt
=============================================================================
