# ALTUS: models, checks and proofs

ALTUS (`src/ALTUS`) is a C/C++ library for Windows that runs reliable streams
over UDP. An application creates an `ALTUSHost`, connects it to other hosts and
gets `ALTUSPeer`s; a peer carries channels, and a channel moves bytes through a
windowed queue. This directory holds TLA+ models of its core, TLC runs over
small instances, and TLAPS proofs for instances of any size.

## 1. Inventory

| Part | State | Operations | Correct when |
|---|---|---|---|
| Unsequenced block list (`ublist.c`) | up to 8 pairs head/tail of 32-bit numbers | `altusUBCheck`, `altusUBPop` | blocks are ordered, disjoint, joined as soon as they touch; wrap-round does not matter |
| Windowed queue (`windowedqueue.c`) | linked nodes head..safe_tail..unsafe_tail, counters, `lastSeq`, `headDataOffset`; a pool of recycled nodes | `altusNewWindow`, `altusWQPut`, `altusWQPop`, `altusWQPeek`, `altusWQSanitize`, `altusFreeWQ`, `altusFreeP` | bytes come out in order, once, unaltered; no node is lost or shared; memory is bounded |
| Host, connection set-up (`ALTUSHost.cpp`) | `c_prepeers`, `s_prepeers`, `RetryQuque`, `peers`, `peid_peer`, `lastpeid`, `_IsAccepting` | `connect`, `Connecter`, `Listener` with `TryCompleteConnection` and `accepter`, `removePeer`, `keep_accept`, `decline_accept`, `FlushRetryQueue` | both sides agree on what happened; maps agree; no dangling pre-peer; attempts end |
| Host, threads | `_IsAlive`, three threads, `connecterCond` | `run`, `~ALTUSHost`, `Sender` | every thread ends, nothing is used after it was deleted |
| Peer (`ALTUSPeer.cpp`) | channel map, `lastcuid` | constructors, `newChannel`, `processPacket`, `CreateUpstream`, `Send` | what one side sends on, the other receives on; acknowledgements match the window |
| Channel (`channel.cpp`) | window or struct, `NextSendSeq`, `lastAckedSeq`, `_IsUpdated` | `LinkRDTWindow`, `LinkStruct`, `receive` | every byte put upstream arrives |
| File receive stream (`fileReceiveStream.cpp`) | nodes, `lastSeq`, `headSeq`, `ub_list` | `Append`, `CheckUB`, `FlushNode`, `PutUnSeq`, `Finalize` | the file is the stream |
| Node pool (`NodeBase.cpp`) | recycled list, size, mutex | `pop`, `push`, `resize` | no node lost or handed out twice |

Interaction. The application calls `connect`, `CreateUpstream`, `removePeer`
on its own threads. `Listener` takes datagrams and calls `accepter`,
`TryCompleteConnection` or a peer's `processPacket`, which calls
`channel::receive`, which calls `altusWQPut` (data) or `altusWQPop`
(acknowledgement). `Connecter` repeats the first handshake datagrams from a
priority queue. `Sender` walks the peers every 300 ms and calls `Send`, which
reads the windows with `altusWQPeek`. All windows of a host share one pool.

What is hard: datagrams lost, repeated, late; two hosts connecting to each
other; retries of an attempt that ended in the meantime; three threads and the
application on unlocked maps; numbers that wrap round; blocks that straddle
nodes. `PROJECT.json` lists the hazards at their lines.

Not modelled at all: `fileSendStream.c` (commented out from the first line to
the last), `connection.cpp` (unused), `fileT` (declarations only), Winsock
start-up, logo and typedefs, the demonstration `main.cpp`, and the vendored
OpenSSL tree.

## 2. Plan

1. *Done*: `UBList`, `WindowedQueue` and the abstract `Reassembly`.
2. *Done*: `Handshake` for any number of hosts; `HandshakeProofs`.
3. *Done*: `FileStreams`: the file receive streams and their node pool.
4. *Done*: `HostThreads`: `run`, the destructor, the three threads.
5. *Done*: `RdtStream`: `CreateUpstream`, `Send`, `channel::receive` and
   acknowledgements between two hosts.
6. *Done*: proofs of every invariant of `Handshake`, `HostThreads`, `RdtStream`
   and `FileStreams`.
7. *Done*: proofs of every invariant of `WindowedQueue` and of its refinement
   of `Reassembly`.
8. Next: facts about operators that the runs only exercise (`altusUBPop`,
   `Peek`), and the conditions under which `PutStray` is not enabled.

## 3. Modules

| Module | Models | Extended by |
|---|---|---|
| `UBList` | `ublist.c`: arithmetic modulo `SeqSpace`, `altusUBCheck`, `altusUBPop` as pure operators | `WindowedQueue`, `RdtStream`, `FileStreams`, `UBListProofs` |
| `UBListProofs` | what `altusUBCheck` preserves, and facts about `Min`, insertion and removal | `RdtStreamProofs`, `FileStreamsProofs`, `WindowedQueueLemmas` |
| `WindowedQueue` | `windowedqueue.c`, with `LinkRDTWindow` and the call of `altusWQPut` in `channel::receive` | `MCWindowedQueue`, `WindowedQueueLemmas` |
| `WindowedQueueLemmas` | the inductive invariant of `WindowedQueue`; what its operators compute, in stream positions; `altusWQPut` step by step | `WindowedQueueProofs` |
| `WindowedQueueProofs` | every action keeps the invariant; theorems about `WindowedQueue` | |
| `Reassembly` | the abstract queue: a set of held positions and a reader | instance in `WindowedQueue` |
| `Handshake` | `ALTUSHost.cpp`: handshake, retries, peers | `MCHandshake`, `HandshakeProofs` |
| `HandshakeProofs` | theorems about `Handshake` | |
| `RdtStream` | one rdt channel end to end: `CreateUpstream`, `Send`, `processPacket`, `channel::receive`, `altusWQPeek`; uses `UBList` | `RdtStreamProofs` |
| `RdtStreamProofs` | theorems about `RdtStream` | |
| `FileStreams` | `fileReceiveStream.cpp` and `NodeBase.cpp`; the arithmetic of `UBList` | `MCFileStreams`, `FileStreamsProofs` |
| `FileStreamsProofs` | theorems about `FileStreams` | |
| `HostThreads` | the threads of one host, its destructor, the condition variable | `HostThreadsProofs` |
| `HostThreadsProofs` | theorems about `HostThreads` | |
| `MC...` | instances for TLC | |

### WindowedQueue

A window is the sequence of its nodes from `head` to `unsafe_tail`; `safe` is
the index of `safe_tail`. A byte is represented by its position in the stream,
so "the right byte in the right place" can be stated; a sequence number is a
position modulo `SeqSpace`. `hist` (the stream positions of `lastSeq` and of
the reader) and `ret` (what the last call returned) are history.

The loops of `altusWQPut` and `altusWQPop` are given by their result.
`PutCode` is the order of the early returns; `NewNodeCalls` counts how often
the copy loop calls `altusWQNewNode` (once per node boundary the block
reaches, also when the next node exists already); `Written` says which byte
lands where; `Advanced` and `AdvancedValid` are the loop that moves
`safe_tail`. `Pop` includes `altusWQPopNode`, with the quirk that reading the
last byte there is sets `safe_len` to 1. `Sanitize` includes the macro
`recalculateWinLen`.

In the copy loop `writelen` is unsigned. When a block begins more than a node
behind the beginning of `safe_tail` it wraps round, and `memcpy` writes
outside the node: that is the action `PutStray`. It ends the behaviour
(`corrupt`), as nothing can be said about the memory afterwards; the other
properties hold of everything before.

`malloc` hands out some nodes that are free (`CHOOSE`); the contents of new, recycled and
freed nodes are junk, and an unwritten `validBlockCount` is the value that
misleads most, "full". `exit(-1)` on a failed `malloc` is not modelled: a Put
that needs more nodes than the bound `Nodes` is not taken.

Left out because nothing reads it: `pool->len` and `to_head`.
`ALTUS_WINDOW_BLOCK_MAX_ABSOLUTE` (2^30 nodes) is out of reach of a window.

### Handshake

The state is one function of the host per field of `ALTUSHost`. An address is
the host that has it. An attempt (`ALTUS_CPrePeer`) has a number, so that
pointers to it from `c_prepeers` and from `RetryQuque` can outlive it. A
server-side pre-peer is the set of pages that came, `IsAckSent`, and whether it
is older than `ALTUS_HANDSHAKE_WAITTIME`. A peer is the side its constructor
was called for. `log` is history.

Each handler is one action with all it calls: `TryComplete` pops the pre-peer,
makes the peer, gives it an identifier and sends Z. The `exit(-1)` for a peer
that exists already is never reached, since `Listener` looks for the peer
first on the same thread. The Connecter thread's iteration is four actions,
one per way through the loop; waiting for the condition variable and waking up
are separate. Time is the order of the retries of one attempt, and of the
same turn of successive attempts; the turns of different attempts are
otherwise in any order. Without the fault "delay" a datagram is handled
before the next retry is due (`ConnectWaitTime`).

The public key has 700 bytes, two pages; the branches for other sizes
cannot be reached between ALTUS hosts. Encryption is not implemented in the
code.

Application callbacks (`acceptAction`, `connectAction`) make no step of their
own: what they do to a host are calls that the applications can make any time.

`Faults` says what the surroundings may do (lose, duplicate, delay a datagram,
let a pre-peer grow old, wake a thread for no reason), `Calls` what the applications may call besides
`connect`. Without "duplicate" a datagram equal to one in flight merges with
it; with "duplicate" it is never used up, so it can come any number of times.

### RdtStream

The application, `Sender` and `Listener` of the sending host share a channel
and its window without a lock, so a call is cut wherever another thread can see
the difference. In `CreateUpstream` those are the tests of `altusWQPut`
(`UploadPut`), each turn of its copy loop, which links nodes (`UploadCopy`), each
`validBlockCount` it sets (`UploadAdvance`, `UploadNext`), and the flag
(`UploadFlag`). One iteration of the loop of `Send` is a step for each call of
`altusWQPeek` (`SendPeek`, `SendPeekMore`) and one for the rest (`SendPacket`:
copy, flag, `NextSendSeq`, `sendto`). That `Send` makes at most 16 iterations per
call and then sleeps changes nothing here.

The sending window is modelled node by node: `count` is the `validBlockCount` of
every node that was ever linked, and a node that `altusWQNewNode` links has any
of `OldCounts`, since nothing sets it before the node becomes `safe_tail`. `Peek`
counts nodes from `headSeq`, which stays 0, and subtracts unsigned, as the code
does. `altusWQPop` for an acknowledgement is one step that goes from node to
node as far as the counts say (`Empties`). Pop and put that overlap are harmless
as long as no node is given away: the pop changes `headDataOffset` only. When
the pop empties a node during a put (`ReceiveAckRaces`), both change the pool,
the list and its counters; what follows is undefined and the sending host is
not followed any further (`raced`).

The receiving window is given by what `WindowedQueue` shows of it. A packet
carries the positions its bytes were uploaded at, or `Junk` where `memcpy` read
outside what the window holds; a node that went to the pool may have been
overwritten since (`reused`). Packets and acknowledgements stay in the network
once sent, so that they may come late, again or never; `arrived` are the ones
that came, and `noRoom` records that one was refused (-3, -4) when it first
came. `Leftovers` are the values the uninitialised `lastAckedSeq` may have.
Padding is left out: what is cut off by the receiver is what the sender added.
Encryption is not implemented in the code.

`Undisturbed` is the precondition of two properties: no node of the sending
window was popped, Sender read no count that altusWQPut had still to set
(`torn`), no pop raced with a put, and no block strayed. All four are defects of
the code after which nothing is promised. All other moments at which Sender or
Listener meet a put are covered, and so is everything the network does.

### FileStreams

A stream has a head node, and the list that hangs on its `to_tail`. The macro
`NewNode()` never moves `tail`, so `head = tail` for ever, `FlushNode` always
takes its first branch, and a list has one or two nodes. The pool's list uses
the same links, so it is modelled on the same variable: `push` moves
`recycled_tail` only when the pool was empty, and `pop` leaves the popped
node's link as it was.

`CheckUB` is an operator that returns the message and the new list; `Append`
is one action per message. A block behind `lastSeq`, `OVERLAP` and `FULL`
change nothing and have no action. The Listener ends (`Dies`) where the code
throws on its thread or follows a null pointer; `MERGING` with a short block
writes the head node until an `int` overflows, of which the first time is
shown. The streams are made by the Listener with the peer, in two steps
around the unlocked test of `pop`, and destroyed by the application, a node
at a time. `Finalize` can be called any number of times, also between packets:
nothing in the code marks a stream as finalized, and every call that does not
throw appends the head node's bytes once more. (`MaxFinals` bounds the calls that
write.) A block before `headSeq` is copied in front of its node's data; this is
undefined and the Listener is not followed any further.

`plain` (a stream that neither crossed a node nor merged) and `crowded` (a node
was pushed while another was in the pool) are history. After those events
bytes are misplaced and nodes are shared, so `PlainInPlace`, `FileIsPrefix` and
`OneOwner` end there; everything before, with all packet orders and
duplicates, is covered.

Left out: creation and failures of the temporary file; the application
destroying the stream the Listener is appending to (undefined; the class says
"not thread safe"); `_nodeCount` and `unSeqLen`, which nothing reads;
`resize`, which nothing calls.

### HostThreads

The loops of the three threads are cut where another thread matters: the test
of `_IsAlive`, `recvfrom`, between `popCPrePeer` and the write to what it
returned, between the test for an empty queue and the wait, and every sleep.
The destructor is one action per join, deletion and notification. One remote
address stands for all. `misuse` records the use of an object that is gone, and
by which thread. From a use of freed memory, or a pop of an empty queue, the
program's behaviour is undefined (`Undefined`). One thing that can happen is that
the thread goes on, with whatever it read (`ConnecterActs` chooses the flag, the
time and the address of a deleted pre-peer); then the safety properties name
what else is and is not affected. The other is that it does not: the fairness
ends there, so no thread need take another step, and the liveness properties
promise nothing any more. A closed socket only makes a call fail and is not
undefined.

The Sender and the Connecter do use peers, the socket and pre-peers after the
destructor deleted them, and `TryCompleteConnection` may write to a pre-peer
that Connecter deleted: the model reaches it, the properties exclude exactly
these, and nothing in the repository says otherwise. (`ALTUSHost.cpp:127` notes
that a destructor with a retry queue that is not empty is still to be handled.)
`removePeer` is not an action here: `ALTUSHost.h:84` says that it is not thread
safe, and its effect on the maps is in `Handshake`.

A second `run` and the destruction of a host that never ran terminate the
program (`std::thread`).

## 4. Runs

| Run | Instance | Shows |
|---|---|---|
| `window_reassembly` | 1 window, nodes of 2 bytes, 4 nodes, blocks up to 3 bytes, 16 numbers, list of 2, 18 positions | `CountsExact`, `BytesInPlace`, `UBCanonical`, `NodeBound`, `TypeOK`; refinement `ImplementsReassembly` |
| `window_ownership` | 2 windows, 8 nodes, 5 positions | `NodesOwnedOnce`, `BytesInPlace` with a shared pool, windows freed and made again |
| `handshake_faults` | 2 hosts, connect both ways, 2 retries, at most 2 datagrams in flight, loss, delay, pre-peers that time out, spurious wakeups, all calls | `HandshakeOrder`, `RolesComplementary`, `PeidsMatchPeers`, `NoDanglingAttempt`, `TypeOK` |
| `handshake_completes` | 3 hosts, 3 links, 2 attempts, the code's 3 retries, no faults, fairness | `HandshakeCompletes` |
| `rdt_stream` | 2 uploads of 1 or 4 bytes, nodes of 3, packets of 2, windows of 4 nodes, a list of 2, `lostLen` modulo 4 (more than a node, as in the code), 2 values of `lastAckedSeq`, 2 stale counts | `DeliveredIntact`, `PoppedBehindWritten`, `NeverAheadOfSender`, `TypeOK`; under fairness `FirstUploadArrives` |
| `file_streams` | 2 streams, 3 lives, 5 nodes of 5 bytes, a file of 4 packets, 4 arrivals, 2 writing calls of `Finalize` for each stream | `PopFindsNode`, `OneOwner`, `PlainInPlace`, `FileIsPrefix`, `TypeOK` |
| `threads_end` | 2 attempts with 2 retries each | `ListenerUsesLive`, `PoolsOutliveThreads`, `ConnecterReadsLive`, `TypeOK`; under fairness `WorkersEnd`, `EndsUnlessMissed` |

Bounds. With nodes of 2 bytes and blocks of 3, a block begins and ends at
every offset and spans up to three nodes; a window of 4 nodes is filled and
refused; 18 positions pass the 16 numbers, so the wrap is crossed with blocks
waiting on both sides; a list of 2 is full. The ratio the code relies on, a
window that is a small part of the numbers, is an assumption
(`SizesAssumption`). For the handshake, two retries are the least with which
one is sent again and one expires, two identifiers the least with which one
could be given twice; the five invariants are proved for all bounds, so the run
(a state constraint keeps two datagrams in flight, the pages of one key) is there
to show that every handler and fault takes part. In `rdt_stream` an upload spans two
packets and two nodes, a packet lies across a node's end, Sender peeks into a put
at each of its steps and finds a count of 1 or 3 (full) left over in the node just
linked, an acknowledgement empties a node between and during puts, packets stray
and carry foreign memory, the list of 2 is full of empty packets when the first
packet comes, and 62 is a `lastAckedSeq` from which the first distance wraps
round. In `file_streams` the third packet crosses the node's end, the list of 2 is
full, three lives are the least with which a node is recycled while two streams
are there, and two calls of `Finalize` the least with which bytes are written
twice. In `threads_end` two attempts are the least with which Connecter
sleeps for one while the other is on top.

The window runs use a `VIEW` that forgets the identity of nodes, the last
answer and `unsafe_len`. No action reads the last two, and actions depend on
node identities only through their contents, provided that every node has one
owner, which is part of the view. `handshake_faults` uses the symmetry of the
two hosts, whose links are symmetric, and `file_streams` that of the streams.

Deadlock is not checked: hosts without datagrams and retries wait, a queue
whose pool was freed, a stream that was read and a host that is gone are done.

Fairness. In `Handshake`: weak fairness of the handling of each datagram in
flight, as `Listener` loops on `recvfrom`, and of `Connecter` as long as it does
not wait; nothing is assumed of the applications, of losses or of wakeups. In
`RdtStream`: the application's call returns, `Sender` goes on while the flag is
set, and as long as some packet has not arrived one of them arrives, in any
order. This is the network without loss. Nobody repeats anything: a packet that
the receiver refuses is gone, and `FirstUploadArrives` excepts the case that it
was refused for want of room. No acknowledgement and no reader need ever come. In `HostThreads`:
each thread and the destructor go on when they can, until something undefined
was done, and `recvfrom` times out after a second (`SO_RCVTIMEO`). Datagrams, calls and spurious wakeups need not
come.

### Where the code does not do what it says

Each of these runs ends in a counterexample; `PROJECT.json` quotes the lines.

| Run | Property | What happens |
|---|---|---|
| `window_stray` | `NoStrayWrite` | a block more than a node ahead is written outside its node (unsigned `writelen <= 0`) |
| `handshake_retry` | `AttemptResolved` | `connect` does not notify `Connecter`; a lost datagram is never repeated |
| `rdt_uploads` | `UploadArrives` | after a short packet `NextSendSeq` is ahead of the window; the next upload is never sent |
| `file_finalize` | `FinalizeFlushesAll` | a block across the end of a node leaves a second node, and `Finalize` throws |
| `threads_destructor` | `DestructorEnds` | the notification comes between Connecter's test and its wait and is lost |

Met while modelling and visible in the models' actions, without a run of
their own:

- `altusWQPop` does not move `headSeq`, so after a pop `altusWQPeek` points
  elsewhere (`Peek` in `RdtStream`; the comment at `windowedqueue.h:30`).
- `altusWQPut` fills a node's count before it resets that of the next one, which
  is linked already (`windowedqueue.c:224`, `:136`, `:229`). Sender, peeking in
  between, finds the stale count of a recycled node and sends its old bytes in
  sequence, and the receiver delivers them (`ReadsOld` in `RdtStream`).
- An acknowledgement that empties a node while the application uploads changes
  the pool and the list under `altusWQPut` (`ReceiveAckRaces`).
- With a full list, also the next block in sequence is refused with -4
  (`altusUBCheck`). Every upload may send an empty packet, and eight of them that
  overtake the first packet are enough to have it refused; nothing sends it
  again (`noRoom`).
- A duplicate of a waiting block is answered -5, where
  `windowedqueue.c:144` says -2.
- `A || B` (`ALTUSHost.cpp:277`): one page twice is taken for the whole key
  (`KeyComplete`).
- Two hosts that connect to each other may both become clients, and then
  receive on the same channels (`TryComplete`; `scenario.txt:26`); for all
  others `RolesComplementary` holds.
- The last retry of an old attempt erases whatever attempt the map holds for
  that address (`ConnecterExpires`; `ALTUSHost.cpp:442`).
- A second call of `Finalize` writes the head node's bytes again (`Written`).
- The third node pushed to the pool unlinks the second (`Push`), and a gap that
  is closed leaves the file stream's list as it was (`AppendMerges`).

## 5. Proofs

`HandshakeProofs` proves five properties of `Handshake` for any set of hosts,
any links, faults, calls and bounds, from `LinksAssumption`,
`CountsAssumption` and `KindsAssumption` alone.

- `TypeCorrect`: `TypeOK` is inductive (`TypeStep`, one step per action).
- `OrderCorrect`: `HandshakeOrder` alone is not inductive, since it says
  nothing of what is in flight. `Evidence` adds that every page in flight was
  preceded by a connect of its sender, every Y by an acknowledgement, every Z
  by a completion, and that every pre-peer on either side goes back to a
  connect. `OrderInv` is the conjunction; a handler that receives a datagram
  finds in `Evidence` the event it needs, and every handler that sends one
  logs the event.
- `RolesCorrect`: `RolesComplementary` follows from `TypeOK` and
  `HandshakeOrder`: two clients, or two servers, go back to two connects.
- `PeidsCorrect`: `PeidsMatchPeers` is inductive with `TypeOK`. A new
  identifier is greater than `lastpeid`, so than all in use (`NewPeerMatches`).
- `AttemptsCorrect`: `NoDanglingAttempt` needs `OwnAddress`: an attempt is in
  the map under its own address only, the one its retries carry. Then the
  retry that deletes an attempt also erases the map's pointer to it; it is the
  last in the queue, because the queue is taken in the order of the turns.

### Threads

`HostThreadsProofs` proves the invariants of `HostThreads` for any number of
attempts and retries, from `ThreadsAssumption` alone.

- `EndCorrect`: `EndInv`, the order in which the destructor joins and deletes,
  is inductive. From it follow `ListenerCorrect` (while the Listener runs
  nothing it uses is gone) and `PoolsCorrect` (while any thread runs the pools
  are there): `misuse` is history, so it has to be shown that no step adds to
  it what the property excludes.
- `ConnecterCorrect`: `ConnecterReadsLive` needs `ReadInv`: every entry of the
  queue, and the entry Connecter sleeps for, names an attempt that was not
  deleted, and what the queue still has of that attempt comes later than the
  entry. The second half is what survives `FlushRetryQueue` and a `connect`
  during the sleep: the entry that deletes an attempt is its last one.

### Streams

`RdtStreamProofs` proves the four invariants of `RdtStream` for any sizes,
uploads and leftover values, from `StreamAssumption` and the assumptions of
`UBList`. `StreamAssumption` says that the sequence numbers do not wrap round
in the part explored: without it `DeliveredIntact` is not meant to hold, as a
packet may come late by any number of turns. The inductive invariant has seven parts:

- `UpInv`, `CountInv`: where the application is inside a put, and what the nodes
  say meanwhile: those before `safe_tail` are full, `safe_tail` says how far
  `lastSeq` is, a node is linked as soon as the one before it was filled, and the
  reader is behind. Nothing is known of the counts behind `safe_tail`. This gives
  `PoppedCorrect`: `altusWQPop` is led by the counts alone, and stops in time
  because it meets none that is left over.
- `ChInv`: how far `NextSendSeq` may run ahead of the window, counted in flags
  not yet used up, each of which is good for one empty packet.
- `SenderInv`: what the Sender knows between its peeks and its packet stays
  true although application and Listener change the window.
- `NetInv`, `RcvInv`: packets lie one after the other, each in a place of its
  own, and the blocks and bytes of the receiver were brought by one of them.
  `altusUBCheckKeeps` carries "every block holds what packets brought" over
  `altusUBCheck` without looking into its cases again.
- `StreamInv`: as long as `Undisturbed` holds, a packet behind full packets
  carries the bytes of its positions. A packet that is not full leaves a hole
  that the receiver cannot pass.

`PoppedCorrect`, `AheadCorrect`, `StreamCorrect` and `TypeCorrect` follow.

### File streams

`FileStreamsProofs` proves the five invariants of `FileStreams` for any
streams, nodes, packets and sizes, from `FileAssumption` (packets are not longer
than nodes; the file and a window behind it are at most half of the sequence
numbers) and the assumptions of `UBList`.

- `BaseInv` (types, links inside the heap, threads) gives `PopCorrect`: between
  pop's unlocked test and its taking the node the application only pushes.
- `OwnInv` gives `OwnerCorrect`. `OneOwner` speaks of states without a
  destructor; inductive is the statement about what the destructor has not
  given away yet (`First`), that lists are at most two nodes long (`Short`) and
  pairwise disjoint (`Apart`), and that the pool that was never crowded is at
  most one node.
- `PlainInv` gives `PlaceCorrect` and `FileCorrect`. `PlainList` says that
  entries of `ub_list` are whole packets with gaps between them and that every
  packet taken is accounted for: that `CheckUB` keeps it is the longest part
  (`CheckCases`, `Joins...`). `PlainBytes` needs `OwnInv`: a packet of another
  stream writes other nodes (`OthersKeepBytes`). `PlainFile` says what any number
  of calls of `Finalize` made of the file: its beginning, once or several times.

### Windowed queue

`WindowedQueueProofs` proves the six invariants of `WindowedQueue` and the
refinement `ImplementsReassembly`, for any
windows, nodes, sizes, block lengths and list length, across any number of
wrap-rounds. They depend on one another (that `safe_tail` exists needs the
number of nodes, which needs the block list, which needs `lastSeq`), so there
is one inductive invariant, `Inv`, with four parts:

- `TypeOK`.
- `Ownership`: an allocated node is in one window or in the pool, at one place;
  the pool has a node as long as there is a window, because `altusWQNewNode`
  leaves the last one there.
- `WindowInv`, for each window: `Numbers` (lastSeq, `headDataOffset`,
  `safe_tail` and `safe_len` follow from the stream positions of reader and
  writer), `Listed` (the blocks are ahead, in order, with gaps), `Sized` (how
  many nodes there are), `Filled` (`validBlockCount`), `Bytes`.
- `Bounded`: nothing is held beyond the part of the stream explored.

The invariant is stated in stream positions: `Up(L, s)` is the position a number
`s` stands for when `lastSeq` is at `L`. The lemmas carry each function of the
code over to positions, and this is where the wrap-round is dealt with:

- `CheckSplices`: the list `altusUBCheck` returns is the old list with the
  blocks `a + 1 .. c - 1` replaced by one that covers them and the new block
  and nothing else. One lemma per way through the code (`BeforeSplices`,
  `BehindSplices`, `AppendSplices`) leads to it.
- `PutFits`, `AdvanceFits`: the number of nodes. `altusWQNewNode` is called at
  every boundary the block reaches, whether or not the next node exists, so the
  count is right only because a block that does not stray begins at most at
  the end of `safe_tail`'s node. `Fits` says what that leaves possible:
  everything waiting beyond that border is one run, there is a node for each
  of its positions and at most one more, and none more when a block begins
  exactly at the border. The last clause is what makes `Fits` inductive; it is not needed
  for any property.
- `WrittenAt`, `AdvancedAt`, `PutBytes`: where the copy loop puts each byte, and
  that the loop that moves `safe_tail` counts what was waiting.
- `PopNumbers`, `PopGives`, `PopHandsOver`: what `altusWQPop` returns are the
  next bytes, and the nodes it recycles are the ones the reader left.

`PutOwns` and `PopOwns` keep `Ownership`; `PutInv`, `PopInv` and one lemma per other
operation put the parts together, and `Invariance` combines them. For the
refinement each action is shown to be a step of `Reassembly` or to leave its
state alone (`TakesStep`, `DeliversStep`, `OpensStep`, `ClosesStep`,
`AnswersStep`).

Assumed of the constants: a window of bytes and a packet are at most half of
the sequence numbers (2^29 of 2^32 in the code), the nodes are a finite set,
and no window has the name of the pool. As everywhere in `WindowedQueue`, a behaviour ends with the
first stray write: the theorems say nothing of what follows `PutStray`, and
`window_stray` shows that the code gets there.

TLC checked `WindowInv`, `Ownership` and `Bounded` on the instance of
`window_reassembly` before they were proved.

### What the proofs found

- The bound on the explored part of an rdt stream was too small: every upload's
  flag may send one empty packet that moves `NextSendSeq`. `End` now
  counts it.
- Once the pool of the file streams was crowded its `size` may go below zero:
  a node pushed twice is linked to itself and can be popped for ever. `TypeOK`
  says so; four streams and seven lives reach it.
- `AppendUnSeq` could ask for a node where none is left; the bound `HasNode`
  now is a guard.
- The windowed queue needs a packet to be at most half of the numbers, as well as
  a window: `After` cannot tell the order of numbers further apart.
  `SizesAssumption` says so now.

### What stays with TLC

- `HandshakeCompletes`, `AttemptResolved`, `FirstUploadArrives`, `UploadArrives`,
  `WorkersEnd`, `EndsUnlessMissed`, `DestructorEnds`: liveness under fairness.
- `window_stray`'s and `file_finalize`'s counterexamples, which are about single
  behaviours.

Every invariant that a passing run checks is also a theorem, and so is the
refinement.

## 6. Limits and what is not modelled

- `WindowedQueue` takes calls one after the other. In the program
  `CreateUpstream` on the application's thread and `channel::receive` on the
  Listener's use the windows and their pool without a lock, so its theorems hold
  for a host whose calls do not overlap. For one sending window `RdtStream` shows
  at which points an overlap does harm; two uploads at once on different
  channels, which share the pool, and an application that reads a receiving
  window while the Listener puts into it are not modelled.
- `ImplementsReassembly` lets the queue refuse any block, so it does not say that
  room is made; `HandshakeOrder` speaks of everything that ever happened, so it
  does not tell a handshake from an earlier one between the same hosts;
  `RolesComplementary` excepts hosts that connected to each other.
- `HostThreads` has no `removePeer` (`ALTUSHost.h:84`: not thread safe yet).
- Simultaneous changes of one `std::map` or `std::priority_queue` by two
  threads have no defined outcome; a lookup, an insertion or a walk is one step.
- Handlers are one step in `Handshake`; the points inside them where the other
  threads of the host come in are in `HostThreads`.
- Loss in an rdt stream: the code only prints "TODO: loss handling". Shared
  structs and lossy streams: no peer makes one, and most of their branches
  are marked TODO.
- `newChannel`, `NodePool::resize`: called nowhere.
- `fileSendStream.c`, `connection.cpp`, `fileT`, start-up, logo, demonstration:
  see section 1.
- The repository carries a copy of OpenSSL, more than nine tenths of its
  lines, that nothing in `src/ALTUS/*.cpp` calls for the behaviour modelled
  here. It is not part of the system; of the program's own 2700 lines of C and C++
  (headers, comments and the demonstration included, `fileSendStream`, which is
  commented out, not) the map names more than half.
