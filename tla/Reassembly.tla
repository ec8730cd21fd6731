----------------------------- MODULE Reassembly -----------------------------
(***************************************************************************)
(* What a windowed queue promises its callers: blocks of a byte stream may *)
(* be put in any order, a block is taken over whole or not at all, no byte *)
(* is taken over twice, and the bytes come out in order, once, unaltered.  *)
(* Nodes, offsets, counters and 32-bit numbers are not part of the promise.*)
(***************************************************************************)
EXTENDS Integers, Sequences

CONSTANTS
    Windows,  \* identities of queues
    MaxPos    \* bound: end of the part of the streams that is explored

VARIABLES
    stream,   \* per open queue: positions held, and position of the reader
    ret       \* the result of the last call

Interval(pos, length) == pos .. (pos + length - 1)

Init ==
    /\ stream = << >>
    /\ ret \in [win : Windows, code : {0}, bytes : {<< >>}]

Open(w) ==
    /\ w \notin DOMAIN stream
    /\ stream' = [x \in DOMAIN stream \cup {w} |->
                     IF x = w THEN [held |-> {}, read |-> 0] ELSE stream[x]]
    /\ UNCHANGED ret

Close(w) ==
    /\ w \in DOMAIN stream
    /\ stream' = [x \in DOMAIN stream \ {w} |-> stream[x]]
    /\ UNCHANGED ret

\* A block that begins at or behind the reader and of which nothing is held.
Accept(w) ==
    /\ w \in DOMAIN stream
    /\ \E pos \in stream[w].read .. MaxPos : \E length \in 0 .. (MaxPos - pos) :
        /\ Interval(pos, length) \cap stream[w].held = {}
        /\ stream' = [stream EXCEPT ![w].held = @ \cup Interval(pos, length)]
    /\ ret' = [win |-> w, code |-> 0, bytes |-> << >>]

\* A refused block, or a call that only looks at the queue, changes nothing.
Answer(w) ==
    /\ w \in DOMAIN stream
    /\ ret' = [win |-> w, code |-> ret'.code, bytes |-> << >>]
    /\ ret'.code \in Int
    /\ UNCHANGED stream

\* The next bytes of the stream, in order, leave the queue.
Deliver(w) ==
    /\ w \in DOMAIN stream
    /\ \E n \in 0 .. MaxPos :
        LET next == Interval(stream[w].read, n)
        IN  /\ next \subseteq stream[w].held
            /\ stream' = [stream EXCEPT ![w].held = @ \ next, ![w].read = @ + n]
            /\ ret' = [win |-> w, code |-> n,
                       bytes |-> [j \in 1 .. n |-> stream[w].read + j - 1]]

Next == \E w \in Windows : Open(w) \/ Close(w) \/ Accept(w) \/ Answer(w) \/ Deliver(w)

Spec == Init /\ [][Next]_<< stream, ret >>
=============================================================================
