---------------------------- MODULE HostThreads ----------------------------
(***************************************************************************)
(* The threads of one ALTUSHost: run starts Listener, Connecter and        *)
(* Sender, the destructor ends them, joins them one after the other and    *)
(* deletes in between what they share.  The module Handshake models what   *)
(* a datagram or a retry does; here a thread's loop is cut where another   *)
(* thread can come in: at the test of _IsAlive, at recvfrom, between       *)
(* popCPrePeer and the write to what it returned, between the test for an  *)
(* empty queue and the wait, and at every Sleep.                           *)
(*                                                                         *)
(* One remote address stands for all.  A use of an object that is deleted, *)
(* freed or closed is recorded in "misuse".  From a use of freed memory, or *)
(* a pop of an empty queue, what the program does is undefined: the values *)
(* read are arbitrary, the thread goes on or does not, and no thread is    *)
(* sure to take another step (see Fairness).                               *)
(***************************************************************************)
EXTENDS Integers, FiniteSets

CONSTANTS
    RetryCount,  \* ConnectRetryCount: 3 in the code
    MaxAttempts  \* bound: calls of connect

ASSUME ThreadsAssumption == RetryCount \in Nat \ {0} /\ MaxAttempts \in Nat

VARIABLES
    alive,       \* _IsAlive
    dtor,        \* how far the destructor is
    listener,    \* where the Listener thread is
    popped,      \* the attempt popCPrePeer gave it
    connecter,   \* where the Connecter thread is
    top,         \* the entry of the queue it sleeps for
    sender,      \* where the Sender thread is
    attempt,     \* every ALTUS_CPrePeer
    c_prepeer,   \* the one in c_prepeers, or None
    RetryQueue,  \* entries: the attempt, and which of its retries
    peer,        \* the ALTUSPeer in peers
    shared,      \* the socket and the pools
    misuse       \* history: << thread, object >> used after its end

vars == << alive, dtor, listener, popped, connecter, top, sender, attempt,
           c_prepeer, RetryQueue, peer, shared, misuse >>

-----------------------------------------------------------------------------
None == 0
Attempts == 1 .. MaxAttempts
Entry == [id : Attempts, turn : 1 .. RetryCount]
NoEntry == [id |-> None, turn |-> None]

Init ==
    /\ alive = FALSE
    /\ dtor = "none"
    /\ listener = "off" /\ popped = None
    /\ connecter = "off" /\ top = NoEntry
    /\ sender = "off"
    /\ attempt = [k \in Attempts |-> "unused"]
    /\ c_prepeer = None
    /\ RetryQueue = {}
    /\ peer = "none"
    /\ shared = [socket |-> "live", pools |-> "live"]
    /\ misuse = {}

\* what a use by thread t of objects in state "gone" adds to the history
Uses(t, objects) == misuse' = misuse \cup {<< t, o >> : o \in objects}
Gone == {o \in {"socket", "pools"} : shared[o] = "gone"}
        \cup (IF peer = "gone" THEN {"peer"} ELSE {})
AttemptGone(k) == IF attempt[k] = "gone" THEN {"attempt"} ELSE {}

\* Something undefined was done.  (A closed socket only returns an error.)
Undefined == \E m \in misuse : m[2] # "socket"

-----------------------------------------------------------------------------
(* The application.                                                        *)

\* run; a second call assigns to a std::thread that runs, which terminates
Run ==
    /\ dtor = "none"
    /\ IF listener = "off"
       THEN /\ alive' = TRUE
            /\ listener' = "loop" /\ connecter' = "loop" /\ sender' = "loop"
            /\ dtor' = dtor
       ELSE /\ dtor' = "terminated"
            /\ UNCHANGED << alive, listener, connecter, sender >>
    /\ UNCHANGED << popped, top, attempt, c_prepeer, RetryQueue, peer, shared, misuse >>

\* Mutant: the loop that fills the queue counts from 0.
Retries_FromZero(k) == {[id |-> k, turn |-> i] : i \in 0 .. RetryCount}

\* the entries connect puts into the queue
Retries(k) == {[id |-> k, turn |-> i] : i \in 1 .. RetryCount}

\* connect: connecterCond is not notified
Connect(k) ==
    /\ dtor = "none"
    /\ c_prepeer = None
    /\ attempt[k] = "unused" /\ \A j \in Attempts : j < k => attempt[j] # "unused"
    /\ attempt' = [attempt EXCEPT ![k] = "live"]
    /\ c_prepeer' = k
    /\ RetryQueue' = RetryQueue \cup Retries(k)
    /\ UNCHANGED << alive, dtor, listener, popped, connecter, top, sender, peer, shared, misuse >>

FlushRetryQueue ==
    /\ dtor = "none"
    /\ RetryQueue' = {}
    /\ UNCHANGED << alive, dtor, listener, popped, connecter, top, sender, attempt,
                    c_prepeer, peer, shared, misuse >>

-----------------------------------------------------------------------------
(* The Listener thread.                                                    *)

ListenerUnchanged ==
    UNCHANGED << alive, dtor, connecter, top, sender, RetryQueue, shared >>

ListenerLoop ==
    /\ listener = "loop"
    /\ listener' = IF alive THEN "recv" ELSE "ended"
    /\ ListenerUnchanged /\ UNCHANGED << popped, attempt, c_prepeer, peer, misuse >>

\* Mutant: recvfrom has no timeout.
RecvTimesOut_Never == FALSE

\* SO_RCVTIMEO: recvfrom returns after a second at the latest.
RecvTimesOut == listener = "recv"

ListenerTimeout ==
    /\ RecvTimesOut
    /\ listener' = "loop"
    /\ ListenerUnchanged /\ UNCHANGED << popped, attempt, c_prepeer, peer, misuse >>

ListenerDatagram ==
    /\ listener = "recv"
    /\ listener' = "handle"
    /\ ListenerUnchanged /\ UNCHANGED << popped, attempt, c_prepeer, peer, misuse >>

\* The datagram comes from a peer, or accepter makes one of the sender (or
\* does not), or TryCompleteConnection takes the attempt out of the map and
\* goes on with it (or does not, when the datagram is not the reply).
ListenerHandle ==
    /\ listener = "handle"
    /\ \/ /\ peer # "none" \/ c_prepeer = None
          /\ peer' \in IF peer = "none" THEN {"none", "live"} ELSE {peer}
          /\ listener' = "loop"
          /\ UNCHANGED << popped, c_prepeer >>
       \/ /\ peer = "none" /\ c_prepeer # None
          /\ popped' = c_prepeer
          /\ c_prepeer' = None
          /\ listener' \in {"loop", "write"}
          /\ UNCHANGED peer
    /\ Uses("listener", Gone)
    /\ ListenerUnchanged /\ UNCHANGED attempt

\* Expired = true, the session key is written and the peer is made.
ListenerWrite ==
    /\ listener = "write"
    /\ attempt' = [attempt EXCEPT ![popped] = IF @ = "gone" THEN @ ELSE "expired"]
    /\ peer' = "live"
    /\ listener' = "loop"
    /\ Uses("listener", Gone \cup AttemptGone(popped))
    /\ ListenerUnchanged /\ UNCHANGED << popped, c_prepeer >>

-----------------------------------------------------------------------------
(* The Connecter thread.                                                   *)

ConnecterUnchanged == UNCHANGED << alive, dtor, listener, popped, sender, peer, shared >>

\* the entry whose time comes first, see Handshake
IsTop(e) ==
    /\ e \in RetryQueue
    /\ \A f \in RetryQueue : f.id <= e.id /\ f.turn <= e.turn => f = e

\* Connecter goes to sleep until the time of the top entry.
Sleeps ==
    \E e \in RetryQueue : IsTop(e) /\ top' = e /\ connecter' = "sleep"

ConnecterLoop ==
    /\ connecter = "loop"
    /\ \/ ~alive /\ connecter' = "ended" /\ UNCHANGED top
       \/ alive /\ RetryQueue = {} /\ connecter' = "empty" /\ UNCHANGED top
       \/ alive /\ Sleeps
    /\ ConnecterUnchanged /\ UNCHANGED << attempt, c_prepeer, RetryQueue, misuse >>

\* The queue was empty: neither it nor _IsAlive is looked at again before the
\* wait.
ConnecterWaits ==
    /\ connecter = "empty"
    /\ connecter' = "wait"
    /\ ConnecterUnchanged /\ UNCHANGED << top, attempt, c_prepeer, RetryQueue, misuse >>

SpuriousWakeup ==
    /\ connecter = "wait"
    /\ connecter' = "woken"
    /\ ConnecterUnchanged /\ UNCHANGED << top, attempt, c_prepeer, RetryQueue, misuse >>

ConnecterWoken ==
    /\ connecter = "woken"
    /\ \/ RetryQueue = {} /\ connecter' = "ended" /\ UNCHANGED top
       \/ Sleeps
    /\ ConnecterUnchanged /\ UNCHANGED << attempt, c_prepeer, RetryQueue, misuse >>

\* Mutant: the last but one retry deletes the attempt.
Expiring_Early == top.turn >= RetryCount - 1

\* peerTime >= ConnectExpireTime
Expiring == top.turn >= RetryCount

\* The time has come: skip an attempt that was answered, delete one at its
\* end, or send again; then pop whatever is on top.  Of an attempt that was
\* deleted anything may be read: whether it was answered, when it began and
\* the address under which c_prepeers has it.
ConnecterActs ==
    /\ connecter = "sleep"
    /\ connecter' = "loop"
    /\ top' = NoEntry
    /\ \E done, expiring \in BOOLEAN :
        /\ attempt[top.id] # "gone" =>
              done = (attempt[top.id] = "expired") /\ expiring = Expiring
        /\ IF done \/ ~expiring THEN UNCHANGED << attempt, c_prepeer >>
           ELSE /\ attempt' = [attempt EXCEPT ![top.id] = "gone"]
                /\ c_prepeer' \in {None} \cup (IF attempt[top.id] = "gone" THEN {c_prepeer} ELSE {})
        /\ Uses("connecter", AttemptGone(top.id)
                             \cup (IF RetryQueue = {} THEN {"queue"} ELSE {})
                             \cup (IF done \/ expiring THEN {} ELSE Gone \cap {"socket"}))
    /\ IF top \in RetryQueue THEN RetryQueue' = RetryQueue \ {top}
       ELSE IF RetryQueue = {} THEN RetryQueue' = {}
       ELSE \E e \in RetryQueue : IsTop(e) /\ RetryQueue' = RetryQueue \ {e}
    /\ ConnecterUnchanged

-----------------------------------------------------------------------------
(* The Sender thread.                                                      *)

SenderUnchanged ==
    UNCHANGED << alive, dtor, listener, popped, connecter, top, attempt,
                 c_prepeer, RetryQueue, peer, shared >>

SenderLoop ==
    /\ sender = "loop"
    /\ sender' = IF alive THEN "send" ELSE "ended"
    /\ SenderUnchanged /\ UNCHANGED misuse

\* Send of every peer, then Sleep(300)
SenderSends ==
    /\ sender = "send"
    /\ sender' = "loop"
    /\ Uses("sender", IF peer = "none" THEN {} ELSE Gone)
    /\ SenderUnchanged

-----------------------------------------------------------------------------
(* The destructor.                                                         *)

DtorUnchanged ==
    UNCHANGED << listener, popped, top, sender, RetryQueue, misuse >>

\* _IsAlive = false; a thread that never ran cannot be joined, and a destructor
\* that throws terminates the program.
Destroy ==
    /\ dtor = "none"
    /\ alive' = FALSE
    /\ dtor' = IF listener = "off" THEN "terminated" ELSE "joinListener"
    /\ DtorUnchanged /\ UNCHANGED << connecter, attempt, c_prepeer, peer, shared >>

\* Mutant: the destructor does not wait for the Listener.
Joined_NotListener(thread) == thread # listener => thread = "ended"

\* join returns when the thread has ended.
Joined(thread) == thread = "ended"

JoinListener ==
    /\ dtor = "joinListener"
    /\ Joined(listener)
    /\ dtor' = "delete"
    /\ shared' = [shared EXCEPT !.socket = "gone"]
    /\ DtorUnchanged /\ UNCHANGED << alive, connecter, attempt, c_prepeer, peer >>

\* the peers, and the attempts that are in the map; the maps keep the pointers
DeleteObjects ==
    /\ dtor = "delete"
    /\ dtor' = "notify"
    /\ peer' = IF peer = "live" THEN "gone" ELSE peer
    /\ attempt' = [k \in Attempts |-> IF k = c_prepeer THEN "gone" ELSE attempt[k]]
    /\ DtorUnchanged /\ UNCHANGED << alive, connecter, c_prepeer, shared >>

\* Mutant: notify_all is left out, as the line commented out above it.
Notified_None == connecter

\* connecterCond.notify_all: a thread that is not waiting yet hears nothing.
Notified == IF connecter = "wait" THEN "woken" ELSE connecter

Notify ==
    /\ dtor = "notify"
    /\ dtor' = "joinConnecter"
    /\ connecter' = Notified
    /\ DtorUnchanged /\ UNCHANGED << alive, attempt, c_prepeer, peer, shared >>

JoinConnecter ==
    /\ dtor = "joinConnecter"
    /\ Joined(connecter)
    /\ dtor' = "joinSender"
    /\ DtorUnchanged /\ UNCHANGED << alive, connecter, attempt, c_prepeer, peer, shared >>

\* Mutant: the pools are freed before the Sender has ended.
FreePools_Early ==
    /\ dtor = "joinSender"
    /\ dtor' = "done"
    /\ shared' = [shared EXCEPT !.pools = "gone"]
    /\ DtorUnchanged /\ UNCHANGED << alive, connecter, attempt, c_prepeer, peer >>

\* senderThread.join(), altusFreeP(pool), delete newPool
FreePools ==
    /\ dtor = "joinSender"
    /\ Joined(sender)
    /\ dtor' = "done"
    /\ shared' = [shared EXCEPT !.pools = "gone"]
    /\ DtorUnchanged /\ UNCHANGED << alive, connecter, attempt, c_prepeer, peer >>

-----------------------------------------------------------------------------
Application == Run \/ FlushRetryQueue \/ Destroy \/ \E k \in Attempts : Connect(k)
Listener == ListenerLoop \/ ListenerTimeout \/ ListenerHandle \/ ListenerWrite
Connecter == ConnecterLoop \/ ConnecterWaits \/ ConnecterWoken \/ ConnecterActs
Sender == SenderLoop \/ SenderSends
Destructor == JoinListener \/ DeleteObjects \/ Notify \/ JoinConnecter \/ FreePools

Next ==
    /\ dtor # "terminated"
    /\ \/ Application \/ Listener \/ Connecter \/ Sender \/ Destructor
       \/ ListenerDatagram \/ SpuriousWakeup

Spec == Init /\ [][Next]_vars

\* The operating system runs every thread that can go on, and recvfrom times
\* out.  No datagram, call or spurious wakeup need ever come.  After something
\* undefined nothing need happen any more: a thread may hang, or the program
\* be ended.
Fairness ==
    /\ WF_vars(~Undefined /\ Next /\ Listener)
    /\ WF_vars(~Undefined /\ Next /\ Connecter)
    /\ WF_vars(~Undefined /\ Next /\ Sender)
    /\ WF_vars(~Undefined /\ Next /\ Destructor)

FairSpec == Spec /\ Fairness

-----------------------------------------------------------------------------
(* Properties.                                                             *)

\* Threads and objects are in one of the states the code distinguishes.
TypeOK ==
    /\ alive \in BOOLEAN
    /\ dtor \in {"none", "joinListener", "delete", "notify", "joinConnecter",
                 "joinSender", "done", "terminated"}
    /\ listener \in {"off", "loop", "recv", "handle", "write", "ended"}
    /\ connecter \in {"off", "loop", "empty", "wait", "woken", "sleep", "ended"}
    /\ sender \in {"off", "loop", "send", "ended"}
    /\ popped \in Attempts \cup {None} /\ c_prepeer \in Attempts \cup {None}
    /\ top \in Entry \cup {NoEntry}
    /\ attempt \in [Attempts -> {"unused", "live", "expired", "gone"}]
    /\ RetryQueue \subseteq Entry
    /\ peer \in {"none", "live", "gone"}
    /\ shared \in [socket : {"live", "gone"}, pools : {"live", "gone"}]
    /\ misuse \subseteq {"listener", "connecter", "sender"}
                        \X {"socket", "pools", "peer", "attempt", "queue"}

\* The destructor takes nothing away from the Listener: it never uses a peer
\* that was deleted, the closed socket or a pool that was freed.
ListenerUsesLive == misuse \cap ({"listener"} \X {"peer", "socket", "pools"}) = {}

\* No thread uses the pools after they were freed, although the Sender still
\* runs while the peers are being deleted.
PoolsOutliveThreads == misuse \cap ({"listener", "connecter", "sender"} \X {"pools"}) = {}

\* Until the destructor starts deleting, Connecter never reads a pre-peer that
\* it deleted, whatever the Listener and the application do between its
\* Sleep and its pop.
ConnecterReadsLive ==
    dtor \in {"none", "joinListener", "delete"} => << "connecter", "attempt" >> \notin misuse

\* The threads that only look at _IsAlive end once it is false, unless
\* something undefined was done: Connecter uses a deleted pre-peer or an empty
\* queue, or the Sender a peer that the destructor deletes beside it.
WorkersEnd ==
    dtor = "joinListener" ~> (listener = "ended" /\ sender = "ended") \/ Undefined

\* The destructor ends, unless it notified Connecter between Connecter's test
\* for an empty queue and its wait, or something undefined was done.  (The
\* latter is the case of a retry queue that is not empty, which the code marks
\* as not handled: Connecter sleeps while its pre-peer is deleted.)
EndsUnlessMissed ==
    dtor = "notify" /\ connecter # "empty" ~> dtor = "done" \/ Undefined

-----------------------------------------------------------------------------
(* What comments say and the code does not do.                             *)

\* main: "wait until this destruction ends": the destructor ends (as long as
\* nothing undefined was done before).
DestructorEnds == dtor = "joinListener" ~> dtor = "done" \/ Undefined
=============================================================================
