----------------------------- MODULE Handshake -----------------------------
(***************************************************************************)
(* Connection set-up between ALTUS hosts (ALTUSHost.cpp): a client sends   *)
(* its public key in pages A and B, the server answers Y with the session  *)
(* key, the client answers Z; each side turns its pre-peer into a peer.    *)
(* A host is its own address and may be client and server at once.         *)
(*                                                                         *)
(* One handling of a datagram by the Listener thread, one iteration of the *)
(* Connecter thread after its Sleep and one call of the application is one *)
(* step.  Keys and session keys carry no information here: which pages of  *)
(* the key arrived is kept.  The key has ALTUS_RSA_KEY_SIZE = 700 bytes,   *)
(* that is two pages, so the branches for one, three and four pages are    *)
(* never taken.                                                            *)
(***************************************************************************)
EXTENDS Integers, FiniteSets

CONSTANTS
    Hosts,       \* hosts, by address
    Links,       \* << h, a >>: the application of h may call connect(a)
    RetryCount,  \* ConnectRetryCount: 3 in the code
    Faults,      \* what the surroundings may do, see FaultKinds
    Calls,       \* what the applications may call besides connect
    MaxAttempts, \* bound: calls of connect on one host
    MaxPeid      \* bound: peer identifiers of one host

FaultKinds == {"lose", "duplicate", "delay", "age", "wakeup"}
CallKinds == {"accept", "remove", "flush"}

ASSUME LinksAssumption == \A l \in Links : l \in Hosts \X Hosts /\ l[1] # l[2]
ASSUME CountsAssumption ==
    RetryCount \in Nat \ {0} /\ MaxAttempts \in Nat /\ MaxPeid \in Nat
ASSUME KindsAssumption == Faults \subseteq FaultKinds /\ Calls \subseteq CallKinds

VARIABLES
    net,         \* datagrams in flight
    c_prepeers,  \* per host and address: the attempt to connect, or None
    attempt,     \* per host: every ALTUS_CPrePeer it made
    RetryQueue,  \* per host: the retries that are due at some time
    connecter,   \* per host: the Connecter thread
    s_prepeers,  \* per host and address: the ALTUS_SPrePeer, or NoPrePeer
    peers,       \* per host and address: the side this host is on, or "none"
    peid_peer,   \* per host: pairs << peid, address >>
    lastpeid,    \* per host
    accepting,   \* per host: _IsAccepting
    log          \* history: << event, host, other host >>

vars == << net, c_prepeers, attempt, RetryQueue, connecter,
           s_prepeers, peers, peid_peer, lastpeid, accepting, log >>

-----------------------------------------------------------------------------
Pages == {"A", "B"}
Datagram == [src : Hosts, dst : Hosts, page : Pages \cup {"Y", "Z"}]

None == 0
Attempts == 1 .. MaxAttempts
Peids == 1 .. MaxPeid

\* ALTUS_CPrePeer: "live" until a reply came (Expired = true) or it was deleted
AttemptState == {"unused", "live", "expired", "deleted"}

\* ALTUS_SPrePeer; old: made more than ALTUS_HANDSHAKE_WAITTIME ago
PrePeer == [pages : SUBSET Pages, IsAckSent : BOOLEAN, old : BOOLEAN]
NoPrePeer == [pages |-> {}, IsAckSent |-> FALSE, old |-> FALSE]

\* An entry of RetryQuque: it points to an attempt, whose remoteAddr is "to",
\* and its time is the attempt's starttime + turn * ConnectWaitTime.
Retry == [id : Attempts, to : Hosts, turn : 1 .. RetryCount]

Events == {"connect", "ack", "complete", "accept"}

Init ==
    /\ net = {}
    /\ c_prepeers = [h \in Hosts |-> [a \in Hosts |-> None]]
    /\ attempt = [h \in Hosts |-> [k \in Attempts |-> "unused"]]
    /\ RetryQueue = [h \in Hosts |-> {}]
    /\ connecter = [h \in Hosts |-> "running"]
    /\ s_prepeers = [h \in Hosts |-> [a \in Hosts |-> NoPrePeer]]
    /\ peers = [h \in Hosts |-> [a \in Hosts |-> "none"]]
    /\ peid_peer = [h \in Hosts |-> {}]
    /\ lastpeid = [h \in Hosts |-> 0]
    /\ accepting = [h \in Hosts |-> TRUE]
    /\ log = {}

-----------------------------------------------------------------------------
(* The client's side.                                                      *)

\* SendHandShake1: all pages of the key
HandShake1(h, a) == {[src |-> h, dst |-> a, page |-> p] : p \in Pages}

\* Mutant: the loop that fills the queue counts from 0.
Retries_FromZero(k, a) == {[id |-> k, to |-> a, turn |-> i] : i \in 0 .. RetryCount}

\* the entries connect puts into the queue
Retries(k, a) == {[id |-> k, to |-> a, turn |-> i] : i \in 1 .. RetryCount}

\* connect: nothing is done while an attempt to that address is in the map.
\* Whether a peer with that address exists is not looked at.
Connect(h, a) ==
    /\ << h, a >> \in Links
    /\ c_prepeers[h][a] = None
    /\ \E k \in Attempts :
        /\ attempt[h][k] = "unused"
        /\ \A j \in Attempts : j < k => attempt[h][j] # "unused"
        /\ attempt' = [attempt EXCEPT ![h][k] = "live"]
        /\ c_prepeers' = [c_prepeers EXCEPT ![h][a] = k]
        /\ RetryQueue' = [RetryQueue EXCEPT ![h] = @ \cup Retries(k, a)]
    /\ net' = net \cup HandShake1(h, a)
    /\ log' = log \cup {<< "connect", h, a >>}
    /\ UNCHANGED << connecter, s_prepeers, peers, peid_peer, lastpeid, accepting >>

\* The entry of the queue whose time comes first, and that has come.  Attempts
\* are numbered in the order of their starttime.  Without delays every datagram
\* is handled within ConnectWaitTime.
IsTop(h, e) ==
    /\ e \in RetryQueue[h]
    /\ \A f \in RetryQueue[h] : f.id <= e.id /\ f.turn <= e.turn => f = e
    /\ "delay" \in Faults \/ net = {}

\* Mutant: the last but one entry of an attempt deletes it.
Expires_Early(e) == e.turn >= RetryCount - 1

\* peerTime >= ConnectExpireTime
Expires(e) == e.turn >= RetryCount

Popped(h, e) == [RetryQueue EXCEPT ![h] = @ \ {e}]

\* Connecter finds the queue empty and waits for connecterCond, which connect
\* does not notify.
ConnecterWaits(h) ==
    /\ connecter[h] = "running"
    /\ RetryQueue[h] = {}
    /\ connecter' = [connecter EXCEPT ![h] = "waiting"]
    /\ UNCHANGED << net, c_prepeers, attempt, RetryQueue, s_prepeers, peers,
                    peid_peer, lastpeid, accepting, log >>

\* A spurious wakeup: an empty queue is taken for the end of the host.
ConnecterWakes(h) ==
    /\ "wakeup" \in Faults
    /\ connecter[h] = "waiting"
    /\ connecter' = [connecter EXCEPT ![h] =
                        IF RetryQueue[h] = {} THEN "ended" ELSE "running"]
    /\ UNCHANGED << net, c_prepeers, attempt, RetryQueue, s_prepeers, peers,
                    peid_peer, lastpeid, accepting, log >>

\* The entry of an attempt that was answered is dropped.
ConnecterSkips(h, e) ==
    /\ connecter[h] = "running"
    /\ IsTop(h, e)
    /\ attempt[h][e.id] = "expired"
    /\ RetryQueue' = Popped(h, e)
    /\ UNCHANGED << net, c_prepeers, attempt, connecter, s_prepeers, peers,
                    peid_peer, lastpeid, accepting, log >>

\* The last entry of an attempt: the attempt is deleted, and whatever attempt
\* the map holds for that address is erased.
ConnecterExpires(h, e) ==
    /\ connecter[h] = "running"
    /\ IsTop(h, e)
    /\ attempt[h][e.id] # "expired"
    /\ Expires(e)
    /\ c_prepeers' = [c_prepeers EXCEPT ![h][e.to] = None]
    /\ attempt' = [attempt EXCEPT ![h][e.id] = "deleted"]
    /\ RetryQueue' = Popped(h, e)
    /\ UNCHANGED << net, connecter, s_prepeers, peers, peid_peer, lastpeid, accepting, log >>

\* Another entry: the pages are sent again if the map holds an attempt for
\* that address.
ConnecterResends(h, e) ==
    /\ connecter[h] = "running"
    /\ IsTop(h, e)
    /\ attempt[h][e.id] # "expired"
    /\ ~Expires(e)
    /\ net' = IF c_prepeers[h][e.to] = None THEN net ELSE net \cup HandShake1(h, e.to)
    /\ RetryQueue' = Popped(h, e)
    /\ UNCHANGED << c_prepeers, attempt, connecter, s_prepeers, peers,
                    peid_peer, lastpeid, accepting, log >>

-----------------------------------------------------------------------------
(* Peers.                                                                  *)

Ids(h) == {p[1] : p \in peid_peer[h]}

\* The first identifier behind lastpeid that is not in use.
IsNewPeid(h, id) ==
    /\ id \in Peids
    /\ id > lastpeid[h]
    /\ id \notin Ids(h)
    /\ \A j \in (lastpeid[h] + 1) .. (id - 1) : j \in Ids(h)

\* insertion into peers and peid_peer, by prepeerToPeer and TryCompleteConnection
NewPeer(h, a, side) ==
    /\ peers' = [peers EXCEPT ![h][a] = side]
    /\ \E id \in Peids :
        /\ IsNewPeid(h, id)
        /\ lastpeid' = [lastpeid EXCEPT ![h] = id]
        /\ peid_peer' = [peid_peer EXCEPT ![h] = @ \cup {<< id, a >>}]

\* Mutant: both constructors make the same channels.
Receiving_Same(side) == {0, 2}

\* The channels the constructors of ALTUSPeer make: identifiers to receive on,
\* and to send on.
Receiving(side) == IF side = "server" THEN {0, 2} ELSE {1, 3}
Sending(side) == IF side = "server" THEN {1, 3} ELSE {0, 2}

\* Mutant: the peer stays reachable under its identifier.
RemovedIds_Kept(h, p) == peid_peer[h]

RemovedIds(h, p) == peid_peer[h] \ {p}

\* removePeer, called by the application
RemovePeer(h, p) ==
    /\ "remove" \in Calls
    /\ p \in peid_peer[h]
    /\ peers' = [peers EXCEPT ![h][p[2]] = "none"]
    /\ peid_peer' = [peid_peer EXCEPT ![h] = RemovedIds(h, p)]
    /\ UNCHANGED << net, c_prepeers, attempt, RetryQueue, connecter,
                    s_prepeers, lastpeid, accepting, log >>

-----------------------------------------------------------------------------
(* The Listener thread: a datagram m for the host m.dst.                   *)

\* The datagram leaves the network, unless copies of it keep coming, and the
\* answer enters it.  (With "duplicate", a datagram that is lost is one that is
\* never taken.)
Handled(m, answer) ==
    net' = (IF "duplicate" \in Faults THEN net ELSE net \ {m}) \cup answer

Reply(m, page) == {[src |-> m.dst, dst |-> m.src, page |-> page]}

\* The sender is a peer: processPacket looks for a channel that is never there
\* and the datagram is dropped.
DropFromPeer(m) ==
    /\ peers[m.dst][m.src] # "none"
    /\ Handled(m, {})
    /\ UNCHANGED << c_prepeers, attempt, RetryQueue, connecter, s_prepeers, peers,
                    peid_peer, lastpeid, accepting, log >>

\* Mutant: every datagram completes the connection.
IsAck_Any(m) == TRUE

\* "ALTUS/1.0Y" and a session key
IsAck(m) == m.page = "Y"

\* TryCompleteConnection: the attempt is taken out of the map whatever the
\* datagram is.
TryCompleteFails(m) ==
    /\ peers[m.dst][m.src] = "none"
    /\ c_prepeers[m.dst][m.src] # None
    /\ ~IsAck(m)
    /\ c_prepeers' = [c_prepeers EXCEPT ![m.dst][m.src] = None]
    /\ Handled(m, {})
    /\ UNCHANGED << attempt, RetryQueue, connecter, s_prepeers, peers, peid_peer,
                    lastpeid, accepting, log >>

TryComplete(m) ==
    /\ peers[m.dst][m.src] = "none"
    /\ c_prepeers[m.dst][m.src] # None
    /\ IsAck(m)
    /\ attempt' = [attempt EXCEPT ![m.dst][c_prepeers[m.dst][m.src]] = "expired"]
    /\ c_prepeers' = [c_prepeers EXCEPT ![m.dst][m.src] = None]
    /\ NewPeer(m.dst, m.src, "client")
    /\ Handled(m, Reply(m, "Z"))
    /\ log' = log \cup {<< "complete", m.dst, m.src >>}
    /\ UNCHANGED << RetryQueue, connecter, s_prepeers, accepting >>

\* accepter is reached
Accepts(m) ==
    /\ peers[m.dst][m.src] = "none"
    /\ c_prepeers[m.dst][m.src] = None
    /\ accepting[m.dst]

\* the pre-peer accepter goes on with: one that timed out is deleted first
Current(m) ==
    LET p == s_prepeers[m.dst][m.src] IN IF p.old THEN NoPrePeer ELSE p

Declined(m) ==
    /\ peers[m.dst][m.src] = "none"
    /\ c_prepeers[m.dst][m.src] = None
    /\ ~accepting[m.dst]
    /\ Handled(m, {})
    /\ UNCHANGED << c_prepeers, attempt, RetryQueue, connecter, s_prepeers, peers,
                    peid_peer, lastpeid, accepting, log >>

\* No pre-peer: a page of a key makes one.  The key size of Y and Z is 0 and
\* they are refused.
AcceptFirst(m) ==
    /\ Accepts(m)
    /\ Current(m) = NoPrePeer
    /\ s_prepeers' = [s_prepeers EXCEPT ![m.dst][m.src] =
                         IF m.page \in Pages
                         THEN [pages |-> {m.page}, IsAckSent |-> FALSE, old |-> FALSE]
                         ELSE NoPrePeer]
    /\ Handled(m, {})
    /\ UNCHANGED << c_prepeers, attempt, RetryQueue, connecter, peers,
                    peid_peer, lastpeid, accepting, log >>

\* Mutant: the key is complete when all of the pages A, B, C, D came.
KeyComplete_Four(pages) == {"A", "B", "C", "D"} \subseteq pages

\* keySize < 968 and (A or B)
KeyComplete(pages) == "A" \in pages \/ "B" \in pages

\* the Z that ends the handshake
IsDone(m) == m.page = "Z" /\ Current(m).IsAckSent

\* Any later datagram but the Z that ends the handshake: note the page, and
\* acknowledge.
AcceptPage(m) ==
    /\ Accepts(m)
    /\ Current(m) # NoPrePeer
    /\ ~IsDone(m)
    /\ LET pages == Current(m).pages \cup ({m.page} \cap Pages)
       IN  /\ s_prepeers' = [s_prepeers EXCEPT ![m.dst][m.src] =
                    [pages |-> pages, old |-> FALSE,
                     IsAckSent |-> Current(m).IsAckSent \/ KeyComplete(pages)]]
           /\ Handled(m, IF KeyComplete(pages) THEN Reply(m, "Y") ELSE {})
           /\ log' = IF KeyComplete(pages)
                     THEN log \cup {<< "ack", m.dst, m.src >>} ELSE log
    /\ UNCHANGED << c_prepeers, attempt, RetryQueue, connecter, peers,
                    peid_peer, lastpeid, accepting >>

\* prepeerToPeer
AcceptDone(m) ==
    /\ Accepts(m)
    /\ Current(m) # NoPrePeer
    /\ IsDone(m)
    /\ s_prepeers' = [s_prepeers EXCEPT ![m.dst][m.src] = NoPrePeer]
    /\ NewPeer(m.dst, m.src, "server")
    /\ Handled(m, {})
    /\ log' = log \cup {<< "accept", m.dst, m.src >>}
    /\ UNCHANGED << c_prepeers, attempt, RetryQueue, connecter, accepting >>

Receive(m) ==
    \/ DropFromPeer(m) \/ TryCompleteFails(m) \/ TryComplete(m) \/ Declined(m)
    \/ AcceptFirst(m) \/ AcceptPage(m) \/ AcceptDone(m)

-----------------------------------------------------------------------------
(* The rest of the application's calls, and the surroundings.              *)

\* keep_accept and decline_accept
SetAccepting(h) ==
    /\ "accept" \in Calls
    /\ accepting' = [accepting EXCEPT ![h] = ~@]
    /\ UNCHANGED << net, c_prepeers, attempt, RetryQueue, connecter,
                    s_prepeers, peers, peid_peer, lastpeid, log >>

FlushRetryQueue(h) ==
    /\ "flush" \in Calls
    /\ RetryQueue' = [RetryQueue EXCEPT ![h] = {}]
    /\ UNCHANGED << net, c_prepeers, attempt, connecter, s_prepeers, peers,
                    peid_peer, lastpeid, accepting, log >>

Lose(m) ==
    /\ "lose" \in Faults
    /\ net' = net \ {m}
    /\ UNCHANGED << c_prepeers, attempt, RetryQueue, connecter, s_prepeers, peers,
                    peid_peer, lastpeid, accepting, log >>

\* ALTUS_HANDSHAKE_WAITTIME passes before the handshake ends.
PrePeerAges(h, a) ==
    /\ "age" \in Faults
    /\ s_prepeers[h][a] # NoPrePeer
    /\ s_prepeers' = [s_prepeers EXCEPT ![h][a] =
                         [pages |-> @.pages, IsAckSent |-> @.IsAckSent, old |-> TRUE]]
    /\ UNCHANGED << net, c_prepeers, attempt, RetryQueue, connecter, peers,
                    peid_peer, lastpeid, accepting, log >>

ConnecterStep(h) ==
    \/ ConnecterWaits(h)
    \/ \E e \in RetryQueue[h] :
        ConnecterSkips(h, e) \/ ConnecterExpires(h, e) \/ ConnecterResends(h, e)

Next ==
    \/ \E h \in Hosts :
        \/ \E a \in Hosts : Connect(h, a) \/ PrePeerAges(h, a)
        \/ \E p \in peid_peer[h] : RemovePeer(h, p)
        \/ ConnecterStep(h) \/ ConnecterWakes(h)
        \/ SetAccepting(h) \/ FlushRetryQueue(h)
    \/ \E m \in net : Receive(m) \/ Lose(m)

Spec == Init /\ [][Next]_vars

\* The Listener takes every datagram that reaches the host, and a Connecter
\* that is not waiting goes on.
Fairness ==
    /\ \A m \in Datagram : WF_vars(m \in net /\ Receive(m))
    /\ \A h \in Hosts : WF_vars(ConnecterStep(h))

FairSpec == Spec /\ Fairness

-----------------------------------------------------------------------------
(* Properties.                                                             *)

\* The maps of ALTUSHost have the shape its declarations give them.
TypeOK ==
    /\ net \subseteq Datagram
    /\ c_prepeers \in [Hosts -> [Hosts -> Attempts \cup {None}]]
    /\ attempt \in [Hosts -> [Attempts -> AttemptState]]
    /\ RetryQueue \in [Hosts -> SUBSET Retry]
    /\ connecter \in [Hosts -> {"running", "waiting", "ended"}]
    /\ s_prepeers \in [Hosts -> [Hosts -> PrePeer]]
    /\ peers \in [Hosts -> [Hosts -> {"none", "client", "server"}]]
    /\ peid_peer \in [Hosts -> SUBSET (Peids \X Hosts)]
    /\ lastpeid \in [Hosts -> Nat]
    /\ accepting \in [Hosts -> BOOLEAN]
    /\ log \subseteq Events \X Hosts \X Hosts

\* The two sides agree on what happened, whatever the network does: a server
\* has a peer only if the other host completed its connection to this server,
\* a client has one only if the server acknowledged it, and the server does
\* so only for a host that called connect.
HandshakeOrder ==
    \A s, c \in Hosts :
        /\ peers[s][c] = "server" => << "complete", c, s >> \in log
        /\ peers[c][s] = "client" => << "ack", s, c >> \in log
        /\ << "accept", s, c >> \in log => << "complete", c, s >> \in log
        /\ << "complete", c, s >> \in log => << "ack", s, c >> \in log
        /\ << "ack", s, c >> \in log => << "connect", c, s >> \in log

\* Unless the two hosts connected to each other, each listens on the channels
\* its peer sends on, whatever the network repeats and whichever peers were
\* removed and made again (scenario.txt: "the server receives on channel 0, the
\* client on channel 1").  When they did, both may have become clients.
RolesComplementary ==
    \A h, a \in Hosts :
        /\ peers[h][a] # "none" /\ peers[a][h] # "none"
        /\ << "connect", h, a >> \notin log \/ << "connect", a, h >> \notin log
        => Receiving(peers[h][a]) = Sending(peers[a][h])

\* peers and peid_peer describe the same peers: every peer has exactly one
\* identifier, every identifier exactly one peer, and none is given out twice.
PeidsMatchPeers ==
    \A h \in Hosts :
        /\ \A a \in Hosts : peers[h][a] # "none" <=> \E id \in Peids : << id, a >> \in peid_peer[h]
        /\ \A p, q \in peid_peer[h] : (p[1] = q[1] \/ p[2] = q[2]) => p = q
        /\ \A p \in peid_peer[h] : p[1] <= lastpeid[h]

\* No entry of the retry queue and no entry of c_prepeers points to a pre-peer
\* that Connecter deleted, and an entry of the map is an attempt that was not
\* answered yet: the Expired check of Connecter never reads freed memory.
NoDanglingAttempt ==
    \A h \in Hosts :
        /\ \A e \in RetryQueue[h] : attempt[h][e.id] \in {"live", "expired"}
        /\ \A a \in Hosts : c_prepeers[h][a] # None => attempt[h][c_prepeers[h][a]] = "live"

\* When nothing is lost or late, every attempt leads to a peer on both sides:
\* on the client's as client, on the server's as server.
HandshakeCompletes ==
    \A l \in Links :
        c_prepeers[l[1]][l[2]] # None
            ~> peers[l[1]][l[2]] = "client" /\ peers[l[2]][l[1]] = "server"

-----------------------------------------------------------------------------
(* What documents and comments say and the code does not do.               *)

\* connect: "put new cprepeer in Retry queue", Connecter: "send handshake 1
\* packet again" until the "expiring time": an attempt does not stay for ever.
AttemptResolved ==
    \A h, a \in Hosts : c_prepeers[h][a] # None ~> c_prepeers[h][a] = None
=============================================================================
