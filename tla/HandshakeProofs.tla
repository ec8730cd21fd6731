-------------------------- MODULE HandshakeProofs --------------------------
(***************************************************************************)
(* Theorems about the connection set-up, for any hosts, links, faults,     *)
(* calls and bounds.                                                       *)
(***************************************************************************)
EXTENDS Handshake, TLAPS

\* Every step keeps the types of the maps.
LEMMA TypeStep == TypeOK /\ [Next]_vars => TypeOK'
<1> SUFFICES ASSUME TypeOK, [Next]_vars PROVE TypeOK'
  OBVIOUS
<1> USE DEF TypeOK, Datagram, Pages, PrePeer, NoPrePeer, Retry, Events, AttemptState
<1>1. ASSUME NEW h \in Hosts, NEW a \in Hosts, Connect(h, a) PROVE TypeOK'
  <2>1. PICK k \in Attempts :
          /\ attempt' = [attempt EXCEPT ![h][k] = "live"]
          /\ c_prepeers' = [c_prepeers EXCEPT ![h][a] = k]
          /\ RetryQueue' = [RetryQueue EXCEPT ![h] = @ \cup Retries(k, a)]
    BY <1>1 DEF Connect
  <2>2. attempt' \in [Hosts -> [Attempts -> AttemptState]]
    BY <2>1
  <2>3. c_prepeers' \in [Hosts -> [Hosts -> Attempts \cup {None}]]
    BY <2>1
  <2>4. RetryQueue' \in [Hosts -> SUBSET Retry]
    BY <2>1 DEF Retries
  <2>5. net' \subseteq Datagram
    BY <1>1 DEF Connect, HandShake1
  <2>6. log' \subseteq Events \X Hosts \X Hosts
    BY <1>1 DEF Connect
  <2> QED
    BY <1>1, <2>2, <2>3, <2>4, <2>5, <2>6 DEF Connect
<1>2. ASSUME NEW h \in Hosts, NEW a \in Hosts, PrePeerAges(h, a) PROVE TypeOK'
  BY <1>2 DEF PrePeerAges
<1>3. ASSUME NEW h \in Hosts, NEW p \in peid_peer[h], RemovePeer(h, p) PROVE TypeOK'
  BY <1>3 DEF RemovePeer, RemovedIds
<1>4. ASSUME NEW h \in Hosts, ConnecterWaits(h) PROVE TypeOK'
  BY <1>4 DEF ConnecterWaits
<1>5. ASSUME NEW h \in Hosts, NEW e \in RetryQueue[h], ConnecterSkips(h, e) PROVE TypeOK'
  BY <1>5 DEF ConnecterSkips, Popped
<1>6. ASSUME NEW h \in Hosts, NEW e \in RetryQueue[h], ConnecterExpires(h, e) PROVE TypeOK'
  BY <1>6 DEF ConnecterExpires, Popped, None
<1>7. ASSUME NEW h \in Hosts, NEW e \in RetryQueue[h], ConnecterResends(h, e) PROVE TypeOK'
  BY <1>7 DEF ConnecterResends, Popped, HandShake1
<1>8. ASSUME NEW h \in Hosts, ConnecterWakes(h) PROVE TypeOK'
  BY <1>8 DEF ConnecterWakes
<1>9. ASSUME NEW h \in Hosts, SetAccepting(h) PROVE TypeOK'
  BY <1>9 DEF SetAccepting
<1>10. ASSUME NEW h \in Hosts, FlushRetryQueue(h) PROVE TypeOK'
  BY <1>10 DEF FlushRetryQueue
<1>11. ASSUME NEW m \in net, DropFromPeer(m) PROVE TypeOK'
  BY <1>11 DEF DropFromPeer, Handled
<1>12. ASSUME NEW m \in net, TryCompleteFails(m) PROVE TypeOK'
  BY <1>12 DEF TryCompleteFails, Handled, None
<1>13. ASSUME NEW m \in net, TryComplete(m) PROVE TypeOK'
  <2>m. m.src \in Hosts /\ m.dst \in Hosts
    OBVIOUS
  <2>1. /\ attempt' \in [Hosts -> [Attempts -> AttemptState]]
        /\ c_prepeers' \in [Hosts -> [Hosts -> Attempts \cup {None}]]
    BY <1>13, <2>m DEF TryComplete
  <2>2. /\ peers' \in [Hosts -> [Hosts -> {"none", "client", "server"}]]
        /\ peid_peer' \in [Hosts -> SUBSET (Peids \X Hosts)]
        /\ lastpeid' \in [Hosts -> Nat]
    BY <1>13, <2>m DEF TryComplete, NewPeer, Peids
  <2>3. net' \subseteq Datagram
    BY <1>13, <2>m DEF TryComplete, Handled, Reply
  <2>4. log' \subseteq Events \X Hosts \X Hosts
    BY <1>13, <2>m DEF TryComplete
  <2> QED
    BY <1>13, <2>1, <2>2, <2>3, <2>4 DEF TryComplete
<1>14. ASSUME NEW m \in net, Declined(m) PROVE TypeOK'
  BY <1>14 DEF Declined, Handled
<1>15. ASSUME NEW m \in net, AcceptFirst(m) PROVE TypeOK'
  BY <1>15 DEF AcceptFirst, Handled
<1>16. ASSUME NEW m \in net, AcceptPage(m) PROVE TypeOK'
  <2> DEFINE pages == Current(m).pages \cup ({m.page} \cap Pages)
             ack == Current(m).IsAckSent \/ KeyComplete(pages)
  <2>m. m.src \in Hosts /\ m.dst \in Hosts
    OBVIOUS
  <2>1. Current(m) \in PrePeer
    BY <2>m DEF Current
  <2>2. [pages |-> pages, old |-> FALSE, IsAckSent |-> ack] \in PrePeer
    BY <2>1 DEF KeyComplete
  <2>3. s_prepeers' \in [Hosts -> [Hosts -> PrePeer]]
    BY <1>16, <2>2 DEF AcceptPage
  <2>4. net' \subseteq Datagram
    BY <1>16, <2>m DEF AcceptPage, Handled, Reply
  <2>5. log' \subseteq Events \X Hosts \X Hosts
    BY <1>16, <2>m DEF AcceptPage
  <2> QED
    BY <1>16, <2>3, <2>4, <2>5 DEF AcceptPage
<1>17. ASSUME NEW m \in net, AcceptDone(m) PROVE TypeOK'
  BY <1>17 DEF AcceptDone, Handled, NewPeer, IsNewPeid, Peids
<1>18. ASSUME NEW m \in net, Lose(m) PROVE TypeOK'
  BY <1>18 DEF Lose
<1>19. CASE UNCHANGED vars
  BY <1>19 DEF vars
<1> QED
  BY <1>1, <1>2, <1>3, <1>4, <1>5, <1>6, <1>7, <1>8, <1>9, <1>10, <1>11, <1>12,
     <1>13, <1>14, <1>15, <1>16, <1>17, <1>18, <1>19
     DEF Next, ConnecterStep, Receive

\* The maps have their types in every state the hosts reach.
THEOREM TypeCorrect == Spec => []TypeOK
<1>1. Init => TypeOK
  BY CountsAssumption
     DEF Init, TypeOK, PrePeer, NoPrePeer, None, AttemptState, Pages
<1> QED
  BY <1>1, TypeStep, PTL DEF Spec

-----------------------------------------------------------------------------
(* The order of the handshake.                                             *)

\* What is in flight or stored was preceded by the event it tells of: a page
\* by connect, Y by the acknowledgement, Z by the completion.
Evidence ==
    /\ \A m \in net :
        /\ m.page \in Pages => << "connect", m.src, m.dst >> \in log
        /\ m.page = "Y" => << "ack", m.src, m.dst >> \in log
        /\ m.page = "Z" => << "complete", m.src, m.dst >> \in log
    /\ \A h, a \in Hosts :
        /\ c_prepeers[h][a] # None => << "connect", h, a >> \in log
        /\ s_prepeers[h][a] # NoPrePeer => << "connect", a, h >> \in log

\* The inductive invariant behind the order of the handshake.
OrderInv == TypeOK /\ Evidence /\ HandshakeOrder

\* Every handler leaves evidence of what it tells the other host, and acts on
\* evidence only.
LEMMA OrderStep == OrderInv /\ [Next]_vars => OrderInv'
<1> SUFFICES ASSUME OrderInv, [Next]_vars PROVE Evidence' /\ HandshakeOrder'
  BY TypeStep DEF OrderInv
<1> USE DEF OrderInv, Evidence, HandshakeOrder
<1>t. /\ net \subseteq Datagram
      /\ c_prepeers \in [Hosts -> [Hosts -> Attempts \cup {None}]]
      /\ RetryQueue \in [Hosts -> SUBSET Retry]
      /\ s_prepeers \in [Hosts -> [Hosts -> PrePeer]]
      /\ peers \in [Hosts -> [Hosts -> {"none", "client", "server"}]]
  BY DEF TypeOK
<1>m. \A m \in net : m.src \in Hosts /\ m.dst \in Hosts /\ m.page \in Pages \cup {"Y", "Z"}
  BY <1>t DEF Datagram
<1>e. \A h \in Hosts : \A e \in RetryQueue[h] : e.to \in Hosts
  BY <1>t DEF Retry
<1>1. ASSUME NEW h \in Hosts, NEW a \in Hosts, Connect(h, a)
      PROVE Evidence' /\ HandshakeOrder'
  <2>1. \A n \in net' : n \in net \/ (n.src = h /\ n.dst = a /\ n.page \in Pages)
    BY <1>1 DEF Connect, HandShake1
  <2>2. \A n \in net' : /\ n.page \in Pages => << "connect", n.src, n.dst >> \in log'
                        /\ n.page = "Y" => << "ack", n.src, n.dst >> \in log'
                        /\ n.page = "Z" => << "complete", n.src, n.dst >> \in log'
    BY <1>1, <2>1 DEF Connect, Pages
  <2>c. \A x, y \in Hosts : c_prepeers'[x][y] # None => c_prepeers[x][y] # None \/ (x = h /\ y = a)
    <3>1. PICK k \in Attempts : c_prepeers' = [c_prepeers EXCEPT ![h][a] = k]
      BY <1>1 DEF Connect
    <3>2. TAKE x, y \in Hosts
    <3>3. CASE x = h /\ y = a
      BY <3>3
    <3>4. CASE ~(x = h /\ y = a)
      BY <3>1, <3>4, <1>t
    <3> QED
      BY <3>3, <3>4
  <2>l. log' = log \cup {<< "connect", h, a >>} /\ s_prepeers' = s_prepeers
    BY <1>1 DEF Connect
  <2>p. \A x, y \in Hosts : c_prepeers'[x][y] # None => << "connect", x, y >> \in log'
    BY <2>c, <2>l
  <2>s. \A x, y \in Hosts : s_prepeers'[x][y] # NoPrePeer => << "connect", y, x >> \in log'
    BY <2>l
  <2>3. Evidence'
    BY <2>2, <2>p, <2>s
  <2>4. HandshakeOrder'
    BY <1>1 DEF Connect
  <2> QED
    BY <2>3, <2>4
<1>2. ASSUME NEW h \in Hosts, NEW a \in Hosts, PrePeerAges(h, a)
      PROVE Evidence' /\ HandshakeOrder'
  BY <1>2, <1>t DEF PrePeerAges
<1>3. ASSUME NEW h \in Hosts, NEW p \in peid_peer[h], RemovePeer(h, p)
      PROVE Evidence' /\ HandshakeOrder'
  BY <1>3, <1>t DEF RemovePeer
<1>4. ASSUME NEW h \in Hosts, ConnecterWaits(h) \/ ConnecterWakes(h)
      PROVE Evidence' /\ HandshakeOrder'
  BY <1>4 DEF ConnecterWaits, ConnecterWakes
<1>5. ASSUME NEW h \in Hosts, NEW e \in RetryQueue[h], ConnecterSkips(h, e)
      PROVE Evidence' /\ HandshakeOrder'
  BY <1>5 DEF ConnecterSkips
<1>6. ASSUME NEW h \in Hosts, NEW e \in RetryQueue[h], ConnecterExpires(h, e)
      PROVE Evidence' /\ HandshakeOrder'
  BY <1>6, <1>t, <1>e DEF ConnecterExpires
<1>7. ASSUME NEW h \in Hosts, NEW e \in RetryQueue[h], ConnecterResends(h, e)
      PROVE Evidence' /\ HandshakeOrder'
  <2>1. \A n \in net' :
          \/ n \in net
          \/ n.src = h /\ n.dst = e.to /\ n.page \in Pages /\ c_prepeers[h][e.to] # None
    BY <1>7 DEF ConnecterResends, HandShake1
  <2>u. log' = log
    BY <1>7 DEF ConnecterResends
  <2>h. c_prepeers[h][e.to] # None => << "connect", h, e.to >> \in log
    BY <1>e
  <2>2. \A n \in net' : /\ n.page \in Pages => << "connect", n.src, n.dst >> \in log'
                        /\ n.page = "Y" => << "ack", n.src, n.dst >> \in log'
                        /\ n.page = "Z" => << "complete", n.src, n.dst >> \in log'
    <3> TAKE n \in net'
    <3>1. CASE n \in net
      BY <3>1, <2>u
    <3>2. CASE n \notin net
      BY <3>2, <2>1, <2>u, <2>h DEF Pages
    <3> QED
      BY <3>1, <3>2
  <2> QED
    BY <1>7, <2>2 DEF ConnecterResends
<1>8. ASSUME NEW h \in Hosts, SetAccepting(h) \/ FlushRetryQueue(h)
      PROVE Evidence' /\ HandshakeOrder'
  BY <1>8 DEF SetAccepting, FlushRetryQueue
<1>9. ASSUME NEW m \in net, DropFromPeer(m) \/ Declined(m) \/ Lose(m)
      PROVE Evidence' /\ HandshakeOrder'
  BY <1>9 DEF DropFromPeer, Declined, Lose, Handled
<1>10. ASSUME NEW m \in net, TryCompleteFails(m)
       PROVE Evidence' /\ HandshakeOrder'
  BY <1>10, <1>t, <1>m DEF TryCompleteFails, Handled
<1>11. ASSUME NEW m \in net, TryComplete(m)
       PROVE Evidence' /\ HandshakeOrder'
  <2>1. << "ack", m.src, m.dst >> \in log
    BY <1>11 DEF TryComplete, IsAck
  <2>a. \A n \in net' : n \in net \/ (n.src = m.dst /\ n.dst = m.src /\ n.page = "Z")
    BY <1>11 DEF TryComplete, Handled, Reply
  <2>b. \A n \in net' : /\ n.page \in Pages => << "connect", n.src, n.dst >> \in log'
                        /\ n.page = "Y" => << "ack", n.src, n.dst >> \in log'
                        /\ n.page = "Z" => << "complete", n.src, n.dst >> \in log'
    BY <1>11, <2>a DEF TryComplete, Pages
  <2>2. Evidence'
    BY <1>11, <1>t, <1>m, <2>b DEF TryComplete
  <2>3. HandshakeOrder'
    BY <1>11, <1>t, <1>m, <2>1 DEF TryComplete, NewPeer
  <2> QED
    BY <2>2, <2>3
<1>12. ASSUME NEW m \in net, AcceptFirst(m)
       PROVE Evidence' /\ HandshakeOrder'
  BY <1>12, <1>t, <1>m DEF AcceptFirst, Handled
<1>13. ASSUME NEW m \in net, AcceptPage(m)
       PROVE Evidence' /\ HandshakeOrder'
  <2>1. << "connect", m.src, m.dst >> \in log
    BY <1>13, <1>m DEF AcceptPage, Current
  <2>a. \A n \in net' :
          \/ n \in net
          \/ /\ n.src = m.dst /\ n.dst = m.src /\ n.page = "Y"
             /\ << "ack", m.dst, m.src >> \in log'
    <3> DEFINE complete == KeyComplete(Current(m).pages \cup ({m.page} \cap Pages))
    <3>1. CASE complete
      BY <1>13, <3>1 DEF AcceptPage, Handled, Reply
    <3>2. CASE ~complete
      BY <1>13, <3>2 DEF AcceptPage, Handled
    <3> QED
      BY <3>1, <3>2
  <2>b. \A n \in net' : /\ n.page \in Pages => << "connect", n.src, n.dst >> \in log'
                        /\ n.page = "Y" => << "ack", n.src, n.dst >> \in log'
                        /\ n.page = "Z" => << "complete", n.src, n.dst >> \in log'
    BY <1>13, <2>a DEF AcceptPage, Pages
  <2>2. Evidence'
    BY <1>13, <1>t, <1>m, <2>1, <2>b DEF AcceptPage
  <2>3. HandshakeOrder'
    BY <1>13, <1>t, <1>m, <2>1 DEF AcceptPage
  <2> QED
    BY <2>2, <2>3
<1>14. ASSUME NEW m \in net, AcceptDone(m)
       PROVE Evidence' /\ HandshakeOrder'
  <2>1. << "complete", m.src, m.dst >> \in log
    BY <1>14 DEF AcceptDone, IsDone
  <2>2. Evidence'
    BY <1>14, <1>t, <1>m DEF AcceptDone, NewPeer, Handled
  <2>3. HandshakeOrder'
    BY <1>14, <1>t, <1>m, <2>1 DEF AcceptDone, NewPeer
  <2> QED
    BY <2>2, <2>3
<1>15. CASE UNCHANGED vars
  BY <1>15 DEF vars
<1> QED
  BY <1>1, <1>2, <1>3, <1>4, <1>5, <1>6, <1>7, <1>8, <1>9, <1>10, <1>11, <1>12,
     <1>13, <1>14, <1>15
     DEF Next, ConnecterStep, Receive

\* For any number of hosts and any behaviour of the network, a server has a
\* peer only after that peer completed, a client only after the server's
\* acknowledgement, and an acknowledgement answers a connect.
THEOREM OrderCorrect == Spec => []HandshakeOrder
<1>1. Init => OrderInv
  <2>1. Init => TypeOK
    BY CountsAssumption
       DEF Init, TypeOK, PrePeer, NoPrePeer, None, AttemptState, Pages
  <2> QED
    BY <2>1 DEF Init, OrderInv, Evidence, HandshakeOrder
<1>2. OrderInv => HandshakeOrder
  BY DEF OrderInv
<1> QED
  BY <1>1, <1>2, OrderStep, PTL DEF Spec

\* Roles follow from the order of events: a client called connect itself, and a
\* server has its peer because the other host did, so that with one connect
\* there are one client and one server, whose channels fit together
\* (the constructors of ALTUSPeer).
THEOREM RolesCorrect == Spec => []RolesComplementary
<1>1. TypeOK /\ HandshakeOrder => RolesComplementary
  <2> SUFFICES ASSUME TypeOK, HandshakeOrder, NEW h \in Hosts, NEW a \in Hosts,
                      peers[h][a] # "none", peers[a][h] # "none",
                      << "connect", h, a >> \notin log \/ << "connect", a, h >> \notin log
               PROVE  Receiving(peers[h][a]) = Sending(peers[a][h])
    BY DEF RolesComplementary
  <2>1. /\ peers[h][a] \in {"client", "server"}
        /\ peers[a][h] \in {"client", "server"}
    BY DEF TypeOK
  <2>2. ~(peers[h][a] = "client" /\ peers[a][h] = "client")
    BY DEF HandshakeOrder
  <2>3. ~(peers[h][a] = "server" /\ peers[a][h] = "server")
    BY DEF HandshakeOrder
  <2> QED
    BY <2>1, <2>2, <2>3 DEF Receiving, Sending
<1> QED
  BY <1>1, TypeCorrect, OrderCorrect, PTL

-----------------------------------------------------------------------------
(* Identifiers of peers.                                                   *)

\* A host that was not a peer becomes one, under an identifier of its own.
LEMMA NewPeerMatches ==
    ASSUME TypeOK, PeidsMatchPeers, NEW h \in Hosts, NEW a \in Hosts,
           NEW side \in {"client", "server"},
           peers[h][a] = "none", NewPeer(h, a, side)
    PROVE  PeidsMatchPeers'
<1>t. /\ peers \in [Hosts -> [Hosts -> {"none", "client", "server"}]]
      /\ peid_peer \in [Hosts -> SUBSET (Peids \X Hosts)]
      /\ lastpeid \in [Hosts -> Nat]
  BY DEF TypeOK
<1>1. PICK id \in Peids :
         /\ id > lastpeid[h]
         /\ lastpeid' = [lastpeid EXCEPT ![h] = id]
         /\ peid_peer' = [peid_peer EXCEPT ![h] = @ \cup {<< id, a >>}]
  BY DEF NewPeer, IsNewPeid
<1>2. peers' = [peers EXCEPT ![h][a] = side]
  BY DEF NewPeer
<1>3. Peids \subseteq Nat
  BY CountsAssumption DEF Peids
<1> SUFFICES ASSUME NEW g \in Hosts
             PROVE  /\ \A b \in Hosts : peers'[g][b] # "none" <=>
                                        \E i \in Peids : << i, b >> \in peid_peer'[g]
                    /\ \A p, q \in peid_peer'[g] : (p[1] = q[1] \/ p[2] = q[2]) => p = q
                    /\ \A p \in peid_peer'[g] : p[1] <= lastpeid'[g]
  BY DEF PeidsMatchPeers
<1>4. CASE g # h
  BY <1>4, <1>1, <1>2, <1>t DEF PeidsMatchPeers
<1>5. CASE g = h
  <2>1. peid_peer'[g] = peid_peer[h] \cup {<< id, a >>} /\ lastpeid'[g] = id
    BY <1>5, <1>1, <1>t
  <2>2. \A p \in peid_peer[h] : p[1] < id /\ p[2] # a /\ p[1] \in Nat /\ p = << p[1], p[2] >>
    <3> SUFFICES ASSUME NEW p \in peid_peer[h]
                 PROVE  p[1] < id /\ p[2] # a /\ p[1] \in Nat /\ p = << p[1], p[2] >>
      OBVIOUS
    <3>1. p \in Peids \X Hosts
      BY <1>t
    <3>a. p[1] \in Peids /\ p = << p[1], p[2] >>
      BY <3>1
    <3>2. p[1] \in Nat /\ p[1] \in Peids /\ p = << p[1], p[2] >>
      BY <3>a, <1>3
    <3>3. p[1] < id
      BY <3>2, <1>1, <1>3, <1>t DEF PeidsMatchPeers
    <3>4. p[2] # a
      <4> SUFFICES ASSUME p[2] = a PROVE FALSE
        OBVIOUS
      <4>1. << p[1], a >> \in peid_peer[h]
        BY <3>a
      <4> QED
        BY <4>1, <3>a DEF PeidsMatchPeers
    <3> QED
      BY <3>2, <3>3, <3>4
  <2>3. \A b \in Hosts : peers'[g][b] = IF b = a THEN side ELSE peers[h][b]
    BY <1>5, <1>2, <1>t
  <2>4. \A b \in Hosts : peers'[g][b] # "none" <=> \E i \in Peids : << i, b >> \in peid_peer'[g]
    BY <2>1, <2>3, <1>1 DEF PeidsMatchPeers
  <2>5. \A p, q \in peid_peer'[g] : (p[1] = q[1] \/ p[2] = q[2]) => p = q
    BY <2>1, <2>2, <1>3 DEF PeidsMatchPeers
  <2>6. \A p \in peid_peer'[g] : p[1] <= lastpeid'[g]
    BY <2>1, <2>2, <1>1, <1>3
  <2> QED
    BY <2>4, <2>5, <2>6
<1> QED
  BY <1>4, <1>5

\* Only prepeerToPeer, TryCompleteConnection and removePeer touch the two maps,
\* and each changes both.
LEMMA PeidStep == TypeOK /\ PeidsMatchPeers /\ [Next]_vars => PeidsMatchPeers'
<1> SUFFICES ASSUME TypeOK, PeidsMatchPeers, [Next]_vars PROVE PeidsMatchPeers'
  OBVIOUS
<1>t. /\ net \subseteq Datagram
      /\ peers \in [Hosts -> [Hosts -> {"none", "client", "server"}]]
      /\ peid_peer \in [Hosts -> SUBSET (Peids \X Hosts)]
  BY DEF TypeOK
<1>1. ASSUME NEW m \in net, TryComplete(m) PROVE PeidsMatchPeers'
  BY <1>1, <1>t, NewPeerMatches DEF TryComplete, Datagram
<1>2. ASSUME NEW m \in net, AcceptDone(m) PROVE PeidsMatchPeers'
  BY <1>2, <1>t, NewPeerMatches DEF AcceptDone, Accepts, Datagram
<1>3. ASSUME NEW h \in Hosts, NEW p \in peid_peer[h], RemovePeer(h, p) PROVE PeidsMatchPeers'
  <2>1. p \in Peids \X Hosts /\ p[2] \in Hosts /\ p = << p[1], p[2] >>
    BY <1>t
  <2>2. /\ peid_peer' = [peid_peer EXCEPT ![h] = @ \ {p}]
        /\ peers' = [peers EXCEPT ![h][p[2]] = "none"]
        /\ lastpeid' = lastpeid
    BY <1>3 DEF RemovePeer, RemovedIds
  <2> SUFFICES ASSUME NEW g \in Hosts
               PROVE  /\ \A b \in Hosts : peers'[g][b] # "none" <=>
                                          \E i \in Peids : << i, b >> \in peid_peer'[g]
                      /\ \A r, q \in peid_peer'[g] : (r[1] = q[1] \/ r[2] = q[2]) => r = q
                      /\ \A r \in peid_peer'[g] : r[1] <= lastpeid'[g]
    BY DEF PeidsMatchPeers
  <2>3. CASE g # h
    BY <2>3, <2>2, <1>t DEF PeidsMatchPeers
  <2>4. CASE g = h
    <3>1. peid_peer'[g] = peid_peer[h] \ {p}
      BY <2>4, <2>2, <1>t
    <3>2. \A b \in Hosts : peers'[g][b] = IF b = p[2] THEN "none" ELSE peers[h][b]
      BY <2>4, <2>2, <1>t
    <3>3. \A b \in Hosts : peers'[g][b] # "none" <=> \E i \in Peids : << i, b >> \in peid_peer'[g]
      <4> TAKE b \in Hosts
      <4>1. CASE b = p[2]
        <5>1. \A i \in Peids : << i, b >> \in peid_peer[h] => << i, b >> = p
          BY <4>1 DEF PeidsMatchPeers
        <5> QED
          BY <4>1, <5>1, <3>1, <3>2
      <4>2. CASE b # p[2]
        <5>1. \A i \in Peids : << i, b >> # p
          BY <4>2, <2>1
        <5>2. \A i \in Peids : << i, b >> \in peid_peer'[g] <=> << i, b >> \in peid_peer[h]
          BY <5>1, <3>1
        <5>3. peers'[g][b] = peers[h][b]
          BY <4>2, <3>2
        <5>4. peers[h][b] # "none" <=> \E i \in Peids : << i, b >> \in peid_peer[h]
          BY DEF PeidsMatchPeers
        <5> QED
          BY <5>2, <5>3, <5>4
      <4> QED
        BY <4>1, <4>2
    <3> QED
      BY <3>1, <3>3, <2>2, <2>4 DEF PeidsMatchPeers
  <2> QED
    BY <2>3, <2>4
<1>4. CASE UNCHANGED << peers, peid_peer, lastpeid >>
  BY <1>4 DEF PeidsMatchPeers
<1>5. ASSUME NEW h \in Hosts,
             \/ \E a \in Hosts : Connect(h, a) \/ PrePeerAges(h, a)
             \/ SetAccepting(h) \/ FlushRetryQueue(h)
      PROVE  UNCHANGED << peers, peid_peer, lastpeid >>
  BY <1>5 DEF Connect, PrePeerAges, SetAccepting, FlushRetryQueue
<1>6. ASSUME NEW h \in Hosts, ConnecterStep(h) \/ ConnecterWakes(h)
      PROVE  UNCHANGED << peers, peid_peer, lastpeid >>
  BY <1>6 DEF ConnecterStep, ConnecterWaits, ConnecterWakes, ConnecterSkips,
              ConnecterExpires, ConnecterResends
<1>7. ASSUME NEW m \in net,
             \/ DropFromPeer(m) \/ TryCompleteFails(m) \/ Declined(m)
             \/ AcceptFirst(m) \/ AcceptPage(m) \/ Lose(m)
      PROVE  UNCHANGED << peers, peid_peer, lastpeid >>
  BY <1>7 DEF DropFromPeer, TryCompleteFails, Declined, AcceptFirst, AcceptPage, Lose
<1>8. CASE UNCHANGED vars
  BY <1>8, <1>4 DEF vars
<1> QED
  BY <1>1, <1>2, <1>3, <1>4, <1>5, <1>6, <1>7, <1>8 DEF Next, Receive

\* peers and peid_peer stay a bijection through every mixture of connections
\* accepted, completed and removed.
THEOREM PeidsCorrect == Spec => []PeidsMatchPeers
<1>1. Init => PeidsMatchPeers
  BY DEF Init, PeidsMatchPeers
<1> QED
  BY <1>1, TypeCorrect, PeidStep, PTL DEF Spec

-----------------------------------------------------------------------------
(* The attempts that the map and the retry queue point to.                 *)

\* An attempt is in the map under its own address only.
OwnAddress ==
    \A h, a, b \in Hosts :
        /\ c_prepeers[h][a] # None /\ c_prepeers[h][a] = c_prepeers[h][b] => a = b
        /\ \A e \in RetryQueue[h] : c_prepeers[h][a] = e.id => a = e.to

\* The inductive invariant behind the absence of dangling pointers.
AttemptInv == NoDanglingAttempt /\ OwnAddress

\* The entry on which Connecter deletes an attempt is the last in the queue
\* that points to it, and erases the map's pointer to it with it.
LEMMA AttemptStep == TypeOK /\ AttemptInv /\ [Next]_vars => AttemptInv'
<1> SUFFICES ASSUME TypeOK, AttemptInv, [Next]_vars PROVE AttemptInv'
  OBVIOUS
<1> USE DEF AttemptInv, NoDanglingAttempt, OwnAddress
<1>t. /\ net \subseteq Datagram
      /\ c_prepeers \in [Hosts -> [Hosts -> Attempts \cup {None}]]
      /\ attempt \in [Hosts -> [Attempts -> AttemptState]]
      /\ RetryQueue \in [Hosts -> SUBSET Retry]
  BY DEF TypeOK
<1>r. \A h \in Hosts : \A e \in RetryQueue[h] :
         e.id \in Attempts /\ e.to \in Hosts /\ e.turn \in 1 .. RetryCount
  BY <1>t DEF Retry
<1>n. None \notin Attempts
  BY CountsAssumption DEF None, Attempts
<1>1. ASSUME NEW h \in Hosts, NEW a \in Hosts, Connect(h, a) PROVE AttemptInv'
  <2>1. PICK k \in Attempts :
          /\ attempt[h][k] = "unused"
          /\ attempt' = [attempt EXCEPT ![h][k] = "live"]
          /\ c_prepeers' = [c_prepeers EXCEPT ![h][a] = k]
          /\ RetryQueue' = [RetryQueue EXCEPT ![h] = @ \cup Retries(k, a)]
    BY <1>1 DEF Connect
  <2>2. \A g \in Hosts : \A e \in RetryQueue'[g] :
          e \in RetryQueue[g] \/ (g = h /\ e.id = k /\ e.to = a)
    BY <2>1, <1>t DEF Retries
  <2>3. \A g, b \in Hosts : c_prepeers'[g][b] = IF g = h /\ b = a THEN k ELSE c_prepeers[g][b]
    BY <2>1, <1>t
  <2>4. \A g \in Hosts : \A j \in Attempts :
          attempt'[g][j] = IF g = h /\ j = k THEN "live" ELSE attempt[g][j]
    BY <2>1, <1>t
  <2>5. \A b \in Hosts : c_prepeers[h][b] # k
    BY <2>1, <1>n
  <2>6. \A e \in RetryQueue[h] : e.id # k
    BY <2>1
  <2>7. \A g, b \in Hosts : c_prepeers[g][b] \in Attempts \cup {None}
    BY <1>t
  <2>8. NoDanglingAttempt'
    BY <2>2, <2>3, <2>4, <2>6, <2>7, <1>r, <2>1
  <2>9. OwnAddress'
    BY <2>2, <2>3, <2>5, <2>6
  <2> QED
    BY <2>8, <2>9
<1>2. ASSUME NEW h \in Hosts, NEW e \in RetryQueue[h],
             ConnecterSkips(h, e) \/ ConnecterResends(h, e)
      PROVE AttemptInv'
  <2>0. /\ c_prepeers' = c_prepeers /\ attempt' = attempt
        /\ RetryQueue' = [RetryQueue EXCEPT ![h] = @ \ {e}]
    BY <1>2 DEF ConnecterSkips, ConnecterResends, Popped
  <2>1. /\ c_prepeers' = c_prepeers /\ attempt' = attempt
        /\ \A g \in Hosts : RetryQueue'[g] \subseteq RetryQueue[g]
    BY <2>0, <1>t
  <2> QED
    BY <2>1
<1>3. ASSUME NEW h \in Hosts, FlushRetryQueue(h) PROVE AttemptInv'
  <2>1. /\ c_prepeers' = c_prepeers /\ attempt' = attempt
        /\ \A g \in Hosts : RetryQueue'[g] \subseteq RetryQueue[g]
    BY <1>3, <1>t DEF FlushRetryQueue
  <2> QED
    BY <2>1
<1>4. ASSUME NEW h \in Hosts, NEW e \in RetryQueue[h], ConnecterExpires(h, e) PROVE AttemptInv'
  <2>1. /\ c_prepeers' = [c_prepeers EXCEPT ![h][e.to] = None]
        /\ attempt' = [attempt EXCEPT ![h][e.id] = "deleted"]
        /\ RetryQueue' = [RetryQueue EXCEPT ![h] = @ \ {e}]
        /\ e.turn >= RetryCount
        /\ \A f \in RetryQueue[h] : f.id <= e.id /\ f.turn <= e.turn => f = e
    BY <1>4 DEF ConnecterExpires, IsTop, Expires, Popped
  <2>2. \A f \in RetryQueue[h] : f.id = e.id => f = e
    BY <2>1, <1>r, CountsAssumption DEF Attempts
  <2>3. \A g \in Hosts : \A f \in RetryQueue'[g] : f \in RetryQueue[g] /\ (g = h => f.id # e.id)
    BY <2>1, <2>2, <1>t
  <2>4. \A g, b \in Hosts : c_prepeers'[g][b] = IF g = h /\ b = e.to THEN None ELSE c_prepeers[g][b]
    BY <2>1, <1>t, <1>r
  <2>5. \A g \in Hosts : \A j \in Attempts :
          attempt'[g][j] = IF g = h /\ j = e.id THEN "deleted" ELSE attempt[g][j]
    BY <2>1, <1>t, <1>r
  <2>6. \A g, b \in Hosts : c_prepeers[g][b] \in Attempts \cup {None}
    BY <1>t
  <2>7. NoDanglingAttempt'
    BY <2>3, <2>4, <2>5, <2>6, <1>r
  <2>8. OwnAddress'
    BY <2>3, <2>4, <1>n, <1>r
  <2> QED
    BY <2>7, <2>8
<1>5. ASSUME NEW m \in net, TryCompleteFails(m) PROVE AttemptInv'
  <2>1. m.src \in Hosts /\ m.dst \in Hosts
    BY <1>t DEF Datagram
  <2>2. /\ c_prepeers' = [c_prepeers EXCEPT ![m.dst][m.src] = None]
        /\ attempt' = attempt /\ RetryQueue' = RetryQueue
    BY <1>5 DEF TryCompleteFails
  <2>3. \A g, b \in Hosts :
          c_prepeers'[g][b] = IF g = m.dst /\ b = m.src THEN None ELSE c_prepeers[g][b]
    BY <2>1, <2>2, <1>t
  <2>4. NoDanglingAttempt'
    BY <2>2, <2>3
  <2>5. OwnAddress'
    BY <2>2, <2>3, <1>n, <1>r
  <2> QED
    BY <2>4, <2>5
<1>6. ASSUME NEW m \in net, TryComplete(m) PROVE AttemptInv'
  <2> DEFINE h == m.dst
             a == m.src
             k == c_prepeers[h][a]
  <2>1. h \in Hosts /\ a \in Hosts
    BY <1>t DEF Datagram
  <2>2. /\ c_prepeers' = [c_prepeers EXCEPT ![h][a] = None]
        /\ attempt' = [attempt EXCEPT ![h][k] = "expired"]
        /\ RetryQueue' = RetryQueue
        /\ k # None
    BY <1>6 DEF TryComplete
  <2>3. k \in Attempts
    BY <2>1, <2>2, <1>t
  <2> HIDE DEF k, h, a
  <2>4. \A g, b \in Hosts : c_prepeers'[g][b] = IF g = h /\ b = a THEN None ELSE c_prepeers[g][b]
    BY <2>1, <2>2, <1>t
  <2>5. \A g \in Hosts : \A j \in Attempts :
          attempt'[g][j] = IF g = h /\ j = k THEN "expired" ELSE attempt[g][j]
    BY <2>1, <2>2, <2>3, <1>t
  <2>6. \A b \in Hosts : c_prepeers[h][b] = k => b = a
    BY <2>1, <2>2 DEF k
  <2>7. \A g, b \in Hosts : c_prepeers[g][b] \in Attempts \cup {None}
    BY <1>t
  <2>8. NoDanglingAttempt'
    BY <2>2, <2>4, <2>5, <2>6, <2>7, <1>r
  <2>9. OwnAddress'
    BY <2>2, <2>4, <1>n, <1>r
  <2> QED
    BY <2>8, <2>9
<1>7. CASE UNCHANGED << c_prepeers, attempt, RetryQueue >>
  BY <1>7
<1> QED
  BY <1>1, <1>2, <1>3, <1>4, <1>5, <1>6, <1>7
     DEF Next, vars, ConnecterStep, Receive, PrePeerAges, RemovePeer, ConnecterWaits,
         ConnecterWakes, SetAccepting, DropFromPeer, Declined, AcceptFirst,
         AcceptPage, AcceptDone, Lose

\* The retry queue and c_prepeers never point to a deleted attempt: the entry
\* that deletes an attempt is the last one that points to it.
THEOREM AttemptsCorrect == Spec => []NoDanglingAttempt
<1>1. Init => AttemptInv
  BY DEF Init, AttemptInv, NoDanglingAttempt, OwnAddress
<1>2. AttemptInv => NoDanglingAttempt
  BY DEF AttemptInv
<1> QED
  BY <1>1, <1>2, TypeCorrect, AttemptStep, PTL DEF Spec
=============================================================================
