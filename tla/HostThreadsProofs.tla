------------------------- MODULE HostThreadsProofs -------------------------
(***************************************************************************)
(* Theorems about the threads of a host and its destructor, for any number *)
(* of retries and of calls of connect.                                     *)
(***************************************************************************)
EXTENDS HostThreads, TLAPS

\* Every step keeps the states of the threads and objects.
LEMMA TypeStep == TypeOK /\ [Next]_vars => TypeOK'
<1> SUFFICES ASSUME TypeOK, [Next]_vars PROVE TypeOK'
  OBVIOUS
<1> USE ThreadsAssumption DEF TypeOK, Attempts, Entry, None, NoEntry
<1>g. Gone \subseteq {"socket", "pools", "peer"}
  BY DEF Gone
<1>1. CASE Run
  <2>1. alive' \in BOOLEAN
    BY <1>1 DEF Run
  <2> QED
    BY <1>1, <2>1 DEF Run
<1>2. CASE FlushRetryQueue
  BY <1>2 DEF FlushRetryQueue
<1>3. CASE Destroy
  <2>1. alive' \in BOOLEAN
    BY <1>3 DEF Destroy
  <2> QED
    BY <1>3, <2>1 DEF Destroy, DtorUnchanged
<1>4. ASSUME NEW k \in Attempts, Connect(k) PROVE TypeOK'
  <2>1. Retries(k) \subseteq Entry
    BY DEF Retries
  <2> QED
    BY <1>4, <2>1 DEF Connect
<1>5. CASE ListenerLoop
  BY <1>5 DEF ListenerLoop, ListenerUnchanged
<1>6. CASE ListenerTimeout \/ ListenerDatagram
  BY <1>6 DEF ListenerTimeout, ListenerDatagram, ListenerUnchanged
<1>7. CASE ListenerHandle
  BY <1>7, <1>g DEF ListenerHandle, ListenerUnchanged, Uses
<1>8. CASE ListenerWrite
  <2>1. attempt' \in [Attempts -> {"unused", "live", "expired", "gone"}]
    BY <1>8 DEF ListenerWrite
  <2>2. misuse' \subseteq {"listener", "connecter", "sender"}
                          \X {"socket", "pools", "peer", "attempt", "queue"}
    BY <1>8, <1>g DEF ListenerWrite, Uses, AttemptGone
  <2> QED
    BY <1>8, <2>1, <2>2 DEF ListenerWrite, ListenerUnchanged
<1>9. CASE ConnecterLoop
  BY <1>9 DEF ConnecterLoop, ConnecterUnchanged, Sleeps
<1>10. CASE ConnecterWaits \/ SpuriousWakeup
  BY <1>10 DEF ConnecterWaits, SpuriousWakeup, ConnecterUnchanged
<1>11. CASE ConnecterWoken
  BY <1>11 DEF ConnecterWoken, ConnecterUnchanged, Sleeps
<1>12. CASE ConnecterActs
  <2>1. attempt' \in [Attempts -> {"unused", "live", "expired", "gone"}]
    BY <1>12 DEF ConnecterActs
  <2>2. RetryQueue' \subseteq Entry
    BY <1>12 DEF ConnecterActs
  <2>3. misuse' \subseteq {"listener", "connecter", "sender"}
                          \X {"socket", "pools", "peer", "attempt", "queue"}
    BY <1>12 DEF ConnecterActs, Uses, AttemptGone
  <2> QED
    BY <1>12, <2>1, <2>2, <2>3 DEF ConnecterActs, ConnecterUnchanged
<1>13. CASE SenderLoop
  BY <1>13 DEF SenderLoop, SenderUnchanged
<1>14. CASE SenderSends
  <2>1. misuse' \subseteq {"listener", "connecter", "sender"}
                          \X {"socket", "pools", "peer", "attempt", "queue"}
    <3> DEFINE used == IF peer = "none" THEN {} ELSE Gone
    <3>1. used \subseteq {"socket", "pools", "peer"}
      BY <1>g
    <3>2. misuse' = misuse \cup {<< "sender", o >> : o \in used}
      BY <1>14 DEF SenderSends, Uses
    <3> HIDE DEF used
    <3> QED
      BY <3>1, <3>2
  <2>2. sender' \in {"off", "loop", "send", "ended"}
    BY <1>14 DEF SenderSends
  <2>3. SenderUnchanged
    BY <1>14 DEF SenderSends
  <2> QED
    BY <2>1, <2>2, <2>3 DEF SenderUnchanged
<1>15. CASE JoinListener
  BY <1>15 DEF JoinListener, DtorUnchanged
<1>16. CASE DeleteObjects
  BY <1>16 DEF DeleteObjects, DtorUnchanged
<1>17. CASE Notify
  BY <1>17 DEF Notify, DtorUnchanged, Notified
<1>18. CASE JoinConnecter
  BY <1>18 DEF JoinConnecter, DtorUnchanged
<1>19. CASE FreePools
  <2>1. shared' \in [socket : {"live", "gone"}, pools : {"live", "gone"}]
    BY <1>19 DEF FreePools
  <2> QED
    BY <1>19, <2>1 DEF FreePools, DtorUnchanged
<1>20. CASE UNCHANGED vars
  BY <1>20 DEF vars
<1> QED
  BY <1>1, <1>2, <1>3, <1>4, <1>5, <1>6, <1>7, <1>8, <1>9, <1>10, <1>11, <1>12,
     <1>13, <1>14, <1>15, <1>16, <1>17, <1>18, <1>19, <1>20
     DEF Next, Application, Listener, Connecter, Sender, Destructor

\* Threads and objects stay in the states the code distinguishes, whatever the
\* application and the threads do.
THEOREM TypeCorrect == Spec => []TypeOK
<1>1. Init => TypeOK
  <2> SUFFICES ASSUME Init PROVE TypeOK
    OBVIOUS
  <2>1. alive \in BOOLEAN /\ attempt \in [Attempts -> {"unused", "live", "expired", "gone"}]
    BY DEF Init
  <2> QED
    BY <2>1 DEF Init, TypeOK, NoEntry
<1> QED
  BY <1>1, TypeStep, PTL DEF Spec

-----------------------------------------------------------------------------
(* What the destructor takes away.                                         *)

\* The destructor has seen the Listener end.
ListenerJoined == dtor \in {"delete", "notify", "joinConnecter", "joinSender", "done"}

\* The order of joins and deletions: a thread that may use an object has ended
\* before the object goes, except that the Sender outlives socket and peers.
EndInv ==
    /\ ListenerJoined => listener = "ended"
    /\ dtor = "done" => sender = "ended"
    /\ shared["socket"] = "gone" \/ peer = "gone" => ListenerJoined
    /\ shared["pools"] = "gone" => dtor = "done"

\* While the Listener runs, nothing that it uses is gone.
LEMMA ListenerFindsAll == TypeOK /\ EndInv /\ listener # "ended" => Gone = {}
  BY DEF TypeOK, EndInv, ListenerJoined, Gone

\* While the Sender runs, it finds the pools.
LEMMA SenderFindsPools == TypeOK /\ EndInv /\ sender # "ended" => "pools" \notin Gone
  BY DEF TypeOK, EndInv, Gone

\* Every step keeps the order of joins and deletions.
LEMMA EndStep == TypeOK /\ EndInv /\ [Next]_vars => EndInv'
<1> SUFFICES ASSUME TypeOK, EndInv, [Next]_vars PROVE EndInv'
  OBVIOUS
<1> USE DEF TypeOK, EndInv, ListenerJoined
<1>1. CASE Run
  BY <1>1 DEF Run
<1>2. CASE FlushRetryQueue
  BY <1>2 DEF FlushRetryQueue
<1>3. CASE Destroy
  BY <1>3 DEF Destroy, DtorUnchanged
<1>4. CASE \E k \in Attempts : Connect(k)
  BY <1>4 DEF Connect
<1>5. CASE ListenerLoop \/ ListenerTimeout \/ ListenerDatagram
  BY <1>5 DEF ListenerLoop, ListenerTimeout, RecvTimesOut, ListenerDatagram, ListenerUnchanged
<1>6. CASE ListenerHandle
  BY <1>6 DEF ListenerHandle, ListenerUnchanged
<1>7. CASE ListenerWrite
  BY <1>7 DEF ListenerWrite, ListenerUnchanged
<1>8. CASE ConnecterLoop \/ ConnecterWaits \/ SpuriousWakeup \/ ConnecterWoken
  BY <1>8 DEF ConnecterLoop, ConnecterWaits, SpuriousWakeup, ConnecterWoken, ConnecterUnchanged
<1>9. CASE ConnecterActs
  BY <1>9 DEF ConnecterActs, ConnecterUnchanged
<1>10. CASE SenderLoop \/ SenderSends
  BY <1>10 DEF SenderLoop, SenderSends, SenderUnchanged
<1>11. CASE JoinListener
  BY <1>11 DEF JoinListener, DtorUnchanged, Joined
<1>12. CASE DeleteObjects
  BY <1>12 DEF DeleteObjects, DtorUnchanged
<1>13. CASE Notify
  BY <1>13 DEF Notify, DtorUnchanged
<1>14. CASE JoinConnecter
  BY <1>14 DEF JoinConnecter, DtorUnchanged
<1>15. CASE FreePools
  BY <1>15 DEF FreePools, DtorUnchanged, Joined
<1>16. CASE UNCHANGED vars
  BY <1>16 DEF vars
<1> QED
  BY <1>1, <1>2, <1>3, <1>4, <1>5, <1>6, <1>7, <1>8, <1>9, <1>10, <1>11, <1>12,
     <1>13, <1>14, <1>15, <1>16
     DEF Next, Application, Listener, Connecter, Sender, Destructor

\* What a step adds to the history.
LEMMA MisuseStep ==
    ASSUME TypeOK, EndInv, [Next]_vars
    PROVE  /\ misuse' \cap ({"listener"} \X {"peer", "socket", "pools"})
              \subseteq misuse
           /\ misuse' \cap ({"listener", "connecter", "sender"} \X {"pools"}) \subseteq misuse
<1> USE DEF TypeOK
<1>1. CASE ListenerHandle
  <2>1. Gone = {}
    BY <1>1, ListenerFindsAll DEF ListenerHandle
  <2> QED
    BY <1>1, <2>1 DEF ListenerHandle, Uses
<1>2. CASE ListenerWrite
  <2>1. Gone \cup AttemptGone(popped) \subseteq {"attempt"}
    BY <1>2, ListenerFindsAll DEF ListenerWrite, AttemptGone
  <2> QED
    BY <1>2, <2>1 DEF ListenerWrite, Uses
<1>3. CASE ConnecterActs
  <2>0. PICK done, expiring \in BOOLEAN :
          Uses("connecter", AttemptGone(top.id)
                            \cup (IF RetryQueue = {} THEN {"queue"} ELSE {})
                            \cup (IF done \/ expiring THEN {} ELSE Gone \cap {"socket"}))
    BY <1>3 DEF ConnecterActs
  <2> DEFINE used == AttemptGone(top.id)
                     \cup (IF RetryQueue = {} THEN {"queue"} ELSE {})
                     \cup (IF done \/ expiring THEN {} ELSE Gone \cap {"socket"})
  <2>1. misuse' = misuse \cup {<< "connecter", o >> : o \in used}
    BY <2>0 DEF Uses
  <2>2. "pools" \notin used
    BY DEF AttemptGone
  <2> HIDE DEF used
  <2> QED
    BY <2>1, <2>2
<1>4. CASE SenderSends
  <2> DEFINE used == IF peer = "none" THEN {} ELSE Gone
  <2>1. "pools" \notin used
    BY <1>4, SenderFindsPools DEF SenderSends
  <2>2. misuse' = misuse \cup {<< "sender", o >> : o \in used}
    BY <1>4 DEF SenderSends, Uses
  <2> HIDE DEF used
  <2> QED
    BY <2>1, <2>2
<1>5. ASSUME misuse' = misuse
      PROVE  /\ misuse' \cap ({"listener"} \X {"peer", "socket", "pools"}) \subseteq misuse
             /\ misuse' \cap ({"listener", "connecter", "sender"} \X {"pools"}) \subseteq misuse
  BY <1>5
<1>6. \/ misuse' = misuse
      \/ ListenerHandle \/ ListenerWrite \/ ConnecterActs \/ SenderSends
  BY DEF Next, Application, Run, FlushRetryQueue, Destroy, Connect, Listener, ListenerLoop,
         ListenerTimeout, ListenerDatagram, Connecter, ConnecterLoop, ConnecterWaits,
         SpuriousWakeup, ConnecterWoken, Sender, SenderLoop, SenderUnchanged, Destructor,
         JoinListener, DeleteObjects, Notify, JoinConnecter, FreePools, DtorUnchanged, vars
<1> QED
  BY <1>1, <1>2, <1>3, <1>4, <1>5, <1>6

\* The destructor joins in an order in which nothing goes before its last user:
\* every behaviour keeps EndInv.
THEOREM EndCorrect == Spec => []EndInv
<1>1. Init => EndInv
  BY DEF Init, EndInv, ListenerJoined
<1> QED
  BY <1>1, TypeCorrect, EndStep, PTL DEF Spec

\* The Listener never uses a deleted peer, the closed socket or freed pools,
\* for any number of connects and wherever the destructor comes in.
THEOREM ListenerCorrect == Spec => []ListenerUsesLive
<1>1. Init => ListenerUsesLive
  BY DEF Init, ListenerUsesLive
<1>2. TypeOK /\ EndInv /\ ListenerUsesLive /\ [Next]_vars => ListenerUsesLive'
  BY MisuseStep DEF ListenerUsesLive
<1> QED
  BY <1>1, <1>2, TypeCorrect, EndCorrect, PTL DEF Spec

\* No thread uses the pools after altusFreeP and delete newPool.
THEOREM PoolsCorrect == Spec => []PoolsOutliveThreads
<1>1. Init => PoolsOutliveThreads
  BY DEF Init, PoolsOutliveThreads
<1>2. TypeOK /\ EndInv /\ PoolsOutliveThreads /\ [Next]_vars => PoolsOutliveThreads'
  BY MisuseStep DEF PoolsOutliveThreads
<1> QED
  BY <1>1, <1>2, TypeCorrect, EndCorrect, PTL DEF Spec

-----------------------------------------------------------------------------
(* What Connecter reads.                                                   *)

\* The destructor has not deleted anything of what Connecter reads.
Early == dtor \in {"none", "joinListener", "delete"}

\* The queue and the entry Connecter sleeps for name attempts that exist, and
\* whatever is left of that attempt in the queue comes later than the entry.
ReadInv ==
    Early =>
        /\ \A e \in RetryQueue : attempt[e.id] \in {"live", "expired"}
        /\ connecter = "sleep" =>
              /\ top \in Entry /\ attempt[top.id] \in {"live", "expired"}
              /\ \A f \in RetryQueue : f.id = top.id /\ f.turn <= top.turn => f = top

\* The destructor never goes back.
LEMMA EarlyBefore == [Next]_vars /\ Early' => Early
  BY DEF Early, Next, Application, Run, FlushRetryQueue, Destroy, Connect, Listener, ListenerLoop,
         ListenerTimeout, ListenerDatagram, ListenerHandle, ListenerWrite, ListenerUnchanged,
         Connecter, ConnecterLoop, ConnecterWaits, SpuriousWakeup, ConnecterWoken,
         ConnecterActs, ConnecterUnchanged, Sender, SenderLoop, SenderSends, SenderUnchanged,
         Destructor, JoinListener, DeleteObjects, Notify, JoinConnecter, FreePools, vars

\* Every step of the host keeps it: connect adds entries of a new attempt only,
\* and Connecter deletes an attempt at its last retry, which it takes out last.
LEMMA ReadStep == TypeOK /\ ReadInv /\ [Next]_vars => ReadInv'
<1> SUFFICES ASSUME TypeOK, ReadInv, [Next]_vars, Early' PROVE ReadInv'
  BY DEF ReadInv
<1>e. Early
  BY EarlyBefore
<1> DEFINE Queued == \A e \in RetryQueue : attempt[e.id] \in {"live", "expired"}
           Asleep == connecter = "sleep" =>
                        /\ top \in Entry /\ attempt[top.id] \in {"live", "expired"}
                        /\ \A f \in RetryQueue : f.id = top.id /\ f.turn <= top.turn => f = top
<1>r. Queued /\ Asleep
  BY <1>e DEF ReadInv
<1>s. SUFFICES Queued' /\ Asleep'
  BY DEF ReadInv
<1> USE ThreadsAssumption DEF TypeOK
<1>1. CASE UNCHANGED << attempt, RetryQueue, top >> /\ (connecter' = "sleep" => connecter = "sleep")
  BY <1>1, <1>r
<1>2. CASE FlushRetryQueue
  BY <1>2, <1>r DEF FlushRetryQueue
<1>3. ASSUME NEW k \in Attempts, Connect(k) PROVE Queued' /\ Asleep'
  <2>1. attempt[k] = "unused" /\ attempt'[k] = "live"
    BY <1>3 DEF Connect
  <2>2. \A j \in Attempts : j # k => attempt'[j] = attempt[j]
    BY <1>3 DEF Connect
  <2>3. RetryQueue' = RetryQueue \cup Retries(k) /\ \A f \in Retries(k) : f.id = k
    BY <1>3 DEF Connect, Retries
  <2>4. \A e \in Entry : e.id \in Attempts
    BY DEF Entry
  <2>5. Queued'
    BY <1>r, <2>1, <2>2, <2>3, <2>4
  <2>6. Asleep'
    BY <1>3, <1>r, <2>1, <2>2, <2>3, <2>4 DEF Connect
  <2> QED
    BY <2>5, <2>6
<1>4. CASE ListenerWrite
  <2>1. \A j \in Attempts : attempt'[j] \in {attempt[j], "expired"}
    BY <1>4 DEF ListenerWrite
  <2>2. \A e \in Entry : e.id \in Attempts
    BY DEF Entry
  <2> QED
    BY <1>4, <1>r, <2>1, <2>2 DEF ListenerWrite, ListenerUnchanged
<1>5. ASSUME Sleeps, UNCHANGED << attempt, RetryQueue >> PROVE Queued' /\ Asleep'
  <2>1. PICK e \in RetryQueue : IsTop(e) /\ top' = e
    BY <1>5 DEF Sleeps
  <2>2. \A f \in RetryQueue : f.id \in Int /\ f.id = e.id /\ f.turn <= e.turn => f = e
    BY <2>1 DEF IsTop, Entry, Attempts
  <2>3. \A f \in RetryQueue : f.id \in Int
    BY DEF Entry, Attempts
  <2> QED
    BY <1>5, <1>r, <2>1, <2>2, <2>3
<1>6. CASE ConnecterActs
  <2>1. RetryQueue' \subseteq RetryQueue /\ connecter' = "loop"
    BY <1>6 DEF ConnecterActs
  <2>2. CASE attempt' = attempt
    BY <1>r, <2>1, <2>2
  <2>3. CASE attempt' # attempt
    <3>1. Expiring /\ attempt' = [attempt EXCEPT ![top.id] = "gone"]
      BY <1>6, <2>3 DEF ConnecterActs
    <3>2. top \in Entry /\ \A f \in RetryQueue : f.id = top.id /\ f.turn <= top.turn => f = top
      BY <1>6, <1>r DEF ConnecterActs
    <3>3. \A f \in RetryQueue : f.id = top.id => f = top
      BY <3>1, <3>2 DEF Expiring, Entry
    <3>4. top \notin RetryQueue'
      BY <1>6 DEF ConnecterActs
    <3>5. \A f \in RetryQueue' : f.id \in Attempts /\ f.id # top.id
      BY <2>1, <3>3, <3>4 DEF Entry
    <3> QED
      BY <1>r, <2>1, <3>1, <3>5
  <2> QED
    BY <2>2, <2>3
<1> QED
  <2>1. CASE ListenerLoop \/ ListenerTimeout \/ ListenerDatagram \/ ListenerHandle
    BY <2>1, <1>1 DEF ListenerLoop, ListenerTimeout, ListenerDatagram, ListenerHandle,
                      ListenerUnchanged
  <2>2. CASE ConnecterLoop \/ ConnecterWaits \/ SpuriousWakeup \/ ConnecterWoken
    BY <2>2, <1>1, <1>5 DEF ConnecterLoop, ConnecterWaits, SpuriousWakeup, ConnecterWoken
  <2>3. CASE Run \/ Destroy \/ UNCHANGED vars
    BY <2>3, <1>1 DEF Run, Destroy, DtorUnchanged, vars
  <2>4. CASE Sender
    BY <2>4, <1>1 DEF Sender, SenderLoop, SenderSends, SenderUnchanged
  <2>5. CASE Destructor
    BY <2>5, <1>1, <1>s DEF Destructor, JoinListener, DeleteObjects, Notify, Notified,
                      JoinConnecter, FreePools, DtorUnchanged, Early
  <2> QED
    BY <1>2, <1>3, <1>4, <1>6, <2>1, <2>2, <2>3, <2>4, <2>5
       DEF Next, Application, Listener, Connecter

\* Until the destructor deletes, Connecter never reads a pre-peer it deleted,
\* for any number of connects, retries and flushes of the queue.
THEOREM ConnecterCorrect == Spec => []ConnecterReadsLive
<1>1. Init => ReadInv /\ ConnecterReadsLive
  BY DEF Init, ReadInv, ConnecterReadsLive
<1>2. TypeOK /\ ReadInv /\ ConnecterReadsLive /\ [Next]_vars => ConnecterReadsLive'
  <2> SUFFICES ASSUME TypeOK, ReadInv, ConnecterReadsLive, [Next]_vars, Early'
               PROVE  << "connecter", "attempt" >> \notin misuse'
    BY DEF ConnecterReadsLive, Early
  <2>1. CASE ConnecterActs
    <3>0. PICK done, expiring \in BOOLEAN :
            Uses("connecter", AttemptGone(top.id)
                              \cup (IF RetryQueue = {} THEN {"queue"} ELSE {})
                              \cup (IF done \/ expiring THEN {} ELSE Gone \cap {"socket"}))
      BY <2>1 DEF ConnecterActs
    <3> DEFINE used == AttemptGone(top.id)
                       \cup (IF RetryQueue = {} THEN {"queue"} ELSE {})
                       \cup (IF done \/ expiring THEN {} ELSE Gone \cap {"socket"})
    <3>1. Early /\ connecter = "sleep"
      BY <2>1 DEF ConnecterActs, ConnecterUnchanged, Early
    <3>2. "attempt" \notin used
      BY <3>1 DEF ReadInv, AttemptGone
    <3>3. misuse' = misuse \cup {<< "connecter", o >> : o \in used}
      BY <3>0 DEF Uses
    <3> HIDE DEF used
    <3> QED
      BY <3>1, <3>2, <3>3 DEF ConnecterReadsLive, Early
  <2>2. CASE ~ConnecterActs
    <3>1. Early
      BY EarlyBefore
    <3>2. << "connecter", "attempt" >> \notin misuse
      BY <3>1 DEF ConnecterReadsLive, Early
    <3>3. \/ misuse' = misuse
          \/ \E objects : misuse' = misuse \cup {<< "listener", o >> : o \in objects}
          \/ \E objects : misuse' = misuse \cup {<< "sender", o >> : o \in objects}
      BY <2>2 DEF Next, Application, Run, FlushRetryQueue, Destroy, Connect, Listener, ListenerLoop,
             ListenerTimeout, ListenerDatagram, ListenerHandle, ListenerWrite, Uses,
             Connecter, ConnecterLoop, ConnecterWaits, SpuriousWakeup, ConnecterWoken,
             Sender, SenderLoop, SenderSends,
             Destructor, JoinListener, DeleteObjects, Notify, JoinConnecter, FreePools,
             DtorUnchanged, vars
    <3> QED
      BY <3>2, <3>3
  <2> QED
    BY <2>1, <2>2
<1> QED
  BY <1>1, <1>2, TypeCorrect, ReadStep, PTL DEF Spec
=============================================================================
