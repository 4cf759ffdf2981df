-------------------------- MODULE TcpServerProofs ---------------------------
(***************************************************************************)
(* Theorems about TcpServer, for any number of peers, connections, unread  *)
(* messages and packets and any maxObjectCount.  The inductive invariant   *)
(* has one part for each group of variables, so that a lemma about a step  *)
(* looks at the group it changes: the connections, the table and the set   *)
(* of select, where the threads and signals are, and the packets.          *)
(***************************************************************************)
EXTENDS TcpServer, SocketsProofs, TLAPS

(* What run() watches it accepted, the entries of the table are under the  *)
(* names of their peers, and the connection about to be admitted is the    *)
(* last one accepted and still open.                                       *)
Watched ==
  /\ fdset \subseteq Old
  /\ cur # NoConn => cur \in Old
  /\ ioPc \in {"admit", "get", "getting", "recv"} => cur # NoConn
  /\ ioPc = "admit" => (\A c \in Old : c <= cur) /\ (sig = "none" => cur \in sockets)
  /\ \A p \in Peers : clients[p] # NoConn => clients[p] \in Old /\ peerOf[clients[p]] = p

TableInv ==
  /\ clients \in [Peers -> Conns \union {NoConn}]
  /\ fdset \in SUBSET Conns /\ ready \in SUBSET Conns
  /\ it \in 1 .. End /\ cur \in Conns \union {NoConn}
  /\ Watched /\ ClientsAgree

(* Which signals came where the threads are; a second one that holds the   *)
(* pool's mutex from below stands over a queue it cannot drain.            *)
Joined ==
  /\ wkPc = "none" <=> ioPc = "start"
  /\ wkPc = "none" => queue = <<>> /\ sig = "none"
  /\ sig \in {"close", "drain", "done"} <=> wkPc = "joined"
  /\ second # "none" => sig # "none"
  /\ poolMutex = "below" =>
       /\ queue # <<>> /\ ioPc # "getting"
       /\ (second = "io" /\ sig = "drain") \/ (second = "wk" /\ wkPc = "recycle")

ControlInv ==
  /\ ioPc \in IoPc /\ wkPc \in WkPc
  /\ isRunning \in BOOLEAN /\ state \in {"NONE", "IDEL", "DATAREADY"}
  /\ mutex = IF ioPc = "push" THEN "io" ELSE "free"
  /\ poolMutex = (IF ioPc = "getting" THEN "io" ELSE "free")
       \/ (poolMutex = "below" /\ second \in {"io", "wk"})
  /\ sig \in {"none", "join", "close", "drain", "done"}
  /\ second \in {"none", "io", "wk", "done"}
  /\ proc \in {"up", "exited", "aborted", "lost"}
  /\ Joined
  /\ second = "none" => ReadyIffData
  /\ proc = "lost" => second # "none" /\ sig \in {"join", "drain"}

(* The packets of the queue are there once each, and have a sender.        *)
QueueInv ==
  /\ queue \in Seq(Msgs)
  /\ \A i, j \in 1 .. Len(queue) : queue[i].pkt = queue[j].pkt => i = j
  /\ \A i \in 1 .. Len(queue) : queue[i].src \in Peers

(* What the two threads hold is in neither the queue nor the other's hand, *)
(* and has a sender as soon as run() has read one.                         *)
HandsInv ==
  /\ ioMsg \in Msgs \union {NoMsg} /\ wkMsg \in Msgs \union {NoMsg}
  /\ ioMsg # NoMsg <=> ioPc \in {"recv", "lock", "push"}
  /\ wkMsg # NoMsg <=> wkPc \in {"handle", "send", "recycle"}
  /\ wkConn \in Conns \union {NoConn}
  /\ ioMsg.pkt \notin InQueue /\ wkMsg.pkt \notin InQueue
  /\ ioMsg = NoMsg \/ ioMsg.pkt # wkMsg.pkt
  /\ ioPc \in {"lock", "push"} => ioMsg.src \in Peers
  /\ wkMsg # NoMsg => wkMsg.src \in Peers

OPP == INSTANCE ObjectPoolProofs WITH held <- Held
PoolInv == OP!PoolTypeOK /\ OP!PoolNoAlias /\ OP!FreeListBounded

DataInv == QueueInv /\ HandsInv /\ PoolInv

IInv == NetInv /\ TableInv /\ ControlInv /\ DataInv

(* The invariant says of every variable what TypeOK does.                  *)
LEMMA TypesFollow == IInv => TypeOK
  BY DEF IInv, NetInv, TableInv, ControlInv, DataInv, QueueInv, HandsInv,
     PoolInv, OP!PoolTypeOK, TypeOK

(* The places of the threads, the signals, the mutexes and what the state  *)
(* tells of the queue go together through every step.                      *)
LEMMA ControlStep == ASSUME IInv, [Next]_vars PROVE ControlInv'
<1> USE DEF IInv, ControlInv, DataInv, QueueInv, HandsInv, Joined, ReadyIffData, IoPc, WkPc,
            ioVars, wkVars, queueVars, memVars, stopVars, sigVars
<1>1. CASE Start \/ LoopEnds \/ AcceptFails
  BY <1>1 DEF IoAt, MainReturns, Start, LoopEnds, AcceptFails
<1>2. CASE Select \/ Accept \/ AcceptSkipped \/ Admit
  BY <1>2 DEF IoAt, Select, Accept, AcceptSkipped, Admit
<1>3. CASE SweepErases \/ SweepSkips \/ SweepEnds \/ SweepClaims
  BY <1>3 DEF IoAt, SweepErases, SweepSkips, SweepEnds, SweepClaims
<1>4. CASE IoLocksPool \/ IoGets \/ IoReceives \/ IoDrops
  BY <1>4 DEF IoAt, IoLocksPool, IoGets, IoReceives, IoDrops
<1>5. CASE IoLocks \/ IoPushes
  BY <1>5 DEF IoAt, IoLocks, IoPushes
<1>6. CASE WkChecks \/ WkWaits \/ WkTimesOut \/ WkWakes
  BY <1>6 DEF WkAt, WkIn, WkChecks, WkWaits, WkTimesOut, WkWakes
<1>7. CASE WkTakes \/ WkTakesNothing
  BY <1>7 DEF WkIn, MayTake, WkTakes, WkTakesNothing
<1>8. CASE WkIgnores \/ WkShows \/ WkCrashes
  BY <1>8 DEF WkAt, WkIn, WkIgnores, WkShows, WkCrashes
<1>9. CASE WkSends \/ WkBreaksPipe \/ WkRecycles
  BY <1>9 DEF WkAt, WkIn, WkSends, WkBreaksPipe, WkRecycles
<1>10. CASE StopJoins \/ StopCloses \/ StopDrains
  BY <1>10 DEF StopAt, StopJoins, StopCloses, StopDrains
<1>11. CASE SignalIo \/ SignalWk
  BY <1>11 DEF SignalIo, SignalWk
<1>12. CASE SecondSignal
  BY <1>12 DEF SecondSignal
<1>13. CASE SecondDrains \/ SecondRaces
  BY <1>13 DEF MayTake, SecondDrains, SecondRaces
<1>14. CASE PeerStep
  BY <1>14 DEF PeerStep
<1>15. CASE UNCHANGED vars
  BY <1>15 DEF vars
<1> QED
  BY <1>1, <1>2, <1>3, <1>4, <1>5, <1>6, <1>7, <1>8, <1>9, <1>10, <1>11,
     <1>12, <1>13, <1>14, <1>15 DEF Next, IoStep, WkStep, StopStep,
     SignalStep
(* Every step keeps the order; only accept adds a connection to the ones   *)
(* that were accepted, and only run() and stop() close one.                *)
LEMMA NetStep ==
  ASSUME IInv, [Next]_vars
  PROVE  /\ NetInv' /\ \A c \in Old : peerOf'[c] = peerOf[c]
         /\ Accept \/ (Old' = Old /\ sockets' \subseteq sockets)
         /\ Accept \/ IoDrops \/ StopCloses \/ SecondSignal \/ sockets' = sockets
<1> USE DEF IInv
<1>0. Old \subseteq Conns
  BY DEF Old
<1>1. CASE UNCHANGED netVars
  <2>1. Old' = Old /\ peerOf' = peerOf /\ sockets' = sockets
    BY <1>1 DEF netVars, Old
  <2> QED
    BY <1>1, <2>1, NetFrame
<1>2. CASE Start
  BY <1>2 DEF Start, NetInv, NetTypeOK, InOrder, Old
<1>3. CASE Accept
  <2>1. cur' \in Conns /\ Accepted(cur')
    BY <1>3 DEF Accept
  <2>2. peerOf' = peerOf
    BY <2>1 DEF Accepted, AcceptedFrom
  <2> QED
    BY <1>3, <2>1, <2>2, AcceptKeepsOrder
<1>4. CASE IoReceives
  BY <1>4, ReceiveKeepsOrder DEF IoReceives, Received
<1>5. CASE IoDrops
  <2>1. {cur} \in SUBSET Old /\ Destroyed({cur}) /\ listening' \in BOOLEAN
    BY <1>5 DEF IoDrops, IoAt, TableInv, Watched, NetInv, NetTypeOK
  <2> QED
    BY <1>5, <2>1, DestroyKeepsOrder DEF Destroyed
<1>6. CASE StopCloses \/ SecondSignal
  <2>1. {clients[p] : p \in Keys} \in SUBSET Old
    BY DEF TableInv, Watched, Keys
  <2>2. Destroyed({clients[p] : p \in Keys}) /\ listening' \in BOOLEAN
    BY <1>6 DEF StopCloses, SecondSignal
  <2> HIDE DEF IInv
  <2>3. NetInv' /\ Old' = Old /\ sockets' = sockets \ {clients[p] : p \in Keys}
    BY <2>1, <2>2, DestroyKeepsOrder DEF IInv
  <2> QED
    BY <1>6, <2>2, <2>3 DEF Destroyed
<1>7. CASE PeerStep
  <2>1. NetInv' /\ Old' = Old /\ sockets' = sockets
    BY <1>7, PeersKeepOrder DEF PeerStep
  <2>2. \A c \in Old : peerOf'[c] = peerOf[c]
    BY <1>7 DEF PeerStep, NetNext, PeerConnect, PeerSend, PeerClose, Old, NetInv, NetTypeOK
  <2> QED
    BY <2>1, <2>2
<1> QED
  BY <1>1, <1>2, <1>3, <1>4, <1>5, <1>6, <1>7 DEF Next, IoStep, WkStep,
     StopStep, SignalStep, vars, netVars, LoopEnds, Select, AcceptFails,
     AcceptSkipped, Admit, SweepErases, SweepSkips, SweepEnds, SweepClaims,
     IoLocksPool, IoGets, IoLocks, IoPushes, WkChecks, WkTakes,
     WkTakesNothing, WkWaits, WkTimesOut, WkWakes, WkIgnores, WkShows,
     WkCrashes, WkSends, WkBreaksPipe, WkRecycles, StopJoins, StopDrains,
     SignalIo, SignalWk, SecondDrains, SecondRaces

(* The iterator stays within the keys of the map and clients.end().        *)
LEMMA NextKeyIsThere ==
  ASSUME NEW p \in Nat, TableInv
  PROVE  NextKey(p) \in Keys \union {End} /\ NextKey(p) \in 1 .. End
<1> DEFINE S == {q \in Keys : q > p} \union {End}
<1>1. S \in SUBSET Nat /\ S # {}
  BY SocketsAssumption DEF Keys, End, Peers
<1>2. NextKey(p) \in S
  BY <1>1, LeastIsThere DEF NextKey
<1> QED
  BY <1>2, SocketsAssumption DEF Keys, End, Peers

(* Where nothing is accepted, admitted, erased or dropped, and sockets are *)
(* closed only after a signal, the table goes on to agree.                 *)
LEMMA TableFrame ==
  ASSUME NetInv, NetInv', TableInv, UNCHANGED <<clients, fdset>>,
         ready' \in SUBSET Conns, it' \in 1 .. End, cur' = cur \/ cur' \in Old,
         Old' = Old, \A c \in Old : peerOf'[c] = peerOf[c],
         sockets' \subseteq sockets,
         sig' = "none" => sig = "none" /\ sockets' = sockets,
         ioPc' = "admit" => ioPc = "admit" /\ cur' = cur,
         ioPc' \in {"get", "getting", "recv"} => cur' # NoConn
  PROVE  TableInv'
<1>1. Watched'
  BY DEF TableInv, Watched
<1>2. FdsetAgrees'
  BY DEF TableInv, ClientsAgree, FdsetAgrees
<1>3. StrayOnlyByNameReuse'
  <2> SUFFICES ASSUME NEW c \in fdset \intersect sockets, clients[peerOf'[c]] # c
               PROVE  \E b \in Conns : b < c /\ peerOf'[b] = peerOf'[c]
    BY DEF StrayOnlyByNameReuse
  <2>1. c \in Old /\ peerOf'[c] = peerOf[c]
    BY DEF TableInv, Watched
  <2>2. PICK b \in Conns : b < c /\ peerOf[b] = peerOf[c]
    BY <2>1 DEF TableInv, ClientsAgree, StrayOnlyByNameReuse
  <2>3. b \in Old
    BY <2>1, <2>2 DEF NetInv, InOrder, Old
  <2> QED
    BY <2>1, <2>2, <2>3
<1> QED
  BY <1>1, <1>2, <1>3 DEF TableInv, ClientsAgree, Old
(* The table goes on to agree with fdset and the Sockets through every     *)
(* step of the three contexts.                                             *)
LEMMA TableStep == ASSUME IInv, [Next]_vars PROVE TableInv'
<1> USE DEF IInv
<1>1. /\ NetInv' /\ \A c \in Old : peerOf'[c] = peerOf[c]
      /\ Accept \/ (Old' = Old /\ sockets' \subseteq sockets)
      /\ Accept \/ IoDrops \/ StopCloses \/ SecondSignal \/ sockets' = sockets
  BY NetStep
<1>2. 0 \in Nat /\ it \in Nat /\ \A p \in Nat : NextKey(p) \in 1 .. End
  BY NextKeyIsThere, SocketsAssumption DEF TableInv, End
<1>3. Old \subseteq Conns /\ Peers = 1 .. NumPeers /\ End \in 1 .. End
  BY SocketsAssumption DEF Old, Peers, End
<1> HIDE DEF IInv
<1>4. NetInv /\ TableInv /\ ControlInv
  BY DEF IInv
<1>5. CASE Accept
  <2>1. /\ cur' \in Conns /\ Old' = Old \union {cur'} /\ cur' \notin Old
        /\ sockets' = sockets \union {cur'} /\ \A b \in Old : b < cur'
    BY <1>4, <1>5, AcceptKeepsOrder DEF Accept
  <2>2. /\ UNCHANGED <<clients, fdset, ready, it, sig>> /\ ioPc' = "admit"
        /\ peerOf' = peerOf
    BY <1>5 DEF Accept, Accepted, AcceptedFrom, tableVars, sigVars, stopVars
  <2>3. Watched'
    BY <1>4, <2>1, <2>2 DEF TableInv, Watched, Conns, NoConn
  <2>4. ClientsAgree'
    BY <1>3, <1>4, <2>1, <2>2 DEF TableInv, Watched, ClientsAgree,
       FdsetAgrees, StrayOnlyByNameReuse, NoConn, Conns
  <2> QED
    BY <1>4, <2>1, <2>2, <2>3, <2>4 DEF TableInv
<1>6. CASE Admit
  <2>1. /\ cur \in Old /\ \A c \in Old : c <= cur
        /\ sig = "none" => cur \in sockets
    BY <1>4, <1>6 DEF TableInv, Watched, Admit, IoAt
  <2>2. /\ UNCHANGED <<netVars, ready, cur, sig>> /\ ioPc' = "sweep"
        /\ fdset' = fdset \union {cur}
        /\ clients' = IF clients[peerOf[cur]] = NoConn
                      THEN [clients EXCEPT ![peerOf[cur]] = cur] ELSE clients
    BY <1>6 DEF Admit, sigVars, stopVars
  <2>3. peerOf[cur] \in Peers /\ Old' = Old /\ sockets' = sockets /\ peerOf' = peerOf
    BY <1>4, <2>1, <2>2 DEF NetInv, InOrder, Old, netVars
  <2>4. \A p \in Peers : clients'[p] = IF p = peerOf[cur] /\ clients[p] = NoConn
                                       THEN cur ELSE clients[p]
    BY <1>4, <2>2 DEF TableInv
  <2>5. it' \in 1 .. End
    <3> DEFINE S == {p \in Peers : clients'[p] # NoConn} \union {End}
    <3>1. it' = Min(S) /\ S \in SUBSET Nat /\ S # {} /\ S \subseteq 1 .. End
      BY <1>6, SocketsAssumption DEF Admit, Peers, End
    <3> HIDE DEF S
    <3> QED
      BY <3>1, LeastIsThere
  <2>6. Watched'
    BY <1>4, <2>1, <2>2, <2>3, <2>4 DEF TableInv, Watched
  <2>7. FdsetAgrees'
    BY <1>4, <2>1, <2>2, <2>3, <2>4 DEF TableInv, ClientsAgree, FdsetAgrees
  <2>8. StrayOnlyByNameReuse'
    <3> SUFFICES ASSUME NEW c \in fdset' \intersect sockets, clients'[peerOf[c]] # c
                 PROVE  \E b \in Conns : b < c /\ peerOf[b] = peerOf[c]
      BY <2>3 DEF StrayOnlyByNameReuse
    <3>1. CASE c = cur
      <4>1. clients[peerOf[c]] # NoConn /\ clients[peerOf[c]] # c
        BY <2>3, <2>4, <3>1
      <4>2. clients[peerOf[c]] \in Old /\ peerOf[clients[peerOf[c]]] = peerOf[c]
        BY <1>4, <2>3, <3>1, <4>1 DEF TableInv, Watched
      <4> DEFINE d == clients[peerOf[c]]
      <4>3. d \in Conns /\ c \in Conns /\ d <= c
        BY <1>3, <2>1, <3>1, <4>2
      <4> HIDE DEF d
      <4>4. d < c
        BY <4>1, <4>3 DEF Conns, d
      <4> QED
        BY <4>2, <4>3, <4>4 DEF d
    <3>2. CASE c # cur
      <4>1. c \in fdset /\ c \in Old /\ peerOf[c] \in Peers
        BY <1>4, <2>2, <3>2 DEF TableInv, Watched, NetInv, InOrder, Old
      <4>2. clients[peerOf[c]] # c
        BY <2>4, <4>1, <1>4 DEF TableInv, Watched, Conns, NoConn, Old
      <4> QED
        BY <1>4, <4>1, <4>2 DEF TableInv, ClientsAgree, StrayOnlyByNameReuse
    <3> QED
      BY <3>1, <3>2
  <2>9. /\ clients' \in [Peers -> Conns \union {NoConn}] /\ fdset' \in SUBSET Conns
        /\ ready' \in SUBSET Conns /\ cur' \in Conns \union {NoConn}
    BY <1>3, <1>4, <2>1, <2>2 DEF TableInv
  <2> QED
    BY <2>5, <2>6, <2>7, <2>8, <2>9 DEF TableInv, ClientsAgree
<1>7. CASE SweepErases
  <2>1. /\ it \in Peers /\ clients[it] \notin sockets /\ ioPc \in {"sweep"}
        /\ clients' = [clients EXCEPT ![it] = NoConn]
        /\ UNCHANGED <<netVars, fdset, ready, cur, sig>> /\ ioPc' \in {"sweep", "hung"}
    BY <1>3, <1>4, <1>7, SocketsAssumption
    DEF SweepErases, IoAt, TableInv, End, sigVars, stopVars
  <2>2. it' \in 1 .. End
    <3>1. it' = it \/ it' \in Keys \/ it' = NextKey(NextKey(it))
      BY <1>7 DEF SweepErases
    <3>2. NextKey(it) \in Nat
      BY <1>2, SocketsAssumption DEF End
    <3>3. Keys \subseteq 1 .. End
      BY <1>3, SocketsAssumption DEF Keys, End
    <3>4. NextKey(NextKey(it)) \in 1 .. End
      BY <1>2, <3>2
    <3> QED
      BY <1>4, <3>1, <3>3, <3>4 DEF TableInv
  <2>3. Old' = Old /\ sockets' = sockets /\ peerOf' = peerOf
    BY <2>1 DEF netVars, Old
  <2>4. \A p \in Peers : clients'[p] = IF p = it THEN NoConn ELSE clients[p]
    BY <1>4, <2>1 DEF TableInv
  <2>5. NoConn \notin sockets /\ NoConn \notin Conns
    BY <1>4 DEF NetInv, NetTypeOK, Conns, NoConn
  <2>6. Watched' /\ FdsetAgrees'
    BY <1>4, <2>1, <2>3, <2>4, <2>5 DEF TableInv, Watched, ClientsAgree, FdsetAgrees
  <2>7. StrayOnlyByNameReuse'
    <3> SUFFICES ASSUME NEW c \in fdset \intersect sockets
                 PROVE  clients[peerOf[c]] = c => clients'[peerOf[c]] = c
      BY <1>4, <2>1, <2>3 DEF StrayOnlyByNameReuse, TableInv, ClientsAgree
    <3>1. peerOf[c] \in Peers
      BY <1>4 DEF TableInv, Watched, NetInv, InOrder, Old
    <3> QED
      BY <2>1, <2>4, <3>1
  <2> QED
    BY <1>4, <2>1, <2>2, <2>6, <2>7 DEF TableInv, ClientsAgree
<1>8. CASE IoDrops
  <2>1. /\ cur \in Old /\ sockets' = sockets \ {cur} /\ it' = NextKey(it)
        /\ fdset' = IF cur \in sockets THEN fdset \ {cur} ELSE fdset
        /\ UNCHANGED <<peerOf, clients, ready, cur, sig>> /\ ioPc' = "sweep"
    BY <1>4, <1>8 DEF IoDrops, IoAt, Destroyed, TableInv, Watched, sigVars, stopVars
  <2>2. Old' = Old
    BY <1>1, <1>8 DEF IoDrops, Accept, IoAt
  <2>3. Watched' /\ FdsetAgrees'
    BY <1>4, <2>1, <2>2 DEF TableInv, Watched, ClientsAgree, FdsetAgrees
  <2>4. StrayOnlyByNameReuse'
    BY <1>4, <2>1 DEF TableInv, ClientsAgree, StrayOnlyByNameReuse
  <2> QED
    BY <1>2, <1>4, <2>1, <2>3, <2>4 DEF TableInv, ClientsAgree
<1>9. CASE SweepClaims
  <2>1. /\ cur' = clients[it] /\ cur' \in sockets /\ ioPc' = "get"
        /\ UNCHANGED <<netVars, clients, fdset, ready, it, sig>>
    BY <1>9 DEF SweepClaims, tableVars, sigVars, stopVars
  <2>2. cur' \in Old /\ cur' # NoConn
    BY <1>4, <2>1 DEF NetInv, NetTypeOK, InOrder, Conns, NoConn
  <2>3. Old' = Old /\ sockets' = sockets
    BY <2>1 DEF netVars, Old
  <2> QED
    BY <1>1, <1>4, <2>1, <2>2, <2>3, TableFrame DEF TableInv
<1>10. ASSUME ~Accept, ~Admit, ~SweepErases, ~IoDrops, ~SweepClaims
       PROVE  TableInv'
  <2>1. Old' = Old /\ sockets' \subseteq sockets
    BY <1>1, <1>10
  <2>2. UNCHANGED <<clients, fdset, cur>> /\ ready' \in SUBSET Conns
    BY <1>4, <1>10 DEF Next, IoStep, WkStep, StopStep, SignalStep, PeerStep,
       vars, tableVars, ioVars, TableInv, Start, LoopEnds, Select,
       AcceptFails, AcceptSkipped, SweepSkips, SweepEnds, IoLocksPool,
       IoGets, IoReceives, IoLocks, IoPushes, WkChecks, WkTakes,
       WkTakesNothing, WkWaits, WkTimesOut, WkWakes, WkIgnores, WkShows,
       WkCrashes, WkSends, WkBreaksPipe, WkRecycles, StopJoins, StopCloses,
       StopDrains, SignalIo, SignalWk, SecondSignal, SecondDrains, SecondRaces
  <2>3. it' \in 1 .. End
    <3>1. it' = it \/ it' = NextKey(0) \/ it' = NextKey(it)
      BY <1>10 DEF Next, IoStep, WkStep, StopStep, SignalStep, PeerStep,
         vars, ioVars, Start, LoopEnds, Select,
         AcceptFails, AcceptSkipped, SweepSkips, SweepEnds, IoLocksPool,
         IoGets, IoReceives, IoLocks, IoPushes, WkChecks, WkTakes,
         WkTakesNothing, WkWaits, WkTimesOut, WkWakes, WkIgnores, WkShows,
         WkCrashes, WkSends, WkBreaksPipe, WkRecycles, StopJoins, StopCloses,
         StopDrains, SignalIo, SignalWk, SecondSignal, SecondDrains, SecondRaces
    <3> QED
      BY <1>2, <1>4, <3>1 DEF TableInv
  <2>4. /\ sig' = "none" => sig = "none" /\ sockets' = sockets
        /\ ioPc' = "admit" => ioPc = "admit"
        /\ ioPc' \in {"get", "getting", "recv"} => ioPc \in {"get", "getting", "recv"}
    BY <1>1, <1>10 DEF Next, IoStep, WkStep, StopStep, SignalStep, PeerStep,
       vars, ioVars, sigVars, stopVars, IoAt, StopAt, Start, LoopEnds, Select,
       AcceptFails, AcceptSkipped, SweepSkips, SweepEnds, IoLocksPool,
       IoGets, IoReceives, IoLocks, IoPushes, WkChecks, WkTakes,
       WkTakesNothing, WkWaits, WkTimesOut, WkWakes, WkIgnores, WkShows,
       WkCrashes, WkSends, WkBreaksPipe, WkRecycles, StopJoins, StopCloses,
       StopDrains, SignalIo, SignalWk, SecondSignal, SecondDrains, SecondRaces
  <2>5. ioPc' \in {"get", "getting", "recv"} => cur' # NoConn
    BY <1>4, <2>2, <2>4 DEF TableInv, Watched
  <2> QED
    BY <1>1, <1>4, <2>1, <2>2, <2>3, <2>4, <2>5, TableFrame
<1> QED
  BY <1>5, <1>6, <1>7, <1>8, <1>9, <1>10
-----------------------------------------------------------------------------
(* What push and pop do to the packets of the queue.                       *)
LEMMA QueueFacts ==
  ASSUME NEW q \in Seq(Msgs)
  PROVE  /\ DOMAIN q = 1 .. Len(q) /\ Len(q) \in Nat
         /\ \A i \in 1 .. Len(q) : q[i] \in Msgs /\ q[i].pkt \in Packets
<1>1. \A i \in 1 .. Len(q) : q[i] \in Msgs
  OBVIOUS
<1> QED
  BY <1>1 DEF Msgs

(* front() and pop() take one packet out, which is not there any more.     *)
LEMMA PopsOne ==
  ASSUME QueueInv, queue # <<>>, queue' = Tail(queue)
  PROVE  /\ QueueInv' /\ Head(queue) \in Msgs /\ Head(queue).src \in Peers
         /\ Head(queue).pkt \in InQueue /\ Head(queue).pkt \in Packets
         /\ InQueue' = InQueue \ {Head(queue).pkt}
<1> USE DEF QueueInv
<1>1. /\ queue' \in Seq(Msgs) /\ Len(queue') = Len(queue) - 1 /\ Len(queue) \in Nat
      /\ Head(queue) = queue[1] /\ 1 \in 1 .. Len(queue)
  OBVIOUS
<1>2. \A i \in 1 .. Len(queue') : i + 1 \in 1 .. Len(queue) /\ queue'[i] = queue[i + 1] /\ i + 1 # 1
  OBVIOUS
<1>3. \A i \in (1 .. Len(queue)) \ {1} : i - 1 \in 1 .. Len(queue') /\ queue[i] = queue'[i - 1]
  OBVIOUS
<1>4. InQueue = {queue[i].pkt : i \in 1 .. Len(queue)} /\ InQueue' = {queue'[i].pkt : i \in 1 .. Len(queue')}
  BY <1>1, QueueFacts DEF InQueue
<1>5. Head(queue) \in Msgs /\ Head(queue).pkt \in Packets /\ Head(queue).src \in Peers
  BY <1>1, QueueFacts
<1>6. InQueue' = InQueue \ {Head(queue).pkt}
  BY <1>1, <1>2, <1>3, <1>4
<1>7. \A i, j \in 1 .. Len(queue') : queue'[i].pkt = queue'[j].pkt => i = j
  <2> SUFFICES ASSUME NEW i \in 1 .. Len(queue'), NEW j \in 1 .. Len(queue'),
                      queue'[i].pkt = queue'[j].pkt
               PROVE  i = j
    OBVIOUS
  <2>1. i + 1 = j + 1
    BY <1>2
  <2> QED
    BY <2>1
<1> QED
  BY <1>1, <1>2, <1>4, <1>5, <1>6, <1>7

(* push() of a packet that is not there puts it there once.                *)
LEMMA PushesOne ==
  ASSUME QueueInv, NEW m \in Msgs, m.pkt \notin InQueue, m.src \in Peers,
         queue' = Append(queue, m)
  PROVE  QueueInv' /\ InQueue' = InQueue \union {m.pkt}
<1> USE DEF QueueInv
<1>1. /\ queue' \in Seq(Msgs) /\ Len(queue') = Len(queue) + 1 /\ Len(queue) \in Nat
      /\ queue'[Len(queue) + 1] = m /\ \A i \in 1 .. Len(queue) : queue'[i] = queue[i]
  OBVIOUS
<1>2. InQueue = {queue[i].pkt : i \in 1 .. Len(queue)} /\ InQueue' = {queue'[i].pkt : i \in 1 .. Len(queue')}
  BY <1>1, QueueFacts DEF InQueue
<1>3. \A i \in 1 .. Len(queue) : queue[i].pkt # m.pkt
  BY <1>2
<1>4. 1 .. Len(queue') = (1 .. Len(queue)) \union {Len(queue) + 1}
  BY <1>1
<1>5. InQueue' = InQueue \union {m.pkt}
  BY <1>1, <1>2, <1>4
<1> QED
  BY <1>1, <1>3, <1>4, <1>5

(* A header that is cleared leaves a message where and whose it was.       *)
LEMMA ClearRelabels ==
  ASSUME NEW m \in Msgs \union {NoMsg}, NEW p
  PROVE  /\ Clear(m, p) \in Msgs \union {NoMsg} /\ (m \in Msgs => Clear(m, p) \in Msgs)
         /\ Clear(m, p).pkt = m.pkt /\ Clear(m, p).src = m.src
         /\ m = NoMsg <=> Clear(m, p) = NoMsg
<1>1. NoMsg = [pkt |-> NoPacket, src |-> NoPeer, show |-> FALSE] /\ NoMsg.pkt = NoPacket
  BY DEF NoMsg, Msg
<1>2. CASE m = NoMsg
  <2> DEFINE r == [m EXCEPT !.show = FALSE]
  <2>0. r = [i \in DOMAIN m |-> IF i = "show" THEN FALSE ELSE m[i]] /\ DOMAIN m = {"pkt", "src", "show"}
    BY <1>1, <1>2
  <2>1. r = m
    <3>1. m = [i \in DOMAIN m |-> m[i]] /\ m["show"] = FALSE
      BY <1>1, <1>2
    <3>2. \A i \in DOMAIN m : (IF i = "show" THEN FALSE ELSE m[i]) = m[i]
      BY <3>1
    <3> HIDE DEF r
    <3> QED
      BY <2>0, <3>1, <3>2, Zenon
  <2>2. Clear(m, p) = NoMsg
    BY <1>1, <1>2, <2>1 DEF Clear
  <2>3. m \notin Msgs
    BY <1>1, <1>2, TcpServerAssumption DEF Msgs
  <2> QED
    BY <1>2, <2>2, <2>3
<1>3. CASE m \in Msgs
  <2>1. Clear(m, p) \in Msgs /\ Clear(m, p).pkt = m.pkt /\ Clear(m, p).src = m.src
    BY <1>3 DEF Clear, Msgs
  <2>2. NoMsg \notin Msgs
    BY <1>1, TcpServerAssumption DEF Msgs
  <2> QED
    BY <1>3, <2>1, <2>2
<1> QED
  BY <1>2, <1>3

(* A cleared header leaves the packets of the queue as they are.           *)
LEMMA RelabelsAll ==
  ASSUME QueueInv, NEW p, queue' = [i \in DOMAIN queue |-> Clear(queue[i], p)]
  PROVE  QueueInv' /\ InQueue' = InQueue
<1> USE DEF QueueInv
<1>1. DOMAIN queue = 1 .. Len(queue) /\ Len(queue) \in Nat
      /\ \A i \in 1 .. Len(queue) : queue[i] \in Msgs
  BY QueueFacts
<1>2. \A i \in 1 .. Len(queue) :
        Clear(queue[i], p) \in Msgs /\ Clear(queue[i], p).pkt = queue[i].pkt
        /\ Clear(queue[i], p).src = queue[i].src
  BY <1>1, ClearRelabels
<1>3. queue' \in [1 .. Len(queue) -> Msgs]
      /\ \A i \in 1 .. Len(queue) : queue'[i].pkt = queue[i].pkt /\ queue'[i].src = queue[i].src
  BY <1>1, <1>2
<1>4. queue' \in Seq(Msgs) /\ Len(queue') = Len(queue)
  BY <1>1, <1>3
<1>5. InQueue = {queue[i].pkt : i \in 1 .. Len(queue)} /\ InQueue' = {queue'[i].pkt : i \in 1 .. Len(queue')}
  BY <1>1, <1>3, <1>4 DEF InQueue
<1>6. InQueue' = InQueue
  <2>1. ASSUME NEW x PROVE x \in InQueue' <=> x \in InQueue
    BY <1>3, <1>4, <1>5
  <2> QED
    BY <2>1
<1>7. QueueInv'
  BY <1>3, <1>4
<1> QED
  BY <1>6, <1>7

(* The packets the server holds change with its steps as the contract of   *)
(* the pool asks: one fetched was held by nobody, one given back is held   *)
(* by nobody afterwards.                                                   *)
LEMMA DataStep ==
  ASSUME IInv, [Next]_vars
  PROVE  QueueInv' /\ HandsInv' /\ [OP!PoolNext]_(OP!poolVars)
<1>1. /\ QueueInv /\ HandsInv /\ PoolInv
      /\ wkPc # "handle" \/ clients[wkMsg.src] \in Conns \union {NoConn}
      /\ \A c \in Conns : remote[c] # "unused" => peerOf[c] \in Peers
  BY DEF IInv, DataInv, NetInv, InOrder, TableInv, HandsInv
<1>2. /\ InQueue \subseteq Packets /\ NoPacket \notin Packets /\ NoPacket \notin InQueue
      /\ NoMsg.pkt = NoPacket /\ \A m \in Msgs : m.pkt \in Packets
      /\ NoMsg \notin Msgs
  <2>1. NoMsg.pkt = NoPacket /\ NoPacket \notin Packets
    BY TcpServerAssumption DEF NoMsg, Msg
  <2>2. \A m \in Msgs : m.pkt \in Packets
    BY DEF Msgs
  <2>3. InQueue \subseteq Packets
    BY <1>1, QueueFacts DEF QueueInv, InQueue
  <2> QED
    BY <2>1, <2>2, <2>3
<1>3. Held \subseteq heap /\ Held \intersect OP!InPool = {}
      /\ pool \in Seq(Packets) /\ heap \subseteq Packets
  BY <1>1 DEF PoolInv, OP!PoolTypeOK, OP!PoolNoAlias
<1>4. ASSUME UNCHANGED <<queue, ioMsg, wkMsg, pool, heap>>,
             ioPc' \in {"recv", "lock", "push"} <=> ioPc \in {"recv", "lock", "push"},
             ioPc' \in {"lock", "push"} => ioPc \in {"lock", "push"},
             wkPc' \in {"handle", "send", "recycle"} <=> wkPc \in {"handle", "send", "recycle"},
             wkConn' \in Conns \union {NoConn}
      PROVE  QueueInv' /\ HandsInv' /\ UNCHANGED OP!poolVars
  BY <1>1, <1>4 DEF QueueInv, HandsInv, InQueue, Held, OP!poolVars
<1>5. CASE IoGets
  <2>1. PICK p \in Packets : OP!Fetch(p) /\ ioMsg' = Msg(p, NoPeer, FALSE)
    BY <1>5 DEF IoGets
  <2>2. p \notin Held
    <3>1. p \in Packets \ heap \/ (pool # <<>> /\ p = Head(pool))
      BY <2>1 DEF OP!Fetch
    <3>2. pool # <<>> => Head(pool) \in OP!InPool
      BY <1>3 DEF OP!InPool
    <3> QED
      BY <1>3, <3>1, <3>2
  <2>3. /\ UNCHANGED <<queue, wkMsg, wkPc, wkConn>> /\ ioPc' = "recv" /\ ioPc = "getting"
    BY <1>5 DEF IoGets, IoAt, queueVars, wkVars
  <2>4. ioMsg = NoMsg /\ InQueue' = InQueue
    BY <1>1, <2>3 DEF HandsInv, InQueue
  <2>5. ioMsg' \in Msgs /\ ioMsg'.pkt = p
    BY <2>1 DEF Msg, Msgs
  <2>6. Held' = Held \union {p}
    BY <1>2, <2>3, <2>4, <2>5 DEF Held
  <2>7. QueueInv' /\ HandsInv'
    BY <1>1, <1>2, <2>2, <2>3, <2>4, <2>5 DEF QueueInv, HandsInv, Held
  <2> QED
    BY <2>1, <2>6, <2>7 DEF OP!PoolNext, OP!Get
<1>6. CASE IoReceives
  <2>1. PICK show \in BOOLEAN : ioMsg' = Msg(ioMsg.pkt, peerOf[cur], show)
    BY <1>6 DEF IoReceives
  <2>2. /\ UNCHANGED <<queue, wkMsg, wkPc, wkConn, pool, heap>> /\ ioPc' = "lock" /\ ioPc = "recv"
    BY <1>6 DEF IoReceives, IoAt, queueVars, wkVars, memVars
  <2>3. peerOf[cur] \in Peers
    BY <1>6 DEF IoReceives, Received, IInv, NetInv, InOrder, Old
  <2>4. ioMsg \in Msgs /\ ioMsg' \in Msgs /\ ioMsg'.pkt = ioMsg.pkt /\ ioMsg'.src \in Peers
    BY <1>1, <2>1, <2>2, <2>3 DEF HandsInv, Msgs, Msg
  <2>5. InQueue' = InQueue
    BY <2>2 DEF InQueue
  <2>6. Held' = Held
    BY <2>2, <2>4, <2>5 DEF Held
  <2>7. QueueInv' /\ HandsInv'
    BY <1>1, <1>2, <2>2, <2>4, <2>5 DEF QueueInv, HandsInv
  <2> QED
    BY <2>2, <2>6, <2>7 DEF OP!poolVars
<1>7. CASE IoDrops
  <2>1. /\ UNCHANGED <<queue, wkMsg, wkPc, wkConn, pool, heap>> /\ ioPc' = "sweep" /\ ioPc = "recv"
        /\ ioMsg' = NoMsg
    BY <1>7 DEF IoDrops, IoAt, queueVars, wkVars, memVars
  <2>2. ioMsg \in Msgs /\ ioMsg.pkt \in Packets /\ InQueue' = InQueue
    BY <1>1, <1>2, <2>1 DEF HandsInv, InQueue
  <2>3. Held' = Held \ {ioMsg.pkt} /\ ioMsg.pkt \in Held
    BY <1>1, <1>2, <2>1, <2>2 DEF Held, HandsInv
  <2>4. QueueInv' /\ HandsInv'
    BY <1>1, <1>2, <2>1, <2>2 DEF QueueInv, HandsInv
  <2> QED
    BY <2>1, <2>2, <2>3, <2>4 DEF OP!PoolNext, OP!Forget
<1>8. CASE IoPushes
  <2>1. /\ queue' = Append(queue, ioMsg) /\ ioMsg' = NoMsg
        /\ ioPc = "push" /\ ioPc' = "sweep" /\ UNCHANGED <<wkMsg, wkConn, pool, heap>>
        /\ wkPc' = IF wkPc = "wait" THEN "lock" ELSE wkPc
    BY <1>8 DEF IoPushes, IoAt, memVars
  <2>2. ioMsg \in Msgs /\ ioMsg.pkt \notin InQueue /\ ioMsg.src \in Peers
    BY <1>1, <2>1 DEF HandsInv
  <2>3. QueueInv' /\ InQueue' = InQueue \union {ioMsg.pkt}
    BY <1>1, <2>1, <2>2, PushesOne
  <2>4. HandsInv'
    BY <1>1, <1>2, <2>1, <2>2, <2>3 DEF HandsInv
  <2>5. Held' = Held
    BY <1>2, <2>1, <2>2, <2>3 DEF Held
  <2> QED
    BY <2>1, <2>3, <2>4, <2>5 DEF OP!poolVars
<1>9. CASE WkTakes
  <2>1. /\ queue # <<>> /\ wkMsg' = Head(queue) /\ queue' = Tail(queue)
        /\ wkPc \in {"lock", "timedout"} /\ wkPc' = "handle"
        /\ UNCHANGED <<ioMsg, ioPc, wkConn, pool, heap>>
    BY <1>9 DEF WkTakes, WkIn, ioVars, memVars
  <2>2. /\ QueueInv' /\ wkMsg' \in Msgs /\ wkMsg'.src \in Peers /\ wkMsg'.pkt \in InQueue
        /\ InQueue' = InQueue \ {wkMsg'.pkt} /\ wkMsg'.pkt \in Packets
    BY <1>1, <2>1, PopsOne
  <2>3. wkMsg = NoMsg
    BY <1>1, <2>1 DEF HandsInv
  <2>4. HandsInv'
    BY <1>1, <1>2, <2>1, <2>2 DEF HandsInv
  <2>5. Held' = Held
    BY <1>2, <2>1, <2>2, <2>3 DEF Held
  <2> QED
    BY <2>1, <2>2, <2>4, <2>5 DEF OP!poolVars
<1>10. CASE WkShows
  <2>1. PICK p \in (heap \ {wkMsg.pkt}) \union {NoPacket} :
          /\ queue' = [i \in DOMAIN queue |-> Clear(queue[i], p)]
          /\ ioMsg' = Clear(ioMsg, p)
    BY <1>10 DEF WkShows
  <2>2. /\ UNCHANGED <<ioPc, wkMsg, pool, heap>> /\ wkPc = "handle" /\ wkPc' = "send"
        /\ wkConn' = clients[wkMsg.src]
    BY <1>10 DEF WkShows, WkAt, WkIn, memVars
  <2>3. QueueInv' /\ InQueue' = InQueue
    BY <1>1, <2>1, RelabelsAll
  <2>4. /\ ioMsg' \in Msgs \union {NoMsg} /\ ioMsg'.pkt = ioMsg.pkt
        /\ ioMsg'.src = ioMsg.src /\ (ioMsg' = NoMsg <=> ioMsg = NoMsg)
    BY <1>1, <2>1, ClearRelabels DEF HandsInv
  <2>5. HandsInv'
    BY <1>1, <2>2, <2>3, <2>4 DEF HandsInv
  <2>6. Held' = Held
    BY <2>2, <2>3, <2>4 DEF Held
  <2> QED
    BY <2>2, <2>3, <2>5, <2>6 DEF OP!poolVars
<1>11. CASE WkRecycles
  <2>1. /\ UNCHANGED <<queue, ioMsg, ioPc, wkConn>> /\ wkPc = "recycle" /\ wkPc' = "check"
        /\ OP!Recycle(wkMsg.pkt) /\ wkMsg' = NoMsg
    BY <1>11 DEF WkRecycles, WkAt, WkIn, queueVars, ioVars
  <2>2. wkMsg \in Msgs /\ wkMsg.pkt \in Packets /\ InQueue' = InQueue
    BY <1>1, <1>2, <2>1 DEF HandsInv, InQueue
  <2>3. Held' = Held \ {wkMsg.pkt} /\ wkMsg.pkt \in Held
    BY <1>1, <1>2, <2>1, <2>2 DEF Held, HandsInv
  <2>4. QueueInv' /\ HandsInv'
    BY <1>1, <1>2, <2>1, <2>2 DEF QueueInv, HandsInv
  <2> QED
    BY <2>1, <2>2, <2>3, <2>4 DEF OP!PoolNext, OP!Push
<1>12. CASE StopDrains \/ SecondDrains
  <2>1. UNCHANGED <<ioMsg, wkMsg, ioPc, wkPc, wkConn>>
    BY <1>12 DEF StopDrains, SecondDrains, ioVars, wkVars
  <2>2. CASE queue # <<>> /\ OP!Recycle(Head(queue).pkt) /\ queue' = Tail(queue)
    <3>1. /\ QueueInv' /\ Head(queue).pkt \in InQueue /\ Head(queue).pkt \in Packets
          /\ InQueue' = InQueue \ {Head(queue).pkt}
      BY <1>1, <2>2, PopsOne
    <3>2. Held' = Held \ {Head(queue).pkt} /\ Head(queue).pkt \in Held
      BY <1>1, <1>2, <2>1, <3>1 DEF Held, HandsInv
    <3>3. ioMsg.pkt \notin InQueue' /\ wkMsg.pkt \notin InQueue'
      BY <1>1, <3>1 DEF HandsInv
    <3>4. HandsInv'
      BY <1>1, <2>1, <3>3 DEF HandsInv
    <3> QED
      BY <2>2, <3>1, <3>2, <3>4 DEF OP!PoolNext, OP!Push
  <2>3. CASE UNCHANGED <<pool, heap, queue>>
    BY <1>1, <1>4, <2>1, <2>3 DEF HandsInv
  <2> QED
    BY <1>12, <2>2, <2>3 DEF StopDrains, SecondDrains
<1>13. ASSUME ~IoGets, ~IoReceives, ~IoDrops, ~IoPushes, ~WkTakes, ~WkShows,
              ~WkRecycles, ~StopDrains, ~SecondDrains
       PROVE  QueueInv' /\ HandsInv' /\ UNCHANGED OP!poolVars
  <2>1. UNCHANGED <<queue, ioMsg, wkMsg, pool, heap>> /\ wkConn' \in {wkConn, NoConn}
    BY <1>13 DEF Next, IoStep, WkStep, StopStep, SignalStep, PeerStep, vars,
       ioVars, wkVars, queueVars, memVars, Start, LoopEnds, Select, Accept,
       AcceptFails, AcceptSkipped, Admit, SweepErases, SweepSkips, SweepEnds,
       SweepClaims, IoLocksPool, IoLocks, WkChecks, WkTakesNothing, WkWaits,
       WkTimesOut, WkWakes, WkIgnores, WkCrashes, WkSends, WkBreaksPipe,
       StopJoins, StopCloses, SignalIo, SignalWk, SecondSignal, SecondRaces
  <2>2. /\ ioPc' \in {"recv", "lock", "push"} <=> ioPc \in {"recv", "lock", "push"}
        /\ ioPc' \in {"lock", "push"} => ioPc \in {"lock", "push"}
    BY <1>13 DEF Next, IoStep, WkStep, StopStep, SignalStep, PeerStep, vars,
       ioVars, IoAt, Start, LoopEnds, Select, Accept,
       AcceptFails, AcceptSkipped, Admit, SweepErases, SweepSkips, SweepEnds,
       SweepClaims, IoLocksPool, IoLocks, WkChecks, WkTakesNothing, WkWaits,
       WkTimesOut, WkWakes, WkIgnores, WkCrashes, WkSends, WkBreaksPipe,
       StopJoins, StopCloses, SignalIo, SignalWk, SecondSignal, SecondRaces
  <2>3. wkPc' \in {"handle", "send", "recycle"} <=> wkPc \in {"handle", "send", "recycle"}
    BY <1>13 DEF Next, IoStep, WkStep, StopStep, SignalStep, PeerStep, vars,
       wkVars, IoAt, WkAt, WkIn, StopAt, Start, LoopEnds, Select, Accept,
       AcceptFails, AcceptSkipped, Admit, SweepErases, SweepSkips, SweepEnds,
       SweepClaims, IoLocksPool, IoLocks, WkChecks, WkTakesNothing, WkWaits,
       WkTimesOut, WkWakes, WkIgnores, WkCrashes, WkSends, WkBreaksPipe,
       StopJoins, StopCloses, SignalIo, SignalWk, SecondSignal, SecondRaces,
       IInv, ControlInv, Joined
  <2> QED
    BY <1>1, <1>4, <2>1, <2>2, <2>3 DEF HandsInv
<1> QED
  BY <1>5, <1>6, <1>7, <1>8, <1>9, <1>10, <1>11, <1>12, <1>13
-----------------------------------------------------------------------------
(* One step of the server keeps the whole invariant, and is a step of the  *)
(* pool or leaves it alone.                                                *)
LEMMA IInvStep ==
  ASSUME IInv, [Next]_vars
  PROVE  IInv' /\ [OP!PoolNext]_(OP!poolVars)
<1>1. OPP!PoolInv /\ [OPP!PoolNext]_(OPP!poolVars) => OPP!PoolInv'
  BY OPP!PoolStep, TcpServerAssumption DEF OPP!ObjectPoolAssumption
<1>2. PoolInv'
  <2>1. PoolInv /\ [OP!PoolNext]_(OP!poolVars)
    BY DataStep DEF IInv, DataInv
  <2> QED
    BY <1>1, <2>1 DEF PoolInv, OPP!PoolInv, OPP!PoolTypeOK, OP!PoolTypeOK,
       OPP!PoolNoAlias, OP!PoolNoAlias, OPP!FreeListBounded, OP!FreeListBounded,
       OPP!InPool, OP!InPool, OPP!PoolNext, OP!PoolNext, OPP!poolVars,
       OP!poolVars, OPP!Get, OP!Get, OPP!Push, OP!Push, OPP!Forget,
       OP!Forget, OPP!Fetch, OP!Fetch, OPP!Recycle, OP!Recycle
<1> QED
  BY <1>2, NetStep, TableStep, ControlStep, DataStep DEF IInv, DataInv

(* The server starts without connections and without packets.              *)
LEMMA IInvInit == Init => IInv /\ OP!PoolInit
<1> SUFFICES ASSUME Init PROVE IInv /\ OP!PoolInit
  OBVIOUS
<1> USE SocketsAssumption, TcpServerAssumption DEF Init
<1>1. InQueue = {} /\ ioMsg.pkt = NoPacket /\ wkMsg.pkt = NoPacket /\ Held = {}
  BY DEF InQueue, Held, NoMsg, Msg
<1>2. NetInv /\ Old = {}
  BY NetInitKeepsOrder
<1>3. TableInv
  BY <1>2 DEF TableInv, Watched, ClientsAgree, FdsetAgrees, NetInit,
     StrayOnlyByNameReuse, NoConn, End
<1>4. ControlInv
  BY DEF ControlInv, Joined, ReadyIffData, IoPc, WkPc
<1>5. QueueInv /\ HandsInv
  BY <1>1 DEF QueueInv, HandsInv
<1>6. OP!PoolInit
  BY <1>1 DEF OP!PoolInit
<1>7. PoolInv
  BY <1>6 DEF PoolInv, OP!PoolTypeOK, OP!PoolNoAlias, OP!FreeListBounded, OP!PoolInit, OP!InPool
<1> QED
  BY <1>2, <1>3, <1>4, <1>5, <1>6, <1>7 DEF IInv, DataInv

(* The invariant holds of every state of the server.                       *)
LEMMA Invariance == Spec => []IInv
  BY IInvInit, IInvStep, PTL DEF Spec

(* Every variable keeps its type, and a thread holds a packet or a mutex   *)
(* where, and only where, run() and process() say so.                      *)
THEOREM TypeCorrect == Spec => []TypeOK
  BY Invariance, TypesFollow, PTL

(* STATE_DATAREADY tells of a packet in the queue as long as stop() runs   *)
(* once, and no front() of an empty queue comes without a second signal.   *)
THEOREM StateTellsOfQueue == Spec => []QueueTells
<1>1. IInv => QueueTells
  BY TypesFollow DEF IInv, ControlInv, QueueTells
<1> QED
  BY <1>1, Invariance, PTL

(* The select loop watches open descriptors only, all of the table's, and  *)
(* leaves one out of the table only under a name that is used again.       *)
THEOREM TableAgrees == Spec => []ClientsAgree
<1>1. IInv => ClientsAgree
  BY DEF IInv, TableInv
<1> QED
  BY <1>1, Invariance, PTL

(* The server, with its two threads and stop(), implements what the pool   *)
(* may ask of its clients.                                                 *)
THEOREM ServerUsesPool == Spec => UsesPool
<1>1. [Next]_vars /\ IInv => [OP!PoolNext]_(OP!poolVars)
  BY IInvStep
<1> QED
  BY <1>1, IInvInit, Invariance, PTL DEF Spec, UsesPool, OP!PoolSpec

(* So no packet the server holds is in the free list, nor twice in it.     *)
THEOREM NoPacketServesTwoMessages == Spec => []OP!PoolNoAlias
<1>1. IInv => OP!PoolNoAlias
  BY DEF IInv, DataInv, PoolInv
<1> QED
  BY <1>1, Invariance, PTL
=============================================================================
