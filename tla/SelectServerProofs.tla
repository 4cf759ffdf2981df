------------------------- MODULE SelectServerProofs -------------------------
(***************************************************************************)
(* Theorems about SelectServer, for any number of TcpPipes, peers and      *)
(* connections and any FD_SETSIZE.  What the threads do to each other      *)
(* hangs on three facts: an entry of socketMap stays once it is there, a   *)
(* socket that was destroyed never comes back, and a name connects again   *)
(* only when its earlier connections are closed.                           *)
(***************************************************************************)
EXTENDS SelectServer, SocketsProofs, FiniteSetTheorems, TLAPS

(* A peer has a name, and its earlier connections are over when it makes   *)
(* the next one.  Connections are made in the order of their numbers, but  *)
(* two server sockets may accept them in another.                          *)
Used == {c \in Conns : remote[c] # "unused"}

PeerInv ==
  /\ NetTypeOK /\ sockets \subseteq Old
  /\ \A c \in Used : peerOf[c] \in Peers /\ \A b \in Conns : b < c => b \in Used
  /\ \A b, c \in Used :
       b < c /\ peerOf[b] = peerOf[c] => remote[b] = "closed" /\ b \notin sockets

(* socketMap has connections under the names of their peers, and receive() *)
(* stands on one of them or behind the last.                               *)
MapInv ==
  /\ \A p \in Keys : socketMap[p] \in Old /\ peerOf[socketMap[p]] = p
  /\ rx = "walk" => it \in Keys \union {End}
  /\ ac = "insert" => newSocket \in Old

(* Without the race there is one start() for a thread, and all of start()  *)
(* is over when the thread runs: it asks the one socket there is.          *)
RaceInv ==
  /\ starts = 0 => ac = "none" /\ user \in {"idle", "join", "recv"}
  /\ ac = "none" => starts = 0 \/ user \in {"tcp", "bind", "run"}
  /\ user = "recv" => ac = "exited"
  /\ user = "bind" => socket # NoServer
  /\ isRunning => ac \notin {"none", "run"}
  /\ ~raced /\ ac # "none" =>
       /\ user \notin {"tcp", "bind"}
       /\ user = "run" => isRunning
       /\ ac \in {"wait", "accept"} => asked = socket

(* The map is empty until the thread runs, and without the race it stays   *)
(* empty if start() failed.                                                *)
EmptyInv ==
  /\ ac \in {"none", "run"} => Keys = {}
  /\ ~raced /\ socket = NoServer /\ proc # "ended" =>
       Keys = {} /\ ac \notin {"wait", "accept", "insert"}

IInv == PeerInv /\ SelectSafe /\ MapInv /\ RaceInv /\ EmptyInv

(* The ends of the walk, and what is no connection, are told apart.        *)
LEMMA Apart ==
  /\ NoConn \notin Conns /\ End \notin Peers /\ Peers \subseteq 1 .. End /\ Peers \subseteq Nat
  /\ Conns \subseteq Nat /\ Old \subseteq Used /\ Used \subseteq Conns /\ Keys \subseteq Peers
  /\ End \in 1 .. End /\ NoServer \notin Servers
BY SocketsAssumption DEF NoConn, Conns, Peers, End, Old, Used, Keys, Servers, NoServer

(* What every step of the network keeps: what was accepted stays so, keeps *)
(* its name, and is never opened again.                                    *)
Kept ==
  /\ PeerInv' /\ Old \subseteq Old' /\ \A c \in Used : peerOf'[c] = peerOf[c] /\ c \in Used'
  /\ sockets' \intersect Old \subseteq sockets

(* Peers connect under a new number, send and close.                       *)
LEMMA PeersKeep == ASSUME PeerInv, NetNext PROVE Kept /\ Old' = Old /\ sockets' = sockets
<1> USE SocketsAssumption DEF PeerInv, NetTypeOK, Kept, Old, Used, Conns, Peers, NoPeer
<1>1. ASSUME NEW p \in Peers, PeerConnect(p) PROVE Kept /\ Old' = Old /\ sockets' = sockets
  <2>1. PICK c \in Conns :
          /\ remote[c] = "unused" /\ \A b \in Conns : b < c => remote[b] # "unused"
          /\ peerOf' = [peerOf EXCEPT ![c] = p]
          /\ remote' = [remote EXCEPT ![c] = "backlog"]
    BY <1>1 DEF PeerConnect
  <2>2. /\ \A b \in Conns : peerOf[b] = p => remote[b] = "closed" /\ b \notin sockets
        /\ UNCHANGED <<listening, unread, sockets>>
    BY <1>1 DEF PeerConnect
  <2>3. c \notin sockets /\ Old' = Old
    BY <2>1, <2>2
  <2>4. ASSUME NEW a \in Used', NEW b \in Used', a < b, peerOf'[a] = peerOf'[b]
        PROVE  remote'[a] = "closed" /\ a \notin sockets'
    <3>1. CASE b = c
      BY <2>1, <2>2, <2>4, <3>1
    <3>2. CASE b # c
      <4>1. b \in Used /\ a # c
        BY <2>1, <2>4, <3>2
      <4> QED
        BY <2>1, <2>2, <2>4, <3>2, <4>1
    <3> QED
      BY <3>1, <3>2
  <2>5. ASSUME NEW a \in Used' PROVE peerOf'[a] \in Peers /\ \A b \in Conns : b < a => b \in Used'
    BY <2>1, <2>5
  <2>6. NetTypeOK'
    BY <2>1, <2>2
  <2> QED
    BY <2>1, <2>2, <2>3, <2>4, <2>5, <2>6
<1>2. ASSUME NEW c \in Conns, PeerSend(c) PROVE Kept /\ Old' = Old /\ sockets' = sockets
  BY <1>2 DEF PeerSend
<1>3. ASSUME NEW c \in Conns, PeerClose(c) PROVE Kept /\ Old' = Old /\ sockets' = sockets
  BY <1>3 DEF PeerClose
<1> QED
  BY <1>1, <1>2, <1>3 DEF NetNext

(* run() accepts a connection that nobody has accepted yet.                *)
LEMMA AcceptKeeps ==
  ASSUME PeerInv, AcAccepts
  PROVE  /\ Kept /\ newSocket' \in Old' /\ newSocket' \notin Old
         /\ Old' = Old \union {newSocket'} /\ sockets' = sockets \union {newSocket'}
<1> DEFINE n == newSocket'
<1>1. n \in Conns /\ AcceptedFrom(Queue, n)
  BY DEF AcAccepts
<1> HIDE DEF n
<1>2. remote[n] = "backlog"
  <2>1. Queue \in SUBSET Nat /\ Queue # {} /\ n = Min(Queue)
    BY <1>1 DEF AcceptedFrom, Queue, Backlog, Conns
  <2>2. n \in Queue
    BY <2>1, LeastIsThere
  <2> QED
    BY <2>2 DEF Queue, Backlog
<1>3. /\ remote' = [remote EXCEPT ![n] = "alive"] /\ sockets' = sockets \union {n}
      /\ UNCHANGED <<listening, peerOf, unread>>
  BY <1>1 DEF AcceptedFrom
<1>4. Old' = Old \union {n} /\ n \notin Old /\ Used' = Used /\ n \in Used
  BY <1>1, <1>2, <1>3 DEF PeerInv, NetTypeOK, Old, Used
<1>5. ASSUME NEW b \in Used', NEW c \in Used', b < c, peerOf'[b] = peerOf'[c]
      PROVE  remote'[b] = "closed" /\ b \notin sockets'
  <2>1. remote[b] = "closed" /\ b \notin sockets
    BY <1>3, <1>4, <1>5 DEF PeerInv
  <2>2. b # n
    BY <1>2, <2>1
  <2> QED
    BY <1>3, <2>1, <2>2 DEF PeerInv, NetTypeOK
<1>6. NetTypeOK'
  BY <1>1, <1>3 DEF PeerInv, NetTypeOK
<1> QED
  BY <1>3, <1>4, <1>5, <1>6 DEF n, Kept, PeerInv

(* recv takes a message off a connection: names and peers stay.            *)
LEMMA ReceiveKeeps ==
  ASSUME PeerInv, NEW c, Received(c)
  PROVE  Kept /\ Old' = Old /\ sockets' = sockets
BY SocketsAssumption DEF PeerInv, NetTypeOK, Kept, Old, Used, Received, Conns, Peers, NoPeer

(* A destroyed socket was accepted once: it closes, and no peer changes.   *)
LEMMA DestroyKeeps ==
  ASSUME PeerInv, NEW S \in SUBSET Old, listening' \in BOOLEAN, Destroyed(S)
  PROVE  Kept /\ Old' = Old /\ sockets' = sockets \ S
<1>1. NetTypeOK' /\ peerOf' = peerOf /\ sockets' = sockets \ S
  BY SocketsAssumption DEF PeerInv, NetTypeOK, Destroyed
<1>2. \A c \in Conns : remote'[c] = IF c \in S THEN "closed" ELSE remote[c]
  BY DEF Destroyed
<1>3. Old' = Old /\ Used' = Used
  BY <1>2 DEF Old, Used
<1>4. \A c \in Used : remote[c] = "closed" => remote'[c] = "closed"
  BY <1>2 DEF Used
<1> QED
  BY <1>1, <1>3, <1>4 DEF Kept, PeerInv

(* A step accepts a new connection, or opens none.                         *)
LEMMA NetStep ==
  ASSUME IInv, [Next]_vars
  PROVE  Kept /\ (AcAccepts \/ (Old' = Old /\ sockets' \subseteq sockets))
<1> USE Apart DEF IInv
<1>0. PeerInv /\ NetTypeOK
  BY DEF PeerInv
<1>1. CASE UNCHANGED netVars
  BY <1>0, <1>1 DEF netVars, Kept, PeerInv, NetTypeOK, Old, Used
<1>2. CASE StartBinds
  <2>1. listening' \in BOOLEAN /\ UNCHANGED <<peerOf, remote, unread, sockets>>
    BY <1>0, <1>2 DEF StartBinds, NetTypeOK
  <2> QED
    BY <1>0, <2>1 DEF Kept, PeerInv, NetTypeOK, Old, Used
<1>3. CASE PeerStep
  <2>1. NetNext
    BY <1>3 DEF PeerStep, NetNext
  <2> QED
    BY <1>0, <2>1, PeersKeep
<1>4. CASE RxReceives
  <2>1. Received(socketMap[it])
    BY <1>4 DEF RxReceives
  <2> QED
    BY <1>0, <2>1, ReceiveKeeps
<1>5. CASE AcRefuses
  <2>1. Destroyed({newSocket}) /\ listening' \in BOOLEAN /\ {newSocket} \in SUBSET Old
    BY <1>0, <1>5 DEF AcRefuses, AcAt, MapInv, NetTypeOK
  <2> QED
    BY <1>0, <2>1, DestroyKeeps
<1>6. CASE RxDestroys
  <2>1. socketMap[it] \in sockets /\ Destroyed({socketMap[it]}) /\ listening' \in BOOLEAN
    BY <1>0, <1>6 DEF RxDestroys, Readable, NetTypeOK
  <2>2. {socketMap[it]} \in SUBSET Old
    BY <1>0, <2>1 DEF PeerInv
  <2> QED
    BY <1>0, <2>1, <2>2, DestroyKeeps
<1>7. CASE ExitEnds
  <2>1. Destroyed(sockets) /\ listening' \in BOOLEAN /\ sockets \in SUBSET Old
    BY <1>0, <1>7 DEF ExitEnds, PeerInv
  <2> QED
    BY <1>0, <2>1, DestroyKeeps
<1>8. CASE AcAccepts
  BY <1>0, <1>8, AcceptKeeps
<1> QED
  BY <1>1, <1>2, <1>3, <1>4, <1>5, <1>6, <1>7, <1>8 DEF Next, UserStep, AcStep, RxStep, ExitStep,
     vars, StartTests, StartTcp, RunTests, AcRuns, AcSelects, AcFails, AcWakes, AcMisses, AcInserts,
     RxBegins, RxLeaves, RxEnds, RxSkips, RxFails, RxCrashes, ExitBegins, ExitThrows, ExitStores

(* Only insert() writes the map: it fills the place of a name once.        *)
LEMMA Inserted ==
  ASSUME IInv, [Next]_vars
  PROVE  \/ socketMap' = socketMap
         \/ /\ AcInserts /\ peerOf[newSocket] \in Peers /\ newSocket \in Old
            /\ socketMap[peerOf[newSocket]] = NoConn
            /\ socketMap' = [socketMap EXCEPT ![peerOf[newSocket]] = newSocket]
<1>1. CASE AcInserts
  <2>1. newSocket \in Old
    BY <1>1 DEF AcInserts, AcAt, IInv, MapInv
  <2>2. peerOf[newSocket] \in Peers
    BY <2>1, Apart DEF IInv, PeerInv
  <2> QED
    BY <1>1, <2>1, <2>2 DEF AcInserts
<1>2. ASSUME ~AcInserts PROVE socketMap' = socketMap
  BY <1>2 DEF Next, UserStep, AcStep, RxStep, ExitStep, vars, stillVars, StartTests, StartTcp,
     StartBinds, RunTests, AcRuns, AcSelects, AcFails, AcWakes, AcAccepts, AcMisses, AcRefuses,
     RxBegins, RxLeaves, RxEnds, RxSkips, RxFails, RxReceives, RxDestroys, RxCrashes, PeerStep,
     ExitBegins, ExitThrows, ExitStores, ExitEnds
<1> QED
  BY <1>1, <1>2

(* An entry of the map stays as it is.                                     *)
LEMMA EntriesStay ==
  ASSUME IInv, [Next]_vars
  PROVE  /\ socketMap' \in [Peers -> Conns \union {NoConn}]
         /\ Keys \subseteq Keys' /\ Keys' \subseteq Peers
         /\ \A p \in Keys : socketMap'[p] = socketMap[p]
         /\ \A p \in Keys' \ Keys :
              AcInserts /\ p = peerOf[newSocket] /\ socketMap'[p] = newSocket /\ newSocket \in Old
<1> USE Apart DEF IInv, SelectSafe, TypeOK, Keys
<1>1. CASE socketMap' = socketMap
  BY <1>1
<1>2. CASE /\ AcInserts /\ peerOf[newSocket] \in Peers /\ newSocket \in Old
           /\ socketMap[peerOf[newSocket]] = NoConn
           /\ socketMap' = [socketMap EXCEPT ![peerOf[newSocket]] = newSocket]
  BY <1>2
<1> QED
  BY <1>1, <1>2, Inserted

(* The walk goes on within the map, and run() holds what it accepted.      *)
LEMMA MapStep == ASSUME IInv, [Next]_vars PROVE MapInv'
<1>0. Old \subseteq Old' /\ \A c \in Old : peerOf'[c] = peerOf[c]
  BY NetStep, Apart DEF Kept
<1>1. ASSUME NEW p \in Keys' PROVE socketMap'[p] \in Old' /\ peerOf'[socketMap'[p]] = p
  <2>1. CASE p \in Keys
    <3>1. socketMap[p] \in Old /\ peerOf[socketMap[p]] = p /\ socketMap'[p] = socketMap[p]
      BY <2>1, EntriesStay DEF IInv, MapInv
    <3> QED
      BY <1>0, <3>1
  <2>2. CASE p \notin Keys
    <3>1. p = peerOf[newSocket] /\ socketMap'[p] = newSocket /\ newSocket \in Old
      BY <1>1, <2>2, EntriesStay
    <3> QED
      BY <1>0, <3>1
  <2> QED
    BY <2>1, <2>2
<1>2. rx' = "walk" => it' \in Keys' \union {End}
  <2>1. rx' = "walk" => it' \in Keys \union {End}
    BY DEF IInv, MapInv, WalkFrom, Next, UserStep, AcStep, RxStep, ExitStep, vars, stillVars, serverVars, acVars, rxVars,
     userVars, netVars, UserAt, AcAt, RxAt, StartTests, StartTcp, StartBinds, RunTests,
     AcRuns, AcSelects, AcFails, AcWakes, AcAccepts, AcMisses, AcInserts, AcRefuses,
     RxBegins, RxLeaves, RxEnds, RxSkips, RxFails, RxReceives, RxDestroys, RxCrashes,
     PeerStep, ExitBegins, ExitThrows, ExitStores, ExitEnds
  <2> QED
    BY <2>1, EntriesStay
<1>3. ac' = "insert" => newSocket' \in Old'
  <2>1. CASE AcAccepts
    BY <2>1, AcceptKeeps DEF IInv
  <2>2. CASE ~AcAccepts
    <3>1. ac' = "insert" => ac = "insert" /\ newSocket' = newSocket
      BY <2>2 DEF Next, UserStep, AcStep, RxStep, ExitStep, vars, stillVars, serverVars, acVars, rxVars,
     userVars, netVars, UserAt, AcAt, RxAt, StartTests, StartTcp, StartBinds, RunTests,
     AcRuns, AcSelects, AcFails, AcWakes, AcMisses, AcInserts, AcRefuses, RxBegins,
     RxLeaves, RxEnds, RxSkips, RxFails, RxReceives, RxDestroys, RxCrashes, PeerStep,
     ExitBegins, ExitThrows, ExitStores, ExitEnds
    <3> QED
      BY <1>0, <3>1 DEF IInv, MapInv
  <2> QED
    BY <2>1, <2>2
<1> QED
  BY <1>1, <1>2, <1>3 DEF MapInv

(* A second start() that does not see the first one's thread is the race.  *)
LEMMA RaceStep == ASSUME IInv, [Next]_vars PROVE RaceInv'
<1> USE DEF IInv, RaceInv, SelectSafe, TypeOK
<1>1. CASE StartTests
  <2>1. starts \in Nat /\ starts' = starts + 1 /\ user = "idle" /\ user' \in {"run", "tcp"}
    BY <1>1, SelectServerAssumption DEF StartTests, UserAt
  <2>2. starts' # 0 /\ (starts > 0 <=> starts # 0)
    BY <2>1
  <2>3. /\ raced' <=> raced \/ (starts > 0 /\ ~isRunning)
        /\ user' = IF isRunning THEN "run" ELSE "tcp"
        /\ UNCHANGED <<ac, asked, socket, isRunning>>
    BY <1>1 DEF StartTests, acVars, serverVars
  <2>4. CASE isRunning
    <3>1. user' = "run" /\ (raced' <=> raced)
      BY <2>3, <2>4
    <3> QED
      BY <2>1, <2>2, <2>3, <2>4, <3>1
  <2>5. CASE ~isRunning
    <3>1. user' = "tcp" /\ (~raced' => ac = "none")
      BY <2>2, <2>3, <2>5
    <3> QED
      BY <2>2, <2>3, <3>1
  <2> QED
    BY <2>4, <2>5
<1>2. ASSUME ~StartTests PROVE RaceInv'
  <2>1. UNCHANGED <<starts, raced>>
    BY <1>2 DEF Next, UserStep, AcStep, RxStep, ExitStep, vars, stillVars, serverVars, acVars, rxVars,
     userVars, netVars, UserAt, AcAt, RxAt, StartTcp, StartBinds, RunTests, AcRuns,
     AcSelects, AcFails, AcWakes, AcAccepts, AcMisses, AcInserts, AcRefuses, RxBegins,
     RxLeaves, RxEnds, RxSkips, RxFails, RxReceives, RxDestroys, RxCrashes, PeerStep,
     ExitBegins, ExitThrows, ExitStores, ExitEnds
  <2>2. CASE UserStep \/ ExitStep
    <3>1. CASE StartTcp \/ StartBinds
      <4>1. user' \in {"bind", "run"} /\ user \in {"tcp", "bind"} /\ UNCHANGED <<ac, isRunning>>
        BY <3>1 DEF StartTcp, StartBinds, UserAt, acVars
      <4>2. starts' # 0 /\ (raced' \/ ac' = "none")
        BY <2>1, <4>1
      <4>3. user' = "bind" => socket' # NoServer
        BY <3>1, <4>1, Apart DEF StartTcp, StartBinds, UserAt, NoServer
      <4> QED
        BY <4>1, <4>2, <4>3
    <3>2. CASE RunTests
      <4>1. /\ user = "run" /\ user' = "idle" /\ UNCHANGED <<asked, socket, isRunning>>
            /\ ac' = ac \/ ac' = "run"
        BY <3>2 DEF RunTests, UserAt, serverVars
      <4>2. starts' # 0 /\ ac' # "none" /\ (isRunning => ac' = ac)
        BY <2>1, <3>2, <4>1 DEF RunTests
      <4> QED
        BY <2>1, <4>1, <4>2
    <3>3. CASE ExitBegins \/ ExitThrows \/ ExitStores \/ ExitEnds
      BY <2>1, <3>3 DEF ExitBegins, ExitThrows, ExitStores, ExitEnds, UserAt, acVars, serverVars,
         userVars
    <3> QED
      BY <1>2, <2>2, <3>1, <3>2, <3>3 DEF UserStep, ExitStep
  <2>3. CASE AcStep
    BY <2>1, <2>3 DEF AcStep, AcAt, AcRuns, AcSelects, AcFails, AcWakes, AcAccepts, AcMisses,
       AcInserts, AcRefuses, serverVars, userVars
  <2>4. CASE RxStep \/ RxCrashes \/ PeerStep \/ UNCHANGED vars
    <3>1. UNCHANGED <<ac, asked, socket, isRunning, user>>
      BY <2>4 DEF RxStep, vars, stillVars, acVars, serverVars, userVars, RxBegins, RxLeaves,
         RxEnds, RxSkips, RxFails, RxReceives, RxDestroys, RxCrashes, PeerStep
    <3> QED
      BY <2>1, <3>1
  <2> QED
    BY <2>2, <2>3, <2>4 DEF Next
<1> QED
  BY <1>1, <1>2

(* No entry is made before there is a socket to accept from.               *)
LEMMA EmptyStep == ASSUME IInv, [Next]_vars PROVE EmptyInv'
<1> USE DEF IInv
<1>1. CASE AcInserts
  <2>1. ac = "insert" /\ ac' = "select" /\ UNCHANGED <<socket, raced, proc>>
    BY <1>1 DEF AcInserts, AcAt, serverVars, userVars
  <2> QED
    BY <2>1 DEF EmptyInv
<1>2. CASE ~AcInserts
  <2>1. Keys' = Keys
    BY <1>2, Inserted DEF Keys
  <2>2. starts \in Nat /\ NoServer \notin Servers
    BY Apart, SelectServerAssumption DEF SelectSafe, TypeOK
  <2>3. CASE AcAccepts
    <3>1. ac = "accept" /\ ac' = "insert" /\ UNCHANGED <<socket, raced, proc>>
      BY <2>3 DEF AcAccepts, AcAt, userVars
    <3> QED
      BY <2>1, <3>1 DEF EmptyInv
  <2>4. ASSUME ~AcAccepts PROVE EmptyInv'
    BY <1>2, <2>1, <2>2, <2>4 DEF EmptyInv, RaceInv, Next, UserStep, AcStep, RxStep, ExitStep, vars, stillVars, serverVars, acVars, rxVars,
     userVars, netVars, UserAt, AcAt, RxAt, StartTests, StartTcp, StartBinds, RunTests,
     AcRuns, AcSelects, AcFails, AcWakes, AcMisses, AcRefuses, RxBegins, RxLeaves, RxEnds,
     RxSkips, RxFails, RxReceives, RxDestroys, RxCrashes, PeerStep, ExitBegins, ExitThrows,
     ExitStores, ExitEnds
  <2> QED
    BY <2>3, <2>4
<1> QED
  BY <1>1, <1>2

(* A destroyed Socket stays in the map, and destroyed.                     *)
LEMMA LeaveStep == ASSUME IInv, [Next]_vars PROVE EndsByALeave'
<1> USE DEF IInv, SelectSafe
<1>1. ASSUME NEW p \in Keys, socketMap[p] \notin sockets
      PROVE  p \in Keys' /\ socketMap'[p] \notin sockets'
  <2>1. socketMap[p] \in Old /\ p \in Keys' /\ socketMap'[p] = socketMap[p]
    BY EntriesStay DEF MapInv
  <2> QED
    BY <1>1, <2>1, NetStep DEF Kept
<1>2. CASE RxFails
  <2>1. it \in Keys /\ socketMap[it] \notin sockets
    BY <1>2 DEF RxFails, RxAt, MapInv
  <2> QED
    BY <1>1, <2>1 DEF EndsByALeave
<1>3. CASE ~RxFails
  <2>1. rx' = "exited" /\ isRunning' => rx = "exited" /\ isRunning
    BY <1>3 DEF Next, UserStep, AcStep, RxStep, ExitStep, vars, stillVars, serverVars, acVars, rxVars,
     userVars, netVars, UserAt, AcAt, RxAt, StartTests, StartTcp, StartBinds, RunTests,
     AcRuns, AcSelects, AcFails, AcWakes, AcAccepts, AcMisses, AcInserts, AcRefuses,
     RxBegins, RxLeaves, RxEnds, RxSkips, RxReceives, RxDestroys, RxCrashes, PeerStep,
     ExitBegins, ExitThrows, ExitStores, ExitEnds
  <2> QED
    BY <1>1, <2>1 DEF EndsByALeave
<1> QED
  BY <1>2, <1>3

(* run() looks at the number of names before it adds one, and without the  *)
(* race it does not lose its socket.                                       *)
LEMMA FullStep == ASSUME IInv, [Next]_vars PROVE EndsWhenFull'
<1> USE SelectServerAssumption DEF IInv, SelectSafe
<1>1. ASSUME NEW S \in SUBSET Peers PROVE IsFiniteSet(S) /\ Cardinality(S) \in Nat
  <2>1. IsFiniteSet(Peers)
    BY SocketsAssumption, FS_Interval DEF Peers
  <2> QED
    BY <2>1, FS_Subset, FS_CardinalityType
<1>2. IsFiniteSet(Keys) /\ Cardinality(Keys) \in Nat /\ Cardinality(Keys) <= SetSize + 1
  BY <1>1 DEF EndsWhenFull, Keys
<1>3. CASE AcInserts
  <2>1. Cardinality(Keys) <= SetSize /\ ac' = "select"
    BY <1>3 DEF AcInserts
  <2>2. Keys' = Keys \/ \E p \in Peers : Keys' = Keys \union {p}
    BY EntriesStay
  <2>3. Cardinality(Keys') <= Cardinality(Keys) + 1
    <3>1. CASE Keys' = Keys
      BY <1>2, <3>1
    <3>2. ASSUME NEW p \in Peers, Keys' = Keys \union {p} PROVE Cardinality(Keys') <= Cardinality(Keys) + 1
      <4>1. Cardinality(Keys') = IF p \in Keys THEN Cardinality(Keys) ELSE Cardinality(Keys) + 1
        BY <1>2, <3>2, FS_AddElement, Zenon
      <4> QED
        BY <1>2, <4>1
    <3> QED
      BY <2>2, <3>1, <3>2
  <2> QED
    BY <1>1, <1>2, <2>1, <2>3, EntriesStay DEF EndsWhenFull
<1>4. CASE ~AcInserts
  <2>1. Keys' = Keys
    BY <1>4, Inserted DEF Keys
  <2>2. CASE AcRefuses
    BY <1>2, <2>1, <2>2 DEF AcRefuses, EndsWhenFull
  <2>3. CASE AcFails
    <3>1. UNCHANGED <<socket, raced>>
      BY <2>3 DEF AcFails, serverVars, userVars
    <3>2. socket = NoServer \/ raced
      BY <2>3 DEF AcFails, AcAt, TypeOK, RaceInv
    <3> QED
      BY <2>1, <3>1, <3>2 DEF EndsWhenFull
  <2>4. ASSUME ~AcRefuses, ~AcFails PROVE EndsWhenFull'
    <3>1. ac' = "exited" /\ ~raced' => ac = "exited" /\ ~raced /\ (socket' = socket \/ socket' = NoServer)
      BY <1>4, <2>4 DEF RaceInv, Next, UserStep, AcStep, RxStep, ExitStep, vars, stillVars, serverVars, acVars, rxVars,
     userVars, netVars, UserAt, AcAt, RxAt, StartTests, StartTcp, StartBinds, RunTests,
     AcRuns, AcSelects, AcWakes, AcAccepts, AcMisses, RxBegins, RxLeaves, RxEnds, RxSkips,
     RxFails, RxReceives, RxDestroys, RxCrashes, PeerStep, ExitBegins, ExitThrows,
     ExitStores, ExitEnds
    <3> QED
      BY <2>1, <3>1 DEF EndsWhenFull
  <2> QED
    BY <2>2, <2>3, <2>4
<1> QED
  BY <1>3, <1>4

(* run() lets go of a socket when it is in the map, or its name was taken  *)
(* by an earlier connection of the same peer.                              *)
LEMMA InMapStep == ASSUME IInv, [Next]_vars PROVE InMapUnlessReused'
<1> USE Apart DEF IInv, SelectSafe, PeerInv, NetTypeOK
<1> SUFFICES ASSUME NEW c \in sockets' \ {newSocket'}
             PROVE  socketMap'[peerOf'[c]] = c \/ \E b \in Conns : b < c /\ peerOf'[b] = peerOf'[c]
  BY DEF InMapUnlessReused
<1>1. c \in sockets /\ c \in Old
  <2>1. CASE AcAccepts
    BY <2>1, AcceptKeeps
  <2>2. CASE ~AcAccepts
    BY <2>2, NetStep
  <2> QED
    BY <2>1, <2>2
<1>2. /\ peerOf'[c] = peerOf[c] /\ peerOf[c] \in Peers
      /\ \A b \in Used : peerOf'[b] = peerOf[b]
  BY <1>1, NetStep DEF Kept
<1>3. CASE c # newSocket
  <2>1. socketMap[peerOf[c]] = c \/ \E b \in Conns : b < c /\ peerOf[b] = peerOf[c]
    BY <1>1, <1>3 DEF InMapUnlessReused
  <2>2. CASE socketMap[peerOf[c]] = c
    <3>1. peerOf[c] \in Keys
      BY <1>1, <1>2, <2>2 DEF Keys
    <3> QED
      BY <1>2, <2>2, <3>1, EntriesStay
  <2>3. ASSUME NEW b \in Conns, b < c, peerOf[b] = peerOf[c] PROVE peerOf'[b] = peerOf'[c]
    <3>1. b \in Used
      BY <1>1, <2>3
    <3> QED
      BY <1>2, <2>3, <3>1
  <2> QED
    BY <2>1, <2>2, <2>3
<1>4. CASE c = newSocket
  <2>1. ac = "insert"
    BY <1>1, <1>4 DEF TypeOK
  <2>2. newSocket' # newSocket
    BY <1>4
  <2>3. CASE AcInserts
    <3>1. CASE socketMap[peerOf[c]] = NoConn
      BY <1>2, <1>4, <2>3, <3>1 DEF AcInserts, TypeOK
    <3>2. CASE socketMap[peerOf[c]] # NoConn
      <4> DEFINE b == socketMap[peerOf[c]]
      <4>1. peerOf[c] \in Keys
        BY <1>2, <3>2 DEF Keys
      <4>2. b \in Old /\ peerOf[b] = peerOf[c] /\ socketMap'[peerOf[c]] = b
        BY <4>1, EntriesStay DEF MapInv
      <4>3. b \in Conns /\ c \in Conns /\ ~(c < b) /\ b \in Used
        BY <1>1, <4>2
      <4> HIDE DEF b
      <4>4. b = c \/ b < c
        <5>1. b \in Nat /\ c \in Nat
          BY <4>3
        <5> QED
          BY <4>3, <5>1
      <4> QED
        BY <1>2, <4>2, <4>3, <4>4
    <3> QED
      BY <3>1, <3>2
  <2>4. CASE AcRefuses
    <3>1. newSocket \notin sockets'
      BY <2>4 DEF AcRefuses, Destroyed
    <3> QED
      BY <1>4, <3>1
  <2>5. ASSUME ~AcInserts, ~AcRefuses PROVE newSocket' = newSocket
    BY <2>1, <2>5 DEF Next, UserStep, AcStep, RxStep, ExitStep, vars, stillVars, serverVars, acVars, rxVars,
     userVars, netVars, UserAt, AcAt, RxAt, StartTests, StartTcp, StartBinds, RunTests,
     AcRuns, AcSelects, AcFails, AcWakes, AcAccepts, AcMisses, RxBegins, RxLeaves, RxEnds,
     RxSkips, RxFails, RxReceives, RxDestroys, RxCrashes, PeerStep, ExitBegins, ExitThrows,
     ExitStores, ExitEnds
  <2> QED
    BY <2>2, <2>3, <2>4, <2>5
<1> QED
  BY <1>3, <1>4

(* The program ends when run() did, and aborts where it joins or assigns   *)
(* a thread.                                                               *)
LEMMA RareStep == ASSUME IInv, [Next]_vars PROVE EndIsRare'
<1> USE DEF IInv, SelectSafe
<1>1. CASE ExitEnds
  <2>1. proc = "up" /\ ac = "exited" /\ Keys' = Keys /\ proc' = "ended" /\ raced' = raced
    BY <1>1 DEF ExitEnds, UserAt, RaceInv, Keys, userVars
  <2>2. CASE socket # NoServer
    BY <2>1, <2>2 DEF EndsWhenFull, EndIsRare
  <2>3. CASE socket = NoServer /\ ~raced
    <3>1. Cardinality(Keys) = 0
      BY <2>1, <2>3, FS_EmptySet DEF EmptyInv
    <3> QED
      BY <2>1, <3>1 DEF EndIsRare
  <2>4. CASE raced
    BY <2>1, <2>4 DEF EndIsRare
  <2> QED
    BY <2>2, <2>3, <2>4
<1>2. CASE ExitThrows
  BY <1>2 DEF ExitThrows, UserAt, EndIsRare, RaceInv, userVars
<1>3. CASE RunTests
  BY <1>3 DEF RunTests, UserAt, EndIsRare, RaceInv
<1>4. CASE UNCHANGED vars
  BY <1>4 DEF vars, userVars, EndIsRare, Keys
<1>5. ASSUME Next, ~ExitEnds, ~ExitThrows, ~RunTests PROVE proc = "up" /\ proc' \in {"up", "crashed"}
  BY <1>5 DEF Next, UserStep, AcStep, RxStep, ExitStep, vars, stillVars, serverVars, acVars, rxVars,
     userVars, netVars, UserAt, AcAt, RxAt, StartTests, StartTcp, StartBinds, AcRuns,
     AcSelects, AcFails, AcWakes, AcAccepts, AcMisses, AcInserts, AcRefuses, RxBegins,
     RxLeaves, RxEnds, RxSkips, RxFails, RxReceives, RxDestroys, RxCrashes, PeerStep,
     ExitBegins, ExitStores
<1> QED
  BY <1>1, <1>2, <1>3, <1>4, <1>5 DEF EndIsRare

(* The variables keep their types.                                         *)
LEMMA TypeStep == ASSUME IInv, [Next]_vars PROVE TypeOK'
<1> USE Apart, SelectServerAssumption DEF IInv, SelectSafe, TypeOK
<1>1. NetTypeOK' /\ socketMap' \in [Peers -> Conns \union {NoConn}]
  BY NetStep, EntriesStay DEF Kept, PeerInv
<1>2. /\ newSocket' \in Conns \union {NoConn}
      /\ newSocket' # NoConn <=> ac' = "insert"
      /\ ac' \in {"none", "run", "select", "wait", "accept", "insert", "exited"}
      /\ asked' \in Servers \union {NoServer}
  BY DEF Next, UserStep, AcStep, RxStep, ExitStep, vars, stillVars, serverVars, acVars, rxVars,
     userVars, netVars, UserAt, AcAt, RxAt, StartTests, StartTcp, StartBinds, RunTests,
     AcRuns, AcSelects, AcFails, AcWakes, AcAccepts, AcMisses, AcInserts, AcRefuses,
     RxBegins, RxLeaves, RxEnds, RxSkips, RxFails, RxReceives, RxDestroys, RxCrashes,
     PeerStep, ExitBegins, ExitThrows, ExitStores, ExitEnds
<1>3. /\ rx' \in {"none", "begin", "walk", "exited"} /\ it' \in 1 .. End
      /\ isRunning' \in BOOLEAN /\ proc' \in {"up", "crashed", "aborted", "ended"}
  BY DEF WalkFrom, Next, UserStep, AcStep, RxStep, ExitStep, vars, stillVars, serverVars, acVars, rxVars,
     userVars, netVars, UserAt, AcAt, RxAt, StartTests, StartTcp, StartBinds, RunTests,
     AcRuns, AcSelects, AcFails, AcWakes, AcAccepts, AcMisses, AcInserts, AcRefuses,
     RxBegins, RxLeaves, RxEnds, RxSkips, RxFails, RxReceives, RxDestroys, RxCrashes,
     PeerStep, ExitBegins, ExitThrows, ExitStores, ExitEnds
<1>4. /\ user' \in {"idle", "tcp", "bind", "run", "join", "recv"} /\ raced' \in BOOLEAN
      /\ starts' \in 0 .. NumPipes
  <2>1. CASE StartTests
    BY <2>1 DEF StartTests
  <2>2. CASE ~StartTests
    BY <2>2 DEF Next, UserStep, AcStep, RxStep, ExitStep, vars, stillVars, serverVars, acVars, rxVars,
     userVars, netVars, UserAt, AcAt, RxAt, StartTcp, StartBinds, RunTests, AcRuns,
     AcSelects, AcFails, AcWakes, AcAccepts, AcMisses, AcInserts, AcRefuses, RxBegins,
     RxLeaves, RxEnds, RxSkips, RxFails, RxReceives, RxDestroys, RxCrashes, PeerStep,
     ExitBegins, ExitThrows, ExitStores, ExitEnds
  <2> QED
    BY <2>1, <2>2
<1>5. via' \in [Conns -> Servers \union {NoServer}]
  BY DEF Next, UserStep, AcStep, RxStep, ExitStep, vars, stillVars, serverVars, acVars, rxVars,
     userVars, netVars, UserAt, AcAt, RxAt, StartTests, StartTcp, StartBinds, RunTests,
     AcRuns, AcSelects, AcFails, AcWakes, AcAccepts, AcMisses, AcInserts, AcRefuses,
     RxBegins, RxLeaves, RxEnds, RxSkips, RxFails, RxReceives, RxDestroys, RxCrashes,
     PeerStep, ExitBegins, ExitThrows, ExitStores, ExitEnds
<1>6. /\ socket' \in Servers \union {NoServer} /\ listens' \in SUBSET Servers
      /\ socket' \in listens' \union {NoServer} \/ user' = "bind"
  <2>1. CASE StartTcp
    <3>1. starts \in Servers
      BY <2>1 DEF StartTcp, UserAt, RaceInv, Servers
    <3> QED
      BY <2>1, <3>1 DEF StartTcp
  <2>2. CASE StartBinds
    <3>1. user = "bind" /\ socket \in Servers
      BY <2>2 DEF StartBinds, UserAt, RaceInv
    <3> QED
      BY <2>2, <3>1 DEF StartBinds
  <2>3. CASE ~StartTcp /\ ~StartBinds
    <3>1. CASE ExitEnds
      BY <3>1 DEF ExitEnds
    <3>2. CASE ~ExitEnds
      <4>1. /\ UNCHANGED <<socket, listens>>
            /\ user = "bind" => user' = "bind"
        BY <2>3, <3>2 DEF Next, UserStep, AcStep, RxStep, ExitStep, vars, stillVars, serverVars, acVars, rxVars,
     userVars, netVars, UserAt, AcAt, RxAt, StartTests, RunTests, AcRuns, AcSelects,
     AcFails, AcWakes, AcAccepts, AcMisses, AcInserts, AcRefuses, RxBegins, RxLeaves,
     RxEnds, RxSkips, RxFails, RxReceives, RxDestroys, RxCrashes, PeerStep, ExitBegins,
     ExitThrows, ExitStores
      <4> QED
        BY <4>1
    <3> QED
      BY <3>1, <3>2
  <2> QED
    BY <2>1, <2>2, <2>3
<1>7. listening' <=> listens' # {}
  <2>1. CASE PeerStep \/ AcStep \/ RxStep
    <3>1. UNCHANGED <<listening, listens>>
      BY <2>1 DEF NetNext, PeerConnect, PeerSend, PeerClose, AcceptedFrom, Received, AcStep, RxStep, stillVars, serverVars, acVars, rxVars, userVars, netVars, AcAt, RxAt,
     AcRuns, AcSelects, AcFails, AcWakes, AcAccepts, AcMisses, AcInserts, AcRefuses,
     RxBegins, RxLeaves, RxEnds, RxSkips, RxFails, RxReceives, RxDestroys, PeerStep, Destroyed
    <3> QED
      BY <3>1
  <2>2. CASE ~(PeerStep \/ AcStep \/ RxStep)
    BY <2>2 DEF Next, UserStep, ExitStep, vars, netVars, serverVars, userVars, StartTests, StartTcp,
       StartBinds, RunTests, ExitBegins, ExitThrows, ExitStores, ExitEnds, RxCrashes, UserAt
  <2> QED
    BY <2>1, <2>2
<1> QED
  BY <1>1, <1>2, <1>3, <1>4, <1>5, <1>6, <1>7

(* IInv holds in every reachable state.                                    *)
LEMMA Invariance == Spec => []IInv
<1>1. Init => IInv
  <2> SUFFICES ASSUME Init PROVE IInv
    OBVIOUS
  <2>1. NetInv /\ Old = {} /\ Used = {} /\ sockets = {}
    BY NetInitKeepsOrder DEF Init, NetInit, Used
  <2>2. Keys = {} /\ Cardinality(Keys) = 0
    BY FS_EmptySet DEF Init, Keys
  <2>3. TypeOK
    <3>1. NetTypeOK /\ ~listening /\ listens = {} /\ 0 \in 0 .. NumPipes
      BY <2>1, SelectServerAssumption DEF Init, NetInit, NetInv
    <3> QED
      BY <3>1, Apart DEF Init, TypeOK
  <2>4. EndsWhenFull /\ EndIsRare
    BY <2>2, SelectServerAssumption DEF Init, EndsWhenFull, EndIsRare
  <2>5. EndsByALeave /\ InMapUnlessReused /\ PeerInv
    BY <2>1 DEF Init, EndsByALeave, InMapUnlessReused, PeerInv, NetInv
  <2> QED
    BY <2>1, <2>2, <2>3, <2>4, <2>5 DEF Init, IInv, SelectSafe, MapInv, RaceInv, EmptyInv
<1>2. IInv /\ [Next]_vars => IInv'
  BY NetStep, MapStep, RaceStep, EmptyStep, LeaveStep, FullStep, InMapStep, RareStep, TypeStep
     DEF Kept, IInv, SelectSafe
<1> QED
  BY <1>1, <1>2, PTL DEF Spec

(* For any number of TcpPipes, clients and connections: receive() ends by  *)
(* a client that left, run() by too many names, a start() that failed or   *)
(* one that raced with it, and so does the program; no accepted socket is  *)
(* lost but for a name used before.                                        *)
THEOREM ThreadsShareTheMap == Spec => []SelectSafe
<1>1. IInv => SelectSafe
  BY DEF IInv
<1> QED
  BY <1>1, Invariance, PTL
=============================================================================
