------------------------- MODULE EpollServerProofs --------------------------
(***************************************************************************)
(* Theorems about EpollServer, for any number of peers, connections,       *)
(* descriptors and TcpPipes.  A connection has one descriptor number, the  *)
(* number one entry of fd2Socket, and a number is in the epoll set, or in  *)
(* the list of events, only while it is what it was put there for.         *)
(***************************************************************************)
EXTENDS EpollServer, SocketsProofs, FiniteSetTheorems, TLAPS

Kinds == Conns \union {Free, Raw, Listen, EpollFile}

(* An open connection is open on one number, whose entry in fd2Socket it   *)
(* has; other numbers have none.                                           *)
FilesInv ==
  /\ file \in [Fds -> Kinds] /\ fd2Socket \in [Fds -> Conns \union {NoConn}]
  /\ \A f, g \in Fds : file[f] \in Conns /\ file[f] = file[g] => f = g
  /\ \A c \in Conns : c \in sockets <=> \E f \in Fds : file[f] = c
  /\ \A f \in Fds : fd2Socket[f] = IF file[f] \in Conns THEN file[f] ELSE NoConn

(* Only connections, and sockets of start(), are in the epoll set; what is *)
(* in the list of events is there to be read until it is handled.          *)
SetsInv ==
  /\ reset \in SUBSET Conns
  /\ watched \in SUBSET Fds /\ batch \in SUBSET watched
  /\ \A f \in watched : file[f] \in Conns \union {Raw, Listen}
  /\ \A f \in batch : file[f] = Listen \/ (file[f] \in Conns /\ Readable(file[f]))
  /\ io \in {"none", "start", "create", "add"} => watched = {}

(* socketMap has connections under the names of their peers.               *)
NamesInv ==
  /\ socketMap \in [Peers -> Conns \union {NoConn}]
  /\ \A p \in Peers : socketMap[p] # NoConn =>
       socketMap[p] \in Old /\ peerOf[socketMap[p]] = p
  /\ InMapUnlessReused

(* serverFd is the socket of the last start(), or nothing, and the epoll   *)
(* descriptor is open only while ioThread may use it.                      *)
UserInv ==
  /\ serverFd \in Fds \union {NoFd} /\ isRunning \in BOOLEAN
  /\ io \in {"none", "start", "create", "add", "wait", "batch", "exited"}
  /\ user \in {"idle", "tcp", "bind", "run", "exit"} /\ starts \in 0 .. NumPipes
  /\ proc \in {"up", "crashed", "aborted", "ended"} /\ raced \in BOOLEAN
  /\ serverFd # NoFd => file[serverFd] \in {Raw, Listen}
  /\ user = "bind" => serverFd # NoFd /\ file[serverFd] = Raw
  /\ isRunning <=> io \notin {"none", "start"}
  /\ io \in {"none", "start", "create", "exited"} => FdsOn(EpollFile) = {}

(* As long as no start() raced, the first one alone opened a socket, before *)
(* there was a thread.                                                     *)
RaceInv ==
  /\ ~raced =>
       /\ io = "none" => \/ starts = 0 /\ user \in {"idle", "exit"}
                         \/ starts = 1 /\ user \in {"tcp", "bind", "run"}
       /\ starts = 0 \/ user \in {"tcp", "bind"} \/ (user = "run" /\ ~isRunning) => io = "none"
       /\ starts = 0 \/ user = "tcp" => \A f \in Fds : file[f] = Free
       /\ \A f \in Fds : file[f] = Listen => f = serverFd
  /\ FailsOnlyByRace

IInv == NetInv /\ FilesInv /\ SetsInv /\ NamesInv /\ UserInv /\ RaceInv

(* What a number can be open on is told apart.                             *)
LEMMA KindsDiffer ==
  /\ Free \notin Conns /\ Raw \notin Conns /\ Listen \notin Conns /\ EpollFile \notin Conns
  /\ Free # Raw /\ Free # Listen /\ Free # EpollFile
  /\ Raw # Listen /\ Raw # EpollFile /\ Listen # EpollFile
  /\ NoConn \notin Conns /\ NoFd \notin Fds /\ Fds \subseteq Nat /\ Fds # {}
BY EpollServerAssumption DEF Conns, Free, Raw, Listen, EpollFile, NoConn, NoFd, Fds

(* The kernel's new number was free.                                       *)
LEMMA NewFdIsFree == FreeFds # {} => NewFd \in Fds /\ file[NewFd] = Free
<1>1. FreeFds \in SUBSET Nat
  BY KindsDiffer DEF FreeFds
<1> QED
  BY <1>1, LeastIsThere DEF FreeFds, NewFd

(* An accepted connection is a new one, on a number that was free.         *)
LEMMA AcceptFacts ==
  ASSUME IInv, NEW f \in Fds, IoAccepts(f), FreeFds # {}
  PROVE  \E c \in Conns, n \in Fds :
           /\ NetInv' /\ Old' = Old \union {c} /\ c \notin Old /\ \A b \in Old : b < c
           /\ sockets' = sockets \union {c} /\ UNCHANGED <<listening, peerOf, unread>>
           /\ remote' = [remote EXCEPT ![c] = "alive"] /\ remote[c] = "backlog"
           /\ file[n] = Free /\ Registers(c, n)
<1> DEFINE c == Min(Backlog)
<1>1. c \in Conns /\ Accepted(c) /\ remote[c] = "backlog"
  <2>1. Accepted(c)
    BY DEF IoAccepts
  <2>2. Backlog \in SUBSET Nat /\ Backlog # {}
    BY <2>1 DEF Accepted, AcceptedFrom, Backlog, Conns
  <2> QED
    BY <2>1, <2>2, LeastIsThere DEF Backlog
<1>2. Registers(c, NewFd)
  BY DEF IoAccepts
<1> HIDE DEF c
<1> QED
  BY <1>1, <1>2, NewFdIsFree, AcceptKeepsOrder DEF IInv, Accepted, AcceptedFrom

(* An event of a connection finds it in fd2Socket; when nothing is left to *)
(* read its peer is gone, and it leaves all there is but socketMap.        *)
LEMMA DropFacts ==
  ASSUME IInv, NEW f \in Fds, IoReceives(f), fd2Socket[f] # NoConn,
         ~(unread[fd2Socket[f]] > 0)
  PROVE  \E c \in Conns :
           /\ c = file[f] /\ c \in sockets /\ c \in Old
           /\ remote[c] = "closed" /\ Forgets(f, c)
           /\ file' = [file EXCEPT ![f] = Free] /\ watched' = watched \ {f}
           /\ NetInv' /\ Old' = Old /\ sockets' = sockets \ {c} /\ UNCHANGED peerOf
           /\ \A b \in Conns \ {c} : remote'[b] = remote[b] /\ unread'[b] = unread[b]
<1> DEFINE c == fd2Socket[f]
<1> USE KindsDiffer
<1>1. c \in Conns /\ c = file[f] /\ c \in sockets /\ c \in Old /\ \A g \in Fds : file[g] = c => g = f
  BY DEF IInv, FilesInv, NetInv, InOrder
<1>2. Forgets(f, c) /\ proc' = proc
  BY <1>1 DEF IoReceives
<1>3. remote[c] = "closed"
  <2>1. f \in batch /\ file[f] # Listen
    BY <1>1 DEF IoReceives
  <2> QED
    BY <1>1, <2>1 DEF IInv, SetsInv, Readable
<1>4. file' = [file EXCEPT ![f] = Free]
  BY <1>1, <1>2 DEF Forgets, IInv, FilesInv
<1>5. watched' = watched \ {f}
  BY <1>1, <1>2 DEF Forgets, FdsOn
<1>6. Destroyed({c}) /\ listening' \in BOOLEAN /\ {c} \in SUBSET Old
  BY <1>1, <1>2 DEF Forgets, IInv, NetInv, NetTypeOK
<1>7. NetInv' /\ Old' = Old /\ sockets' = sockets \ {c}
  BY <1>6, DestroyKeepsOrder DEF IInv
<1> HIDE DEF c
<1> QED
  BY <1>1, <1>2, <1>3, <1>4, <1>5, <1>6, <1>7 DEF Destroyed
-----------------------------------------------------------------------------
(* The program's end closes every connection, whatever its client does.    *)
LEMMA JoinStep == ASSUME IInv, ExitJoins PROVE IInv'
<1> USE KindsDiffer DEF IInv
<1>1. /\ proc' = "ended" /\ user = "exit" /\ io = "exited" /\ serverFd' = NoFd
      /\ file' = [f \in Fds |-> Free] /\ fd2Socket' = [f \in Fds |-> NoConn]
      /\ watched' = {} /\ batch' = {} /\ listening' = FALSE
      /\ UNCHANGED <<reset, isRunning, socketMap, io, user, starts, raced>>
  BY DEF ExitJoins, UserAt, userVars
<1>2. NetInv' /\ Old' = Old /\ sockets' = {} /\ UNCHANGED peerOf
  <2>1. Destroyed(sockets) /\ sockets \in SUBSET Old
    BY DEF ExitJoins, NetInv, InOrder
  <2>2. NetInv' /\ Old' = Old /\ sockets' = sockets \ sockets
    BY <1>1, <2>1, DestroyKeepsOrder
  <2> QED
    BY <2>1, <2>2 DEF Destroyed
<1>3. FilesInv' /\ FdsOn(EpollFile)' = {}
  BY <1>1, <1>2 DEF FilesInv, Kinds, FdsOn
<1>4. SetsInv' /\ NamesInv'
  BY <1>1, <1>2 DEF SetsInv, NamesInv, InMapUnlessReused
<1>5. UserInv'
  BY <1>1, <1>3 DEF UserInv
<1>6. RaceInv'
  BY <1>1, <1>3 DEF RaceInv, FailsOnlyByRace
<1> QED
  BY <1>2, <1>3, <1>4, <1>5, <1>6

(* A step that neither accepts nor drops a connection.                     *)
Quiet ==
  /\ NetInv' /\ Old' = Old /\ sockets' = sockets
  /\ \A c \in Old : peerOf'[c] = peerOf[c]
  /\ \A c \in Conns : Readable(c) => Readable(c)' \/ \E f \in batch : IoReceives(f) /\ file[f] = c

(* While the program goes on, every step but an accept and a drop is quiet. *)
LEMMA NetStep ==
  ASSUME IInv, [Next]_vars, ~ExitJoins
  PROVE  \/ \E f \in Fds : IoAccepts(f) /\ FreeFds # {}
         \/ \E f \in Fds : IoReceives(f) /\ fd2Socket[f] # NoConn /\ ~(unread[fd2Socket[f]] > 0)
         \/ Quiet
<1> USE DEF IInv, Quiet
<1>0. NetInv /\ Old \subseteq Conns
  BY DEF Old
<1>1. CASE UNCHANGED netVars
  <2>1. Old' = Old /\ peerOf' = peerOf /\ sockets' = sockets /\ unread' = unread /\ remote' = remote
    BY <1>1 DEF netVars, Old
  <2> QED
    BY <1>1, <2>1, NetFrame DEF Readable
<1>2. CASE StartBinds
  <2>1. listening' \in BOOLEAN /\ UNCHANGED <<peerOf, remote, unread, sockets>>
    BY <1>0, <1>2 DEF StartBinds, NetInv, NetTypeOK
  <2>2. Old' = Old
    BY <2>1 DEF Old
  <2> QED
    BY <1>0, <2>1, <2>2 DEF NetInv, NetTypeOK, InOrder, Readable
<1>3. CASE PeerStep
  <2>1. NetInv' /\ Old' = Old /\ sockets' = sockets
    BY <1>0, <1>3, PeersKeepOrder DEF PeerStep
  <2>2. \A c \in Old : peerOf'[c] = peerOf[c]
    BY <1>0, <1>3 DEF PeerStep, NetNext, PeerConnect, PeerSend, PeerClose, Old, NetInv, NetTypeOK
  <2>3. \A c \in Conns : Readable(c) => Readable(c)'
    BY <1>0, <1>3, <2>1 DEF PeerStep, NetNext, PeerConnect, PeerSend, PeerClose, Readable, NetInv, NetTypeOK
  <2> QED
    BY <2>1, <2>2, <2>3
<1>4. ASSUME NEW c \in Conns, PeerResets(c) PROVE Quiet
  <2>1. /\ remote' = [remote EXCEPT ![c] = "closed"] /\ unread' = [unread EXCEPT ![c] = 0]
        /\ remote[c] = "alive" /\ UNCHANGED <<listening, peerOf, sockets>>
    BY <1>4 DEF PeerResets
  <2>2. Old' = Old
    BY <1>0, <2>1 DEF Old, NetInv, NetTypeOK
  <2>3. NetTypeOK'
    BY <1>0, <2>1, SocketsAssumption DEF NetInv, NetTypeOK
  <2>4. InOrder'
    BY <1>0, <2>1, <2>2 DEF NetInv, NetTypeOK, InOrder
  <2> QED
    BY <1>0, <2>1, <2>2, <2>3, <2>4 DEF NetInv, NetTypeOK, Readable
<1>5. ASSUME NEW f \in Fds, IoReceives(f), fd2Socket[f] # NoConn, unread[fd2Socket[f]] > 0
      PROVE  Quiet
  <2>1. fd2Socket[f] = file[f] /\ file[f] \in Conns /\ file[f] \in sockets
    BY <1>5, KindsDiffer DEF FilesInv
  <2>2. Received(fd2Socket[f]) /\ f \in batch
    BY <1>5, <2>1 DEF IoReceives
  <2>3. NetInv' /\ Old' = Old /\ sockets' = sockets
    BY <1>0, <2>2, ReceiveKeepsOrder
  <2>4. \A c \in Conns \ {file[f]} : Readable(c) => Readable(c)'
    BY <1>0, <2>1, <2>2 DEF Received, Readable, NetInv, NetTypeOK
  <2>5. peerOf' = peerOf
    BY <2>2 DEF Received
  <2> QED
    BY <1>5, <2>1, <2>2, <2>3, <2>4, <2>5
<1>6. ASSUME NEW f \in Fds, IoReceives(f), fd2Socket[f] = NoConn PROVE UNCHANGED netVars
  BY <1>0, <1>6, KindsDiffer DEF IoReceives, kernelVars, NetInv, NetTypeOK
<1>7. ASSUME NEW f \in Fds, IoAccepts(f), FreeFds = {} PROVE UNCHANGED netVars
  BY <1>7 DEF IoAccepts
<1> QED
  BY <1>1, <1>2, <1>3, <1>4, <1>5, <1>6, <1>7 DEF Next, UserStep, IoBegin,
     IoStep, vars, kernelVars, netVars, StartTests, StartThrows, StartTcp,
     RunTests, ExitBegins, ExitThrows, IoStarts, IoCreates, IoAdds, IoWaits

(* What a step that is not about a connection does to the numbers.         *)
Opens(n, k) == file[n] = Free /\ file' = [file EXCEPT ![n] = k]

(* The numbers and fd2Socket go together through every step.               *)
LEMMA FilesStep == ASSUME IInv, [Next]_vars, ~ExitJoins PROVE FilesInv'
<1> USE KindsDiffer DEF IInv
<1>1. ASSUME NEW f \in Fds, IoAccepts(f), FreeFds # {} PROVE FilesInv'
  <2>1. PICK c \in Conns, n \in Fds :
          /\ c \notin Old /\ sockets' = sockets \union {c}
          /\ file[n] = Free /\ Registers(c, n)
    BY <1>1, AcceptFacts
  <2>2. fd2Socket[n] = NoConn /\ c \notin sockets /\ \A g \in Fds : file[g] # c
    BY <2>1 DEF FilesInv, NetInv, InOrder
  <2>3. /\ fd2Socket' = [fd2Socket EXCEPT ![n] = c]
        /\ \A g \in Fds : file'[g] = IF g = n THEN c
                                    ELSE IF file[g] = EpollFile /\ file' # [file EXCEPT ![n] = c]
                                         THEN Free ELSE file[g]
        /\ file' \in [Fds -> Kinds]
    BY <2>1, <2>2 DEF Registers, FilesInv, Kinds
  <2>4. \A g \in Fds, d \in Conns : file'[g] = d <=> (file[g] = d \/ (g = n /\ d = c))
    BY <2>1, <2>2, <2>3
  <2>5. \A g \in Fds : fd2Socket'[g] = IF file'[g] \in Conns THEN file'[g] ELSE NoConn
    BY <2>1, <2>2, <2>3 DEF FilesInv
  <2>6. \A d \in Conns : d \in sockets' <=> \E g \in Fds : file'[g] = d
    BY <2>1, <2>4 DEF FilesInv
  <2> QED
    BY <2>1, <2>2, <2>3, <2>4, <2>5, <2>6 DEF FilesInv
<1>2. ASSUME NEW f \in Fds, IoReceives(f), fd2Socket[f] # NoConn, ~(unread[fd2Socket[f]] > 0)
      PROVE  FilesInv'
  <2>1. PICK c \in Conns :
          /\ c = file[f] /\ c \in sockets /\ Forgets(f, c)
          /\ file' = [file EXCEPT ![f] = Free] /\ sockets' = sockets \ {c}
    BY <1>2, DropFacts
  <2> QED
    BY <2>1 DEF Forgets, FilesInv, Kinds
<1>3. ASSUME Quiet, fd2Socket' = fd2Socket, file' \in [Fds -> Kinds],
             \A f \in Fds : (file'[f] \in Conns \/ file[f] \in Conns) => file'[f] = file[f]
      PROVE  FilesInv'
  <2>1. \A f \in Fds, c \in Conns : file'[f] = c <=> file[f] = c
    BY <1>3
  <2>2. sockets' = sockets
    BY <1>3 DEF Quiet
  <2> QED
    BY <1>3, <2>1, <2>2 DEF FilesInv
<1>4. CASE StartTcp \/ StartBinds \/ IoCreates \/ IoAdds
  <2>1. Quiet
    <3>1. io # "batch" \/ user' # user
      BY <1>4 DEF StartTcp, StartBinds, IoCreates, IoAdds, UserAt, IoAt
    <3>2. \A f \in Fds : IoAccepts(f) \/ IoReceives(f) => io = "batch" /\ user' = user
      BY DEF IoAccepts, IoReceives, IoAt, userVars
    <3> QED
      BY <3>1, <3>2, NetStep
  <2>2. CASE StartTcp
    BY <1>3, <2>1, <2>2, NewFdIsFree DEF StartTcp, FilesInv, Kinds, tableVars
  <2>3. CASE StartBinds
    BY <1>3, <2>1, <2>3 DEF StartBinds, UserAt, UserInv, FilesInv, Kinds, tableVars
  <2>4. CASE IoCreates
    BY <1>3, <2>1, <2>4, NewFdIsFree DEF IoCreates, FilesInv, Kinds, tableVars
  <2>5. CASE IoAdds
    BY <1>3, <2>1, <2>5 DEF IoAdds, FilesInv, Kinds, tableVars
  <2> QED
    BY <1>4, <2>2, <2>3, <2>4, <2>5
<1>5. ASSUME UNCHANGED <<file, fd2Socket>>, Quiet PROVE FilesInv'
  BY <1>3, <1>5 DEF FilesInv
<1>6. ASSUME ~(StartTcp \/ StartBinds \/ IoCreates \/ IoAdds), Quiet
      PROVE  UNCHANGED <<file, fd2Socket>> \/ FilesInv'
  <2>1. ASSUME NEW f \in Fds, IoAccepts(f), FreeFds = {} PROVE UNCHANGED <<file, fd2Socket>>
    BY <2>1 DEF IoAccepts, tableVars
  <2>2. ASSUME NEW f \in Fds, IoReceives(f), ~(fd2Socket[f] # NoConn /\ ~(unread[fd2Socket[f]] > 0))
        PROVE UNCHANGED <<file, fd2Socket>>
    <3>1. fd2Socket[f] # NoConn => fd2Socket[f] \in sockets
      BY DEF FilesInv
    <3> QED
      BY <2>2, <3>1 DEF IoReceives, kernelVars, tableVars
  <2> QED
    BY <1>1, <1>2, <1>6, <2>1, <2>2 DEF Next, UserStep, IoBegin, IoStep, vars,
       kernelVars, tableVars, StartTests, StartThrows, RunTests, ExitBegins,
       ExitThrows, IoStarts, IoWaits, PeerStep, PeerResets
<1> QED
  BY <1>1, <1>2, <1>4, <1>5, <1>6, NetStep
(* The epoll set and the list of events go with them.                      *)
LEMMA SetsStep == ASSUME IInv, [Next]_vars, ~ExitJoins PROVE SetsInv'
<1> USE KindsDiffer DEF IInv
<1>1. ASSUME NEW f \in Fds, IoAccepts(f), FreeFds # {} PROVE SetsInv'
  <2>1. PICK c \in Conns, n \in Fds :
          /\ c \notin Old /\ sockets' = sockets \union {c} /\ remote' = [remote EXCEPT ![c] = "alive"]
          /\ file[n] = Free /\ Registers(c, n) /\ unread' = unread
    BY <1>1, AcceptFacts
  <2>2. /\ n \notin watched /\ c \notin sockets
        /\ watched' \subseteq watched \union {n} /\ watched \subseteq watched'
    BY <2>1 DEF Registers, SetsInv, NetInv, InOrder
  <2>3. \A g \in Fds : file'[g] = IF g = n THEN c
                         ELSE IF file[g] = EpollFile /\ file' # [file EXCEPT ![n] = c]
                              THEN Free ELSE file[g]
    BY <2>1 DEF Registers, FilesInv
  <2>4. batch' = batch \ {f} /\ io' \in {"wait", "batch"} /\ reset' = reset
    BY <1>1 DEF IoAccepts, Handled
  <2>5. \A d \in Conns : Readable(d) => Readable(d)'
    BY <2>1, <2>2 DEF Readable, NetInv, NetTypeOK
  <2>6. \A g \in watched : file'[g] = file[g] /\ g # n
    BY <2>2, <2>3 DEF SetsInv
  <2>7. \A g \in batch' : file'[g] = Listen \/ (file'[g] \in Conns /\ Readable(file[g])')
    BY <2>4, <2>5, <2>6 DEF SetsInv
  <2> QED
    BY <2>1, <2>2, <2>3, <2>4, <2>6, <2>7 DEF SetsInv
<1>2. ASSUME NEW f \in Fds, IoReceives(f), fd2Socket[f] # NoConn, ~(unread[fd2Socket[f]] > 0)
      PROVE  SetsInv'
  <2>1. PICK c \in Conns :
          /\ c = file[f] /\ sockets' = sockets \ {c} /\ Forgets(f, c)
          /\ file' = [file EXCEPT ![f] = Free] /\ watched' = watched \ {f}
          /\ \A b \in Conns \ {c} : remote'[b] = remote[b] /\ unread'[b] = unread[b]
    BY <1>2, DropFacts
  <2>2. batch' = batch \ {f} /\ io' \in {"wait", "batch"} /\ reset' = reset
    BY <1>2, <2>1 DEF IoReceives, Handled, Forgets
  <2>3. \A d \in Conns \ {c} : Readable(d) => Readable(d)'
    BY <2>1 DEF Readable
  <2>4. \A g \in watched \ {f} : file'[g] = file[g] /\ file[g] # c
    BY <2>1 DEF SetsInv, FilesInv
  <2> QED
    BY <2>1, <2>2, <2>3, <2>4 DEF SetsInv
<1>3. ASSUME Quiet, reset' \in SUBSET Conns, watched' \in SUBSET Fds,
             \A f \in watched' : file'[f] \in Conns \union {Raw, Listen},
             batch' \subseteq watched', batch' \subseteq batch,
             \A f \in batch' : file'[f] = file[f],
             io' \in {"none", "start", "create", "add"} => watched' = {}
      PROVE  SetsInv'
  <2>1. \A f \in batch' : ~IoReceives(f)
    BY DEF IoReceives, Handled
  <2>2. \A f \in batch', g \in batch : file[f] \in Conns /\ file[g] = file[f] => g = f
    BY <1>3 DEF FilesInv, SetsInv
  <2>3. \A f \in batch' : file[f] \in Conns => Readable(file[f])'
    BY <1>3, <2>1, <2>2 DEF Quiet, SetsInv
  <2> QED
    BY <1>3, <2>3 DEF SetsInv
<1>4. CASE StartTcp
  <2>1. Quiet
    <3>1. \A f \in Fds : IoAccepts(f) \/ IoReceives(f) => user' = user
      BY DEF IoAccepts, IoReceives, userVars
    <3> QED
      BY <1>4, <3>1, NetStep DEF StartTcp, UserAt
  <2>2. file[NewFd] = Free /\ NewFd \in Fds /\ file' = [file EXCEPT ![NewFd] = Raw]
    BY <1>4, NewFdIsFree DEF StartTcp
  <2> QED
    BY <1>3, <1>4, <2>1, <2>2 DEF StartTcp, SetsInv, FilesInv, ioVars
<1>5. CASE StartBinds
  <2>1. Quiet
    <3>1. \A f \in Fds : IoAccepts(f) \/ IoReceives(f) => user' = user
      BY DEF IoAccepts, IoReceives, userVars
    <3> QED
      BY <1>5, <3>1, NetStep DEF StartBinds, UserAt
  <2>2. serverFd \in Fds /\ file[serverFd] = Raw /\ serverFd \notin batch
    BY <1>5 DEF StartBinds, UserAt, UserInv, SetsInv
  <2> QED
    BY <1>3, <1>5, <2>1, <2>2 DEF StartBinds, SetsInv, FilesInv
<1>6. CASE IoStarts \/ IoCreates \/ IoAdds
  <2>1. Quiet
    <3>1. \A f \in Fds : IoAccepts(f) \/ IoReceives(f) => io = "batch"
      BY DEF IoAccepts, IoReceives, IoAt
    <3> QED
      BY <1>6, <3>1, NetStep DEF IoStarts, IoCreates, IoAdds, IoAt
  <2>2. watched = {} /\ batch = {}
    BY <1>6 DEF IoStarts, IoCreates, IoAdds, IoAt, SetsInv
  <2>3. CASE IoStarts \/ IoCreates
    BY <1>3, <2>1, <2>2, <2>3 DEF IoStarts, IoCreates, kernelVars, SetsInv
  <2>4. CASE IoAdds
    BY <1>3, <2>1, <2>2, <2>4 DEF IoAdds, SetsInv, UserInv
  <2> QED
    BY <1>6, <2>3, <2>4
<1>7. CASE IoWaits
  BY <1>7 DEF IoWaits, IoAt, PlainIn, In, SetsInv, kernelVars, netVars, Readable
<1>8. ASSUME UNCHANGED <<file, watched>>, reset' \in SUBSET Conns, batch' \subseteq batch,
             Quiet, io' \in {io, "wait", "batch"} \/ (io = "none" /\ io' = "start")
      PROVE  SetsInv'
  BY <1>3, <1>8 DEF SetsInv
<1>9. ASSUME ~(StartTcp \/ StartBinds \/ IoStarts \/ IoCreates \/ IoAdds \/ IoWaits), Quiet
      PROVE  SetsInv'
  <2>1. ASSUME NEW f \in Fds, IoAccepts(f), FreeFds = {} PROVE SetsInv'
    BY <1>8, <1>9, <2>1 DEF IoAccepts, Handled, SetsInv
  <2>2. ASSUME NEW f \in Fds, IoReceives(f), ~(fd2Socket[f] # NoConn /\ ~(unread[fd2Socket[f]] > 0))
        PROVE SetsInv'
    <3>1. fd2Socket[f] # NoConn => fd2Socket[f] \in sockets
      BY DEF FilesInv
    <3>2. UNCHANGED <<file, watched, reset>>
      BY <2>2, <3>1 DEF IoReceives, kernelVars
    <3> QED
      BY <1>8, <1>9, <2>2, <3>2 DEF IoReceives, Handled, SetsInv
  <2>3. CASE RunTests
    BY <1>8, <1>9, <2>3 DEF RunTests, kernelVars, SetsInv
  <2>4. CASE UNCHANGED vars \/ StartTests \/ StartThrows \/ ExitBegins \/ ExitThrows \/ PeerStep
             \/ \E c \in Conns : PeerResets(c)
    BY <1>8, <1>9, <2>4 DEF vars, StartTests, StartThrows, ExitBegins, ExitThrows, PeerStep,
       PeerResets, kernelVars, ioVars, SetsInv
  <2> QED
    BY <1>1, <1>2, <1>9, <2>1, <2>2, <2>3, <2>4 DEF Next, UserStep, IoBegin, IoStep
<1> QED
  BY <1>1, <1>2, <1>4, <1>5, <1>6, <1>7, <1>9, NetStep

(* socketMap and the connections that are open.                            *)
LEMMA NamesStep == ASSUME IInv, [Next]_vars, ~ExitJoins PROVE NamesInv'
<1> USE KindsDiffer DEF IInv
<1>0. /\ Old \subseteq Conns /\ Conns \subseteq Nat /\ sockets \subseteq Old
      /\ \A c \in Old : peerOf[c] \in Peers
  BY DEF NetInv, InOrder, Old, Conns
<1>1. ASSUME NEW f \in Fds, IoAccepts(f), FreeFds # {} PROVE NamesInv'
  <2>1. PICK c \in Conns, n \in Fds :
          /\ NetInv' /\ Old' = Old \union {c} /\ c \notin Old /\ \A b \in Old : b < c
          /\ sockets' = sockets \union {c} /\ UNCHANGED peerOf
          /\ remote[c] = "backlog" /\ Registers(c, n)
    BY <1>1, AcceptFacts
  <2>2. peerOf[c] \in Peers
    BY <2>1 DEF NetInv, InOrder
  <2>3. \A p \in Peers : socketMap'[p] = IF p = peerOf[c] /\ socketMap[p] = NoConn THEN c ELSE socketMap[p]
    BY <2>1 DEF Registers, NamesInv
  <2>4. socketMap' \in [Peers -> Conns \union {NoConn}]
    BY <2>1 DEF Registers, NamesInv
  <2>5. \A p \in Peers : socketMap'[p] # NoConn =>
          socketMap'[p] \in Old' /\ peerOf'[socketMap'[p]] = p
    BY <2>1, <2>2, <2>3 DEF NamesInv
  <2>6. ASSUME NEW b \in sockets'
        PROVE  socketMap'[peerOf'[b]] = b \/ \E d \in Conns : d < b /\ peerOf'[d] = peerOf'[b]
    <3>1. CASE b \in sockets
      <4>1. peerOf[b] \in Peers /\ b # NoConn
        BY <1>0, <3>1
      <4> QED
        BY <2>1, <2>3, <3>1, <4>1 DEF NamesInv, InMapUnlessReused
    <3>2. CASE b = c /\ socketMap[peerOf[c]] = NoConn
      BY <2>1, <2>2, <2>3, <3>2
    <3>3. CASE b = c /\ socketMap[peerOf[c]] # NoConn
      BY <1>0, <2>1, <2>2, <3>3 DEF NamesInv
    <3> QED
      BY <2>1, <3>1, <3>2, <3>3
  <2> QED
    BY <2>4, <2>5, <2>6 DEF NamesInv, InMapUnlessReused
<1>2. ASSUME socketMap' = socketMap, Old' = Old, sockets' \subseteq sockets,
             \A c \in Old : peerOf'[c] = peerOf[c]
      PROVE  NamesInv'
  <2>1. ASSUME NEW c \in sockets' PROVE \A b \in Conns : b < c => b \in Old
    BY <1>0, <1>2 DEF NetInv, InOrder
  <2>2. InMapUnlessReused'
    BY <1>0, <1>2, <2>1 DEF NamesInv, InMapUnlessReused
  <2> QED
    BY <1>0, <1>2, <2>2 DEF NamesInv
<1>3. ASSUME NEW f \in Fds, IoReceives(f), fd2Socket[f] # NoConn, ~(unread[fd2Socket[f]] > 0)
      PROVE  NamesInv'
  BY <1>2, <1>3, DropFacts DEF Forgets
<1>4. CASE Quiet
  <2>1. ASSUME socketMap' # socketMap PROVE \E f \in Fds : IoAccepts(f) /\ FreeFds # {}
    <3>1. \A f \in Fds : IoReceives(f) => socketMap' = socketMap
      BY DEF IoReceives, Forgets, tableVars
    <3>2. \A f \in Fds : IoAccepts(f) /\ FreeFds = {} => socketMap' = socketMap
      BY DEF IoAccepts, tableVars
    <3> QED
      BY <2>1, <3>1, <3>2 DEF Next, UserStep, IoBegin, IoStep, vars, tableVars, StartTests, StartThrows,
         StartTcp, StartBinds, RunTests, ExitBegins, ExitThrows, IoStarts, IoCreates, IoAdds,
         IoWaits, PeerStep, PeerResets
  <2> QED
    BY <1>1, <1>2, <1>4, <2>1 DEF Quiet
<1> QED
  BY <1>1, <1>3, <1>4, NetStep
(* The numbers a step may change, for all but the steps of start() and of  *)
(* ioThread before its loop.                                               *)
LEMMA LoopFiles ==
  ASSUME IInv, [Next]_vars, ~ExitJoins, ~(StartTcp \/ StartBinds \/ IoCreates \/ IoAdds)
  PROVE  \A f \in Fds : \/ file'[f] = file[f]
                        \/ file[f] = Free /\ file'[f] \in Conns \ Old
                        \/ file[f] \in Conns \union {EpollFile} /\ file'[f] = Free
<1> USE KindsDiffer DEF IInv
<1>1. ASSUME NEW e \in Fds, IoAccepts(e)
      PROVE  \A f \in Fds : \/ file'[f] = file[f]
                            \/ file[f] = Free /\ file'[f] \in Conns \ Old
                            \/ file[f] = EpollFile /\ file'[f] = Free
  <2>1. CASE FreeFds = {}
    BY <1>1, <2>1 DEF IoAccepts
  <2>2. CASE FreeFds # {}
    <3>1. PICK c \in Conns \ Old, n \in Fds : file[n] = Free /\ Registers(c, n)
      BY <1>1, <2>2, AcceptFacts
    <3> QED
      BY <3>1 DEF Registers, FilesInv
  <2> QED
    BY <2>1, <2>2
<1>2. ASSUME NEW e \in Fds, IoReceives(e)
      PROVE  \A f \in Fds : file'[f] = file[f] \/ (file[f] \in Conns /\ file'[f] = Free)
  <2>1. CASE fd2Socket[e] # NoConn /\ ~(unread[fd2Socket[e]] > 0)
    <3>1. PICK c \in Conns : c = file[e] /\ file' = [file EXCEPT ![e] = Free]
      BY <1>2, <2>1, DropFacts
    <3> QED
      BY <3>1 DEF FilesInv
  <2>2. CASE fd2Socket[e] # NoConn => unread[fd2Socket[e]] > 0
    <3>1. fd2Socket[e] # NoConn => fd2Socket[e] \in sockets
      BY DEF FilesInv
    <3> QED
      BY <1>2, <2>2, <3>1 DEF IoReceives, kernelVars
  <2> QED
    BY <2>1, <2>2
<1>3. CASE UNCHANGED file
  BY <1>3
<1> QED
  BY <1>1, <1>2, <1>3 DEF Next, UserStep, IoBegin, IoStep, vars, kernelVars, StartTests, StartThrows,
     RunTests, ExitBegins, ExitThrows, IoStarts, IoWaits, PeerStep, PeerResets

(* The server's socket, and where the program and ioThread are.            *)
LEMMA UserKept == ASSUME IInv, [Next]_vars, ~ExitJoins PROVE UserInv'
<1> USE KindsDiffer DEF IInv
<1>1. CASE StartTcp
  <2>1. NewFd \in Fds /\ file[NewFd] = Free /\ file' = [file EXCEPT ![NewFd] = Raw] /\ serverFd' = NewFd
    BY <1>1, NewFdIsFree DEF StartTcp
  <2> QED
    BY <1>1, <2>1 DEF StartTcp, UserInv, FilesInv, ioVars, FdsOn
<1>2. CASE StartBinds
  <2>1. serverFd \in Fds /\ file[serverFd] = Raw
    BY <1>2 DEF StartBinds, UserAt, UserInv
  <2>2. \/ file' = [file EXCEPT ![serverFd] = Listen] /\ serverFd' = serverFd
        \/ file' = [file EXCEPT ![serverFd] = Free] /\ serverFd' = NoFd
    BY <1>2 DEF StartBinds
  <2>3. UNCHANGED <<isRunning, io, starts, proc, raced>> /\ user' = "run"
    BY <1>2 DEF StartBinds
  <2>4. FdsOn(EpollFile) = {} => FdsOn(EpollFile)' = {}
    BY <2>1, <2>2 DEF FdsOn, FilesInv
  <2>5. serverFd' # NoFd => file'[serverFd'] \in {Raw, Listen}
    BY <2>1, <2>2 DEF FilesInv
  <2> QED
    BY <2>1, <2>2, <2>3, <2>4, <2>5 DEF UserInv
<1>3. CASE IoCreates
  <2>1. \/ io' = "exited" /\ file' = file
        \/ io' = "add" /\ \E n \in Fds : file[n] = Free /\ file' = [file EXCEPT ![n] = EpollFile]
    BY <1>3, NewFdIsFree DEF IoCreates
  <2>2. UNCHANGED <<serverFd, isRunning, user, starts, proc, raced>> /\ io = "create"
    BY <1>3 DEF IoCreates, IoAt, userVars
  <2> QED
    BY <2>1, <2>2 DEF UserInv, FilesInv, FdsOn
<1>4. CASE IoAdds
  BY <1>4 DEF IoAdds, IoAt, UserInv, userVars, FilesInv, FdsOn
<1>5. ASSUME ~(StartTcp \/ StartBinds \/ IoCreates \/ IoAdds) PROVE UserInv'
  <2>1. /\ serverFd' = serverFd
        /\ serverFd # NoFd => file'[serverFd] = file[serverFd]
    <3>1. serverFd' = serverFd
      BY <1>5 DEF Next, UserStep, IoBegin, IoStep, vars, StartTests, StartThrows, RunTests, ExitBegins,
         ExitThrows, IoStarts, IoWaits, IoAccepts, IoReceives, PeerStep, PeerResets
    <3> QED
      BY <1>5, <3>1, LoopFiles DEF UserInv
  <2>2. FdsOn(EpollFile) = {} => FdsOn(EpollFile)' = {}
    BY <1>5, LoopFiles DEF FdsOn
  <2>3. CASE UNCHANGED <<io, isRunning, user, starts, proc, raced>>
    BY <2>1, <2>2, <2>3 DEF UserInv
  <2>4. CASE StartTests \/ StartThrows \/ RunTests \/ ExitBegins \/ ExitThrows
    <3>1. /\ user' \in {"idle", "tcp", "bind", "run", "exit"} /\ proc' \in {"up", "aborted", "ended"}
          /\ user' = "bind" => user = "bind"
          /\ starts' \in 0 .. NumPipes
      BY <2>4, EpollServerAssumption DEF StartTests, StartThrows, RunTests, ExitBegins, ExitThrows,
         UserAt, UserInv, userVars
    <3>2. raced' \in BOOLEAN
      <4>1. CASE StartTests
        BY <4>1 DEF StartTests
      <4> QED
        BY <2>4, <4>1 DEF StartThrows, RunTests, ExitBegins, ExitThrows, userVars, UserInv
    <3>3. isRunning' = isRunning /\ (io' = io \/ (io = "none" /\ io' = "start"))
      BY <2>4 DEF StartTests, StartThrows, RunTests, ExitBegins, ExitThrows, ioVars
    <3> QED
      BY <2>1, <2>2, <3>1, <3>2, <3>3 DEF UserInv
  <2>5. CASE IoStarts \/ IoWaits
    BY <2>1, <2>2, <2>5 DEF IoStarts, IoWaits, IoAt, UserInv, userVars, kernelVars, FdsOn
  <2>6. ASSUME NEW f \in Fds, IoAccepts(f) \/ IoReceives(f) PROVE UserInv'
    <3>1. io' \in {"wait", "batch"} /\ io = "batch" /\ proc' \in {"up", "crashed"}
          /\ UNCHANGED <<isRunning, user, starts, raced>>
      BY <2>6 DEF IoAccepts, IoReceives, IoAt, Handled, userVars
    <3> QED
      BY <2>1, <2>2, <3>1 DEF UserInv
  <2> QED
    BY <1>5, <2>3, <2>4, <2>5, <2>6 DEF Next, UserStep, IoBegin, IoStep, vars, PeerStep, PeerResets,
       ioVars, userVars
<1> QED
  BY <1>1, <1>2, <1>3, <1>4, <1>5
(* While nothing raced there is one start() and one thread, and an event   *)
(* that is not of the server's socket is of a connection.                  *)
LEMMA RaceStep == ASSUME IInv, [Next]_vars, ~ExitJoins PROVE RaceInv'
<1> USE KindsDiffer DEF IInv
<1> DEFINE Place == /\ io = "none" => \/ starts = 0 /\ user \in {"idle", "exit"}
                                      \/ starts = 1 /\ user \in {"tcp", "bind", "run"}
                    /\ (starts = 0 \/ user \in {"tcp", "bind"} \/ (user = "run" /\ ~isRunning))
                         => io = "none"
           Alone == /\ starts = 0 \/ user = "tcp" => \A f \in Fds : file[f] = Free
                    /\ \A f \in Fds : file[f] = Listen => f = serverFd
<1>1. RaceInv <=> (~raced => Place /\ Alone) /\ FailsOnlyByRace
  BY DEF RaceInv
<1>2. RaceInv' <=> (~raced' => Place' /\ Alone') /\ FailsOnlyByRace'
  BY DEF RaceInv
<1>3. raced => raced'
  BY DEF Next, UserStep, IoBegin, IoStep, vars, userVars, StartTests, StartThrows, StartTcp, StartBinds,
     RunTests, ExitBegins, ExitThrows, IoStarts, IoCreates, IoAdds, IoWaits, IoAccepts, IoReceives,
     PeerStep, PeerResets
<1>4. ASSUME ~raced' PROVE Place'
  <2>1. Place /\ ~raced
    BY <1>1, <1>3, <1>4
  <2>2. CASE StartTests
    <3>0. ~(starts > 0 /\ ~isRunning)
      BY <1>4, <2>2, Zenon DEF StartTests
    <3>1. starts = 0 \/ isRunning
      BY <3>0, EpollServerAssumption DEF UserInv
    <3>2. /\ user = "idle" /\ starts' = starts + 1 /\ UNCHANGED <<io, isRunning>>
          /\ user' = IF isRunning THEN "run" ELSE "tcp"
      BY <2>2 DEF StartTests, UserAt, ioVars
    <3>3. isRunning => io # "none"
      BY DEF UserInv
    <3>4. starts \in Nat
      BY EpollServerAssumption DEF UserInv
    <3> QED
      BY <2>1, <3>1, <3>2, <3>3, <3>4
  <2>5. CASE StartThrows \/ StartTcp \/ StartBinds \/ ExitBegins \/ ExitThrows
    BY <2>1, <2>5 DEF StartThrows, StartTcp, StartBinds,
       ExitBegins, ExitThrows, UserAt, UserInv, userVars, ioVars
  <2>6. CASE RunTests
    BY <2>1, <2>6 DEF RunTests, UserAt, UserInv
  <2>3. CASE IoBegin \/ IoWaits \/ \E f \in Fds : IoAccepts(f) \/ IoReceives(f)
    <3>1. io # "none" /\ io' # "none" /\ UNCHANGED <<user, starts>> /\ (isRunning => isRunning')
      BY <2>3 DEF IoBegin, IoStarts, IoCreates, IoAdds, IoWaits, IoAccepts, IoReceives, Handled, IoAt,
         userVars
    <3> QED
      BY <2>1, <3>1
  <2>4. CASE UNCHANGED <<io, user, starts, isRunning>>
    BY <2>1, <2>4
  <2> QED
    BY <2>2, <2>3, <2>4, <2>5, <2>6 DEF Next, UserStep, IoStep, vars, PeerStep, PeerResets, userVars, ioVars
<1>5. ASSUME ~raced' PROVE Alone'
  <2>1. Place /\ Alone /\ ~raced
    BY <1>1, <1>3, <1>5
  <2>2. CASE StartTcp
    <3>1. NewFd \in Fds /\ file' = [file EXCEPT ![NewFd] = Raw] /\ user = "tcp" /\ user' = "bind"
          /\ starts' = starts
      BY <2>2, NewFdIsFree DEF StartTcp, UserAt
    <3>2. starts # 0
      BY <2>1, <3>1
    <3> QED
      BY <2>1, <3>1, <3>2 DEF FilesInv
  <2>3. CASE StartBinds
    <3>1. /\ serverFd \in Fds /\ file[serverFd] = Raw /\ user' = "run" /\ starts' = starts
          /\ \/ file' = [file EXCEPT ![serverFd] = Listen] /\ serverFd' = serverFd
             \/ file' = [file EXCEPT ![serverFd] = Free]
      BY <2>3 DEF StartBinds, UserAt, UserInv
    <3>2. starts # 0
      BY <2>1, <2>3 DEF StartBinds, UserAt
    <3> QED
      BY <2>1, <3>1, <3>2 DEF FilesInv
  <2>4. CASE IoCreates \/ IoAdds
    <3>1. /\ \A f \in Fds : file'[f] \in {file[f], Free, EpollFile} /\ io # "none"
          /\ UNCHANGED <<serverFd, starts, user>>
      BY <2>4, NewFdIsFree DEF IoCreates, IoAdds, IoAt, userVars, FilesInv
    <3> QED
      BY <2>1, <3>1
  <2>5. ASSUME ~(StartTcp \/ StartBinds \/ IoCreates \/ IoAdds) PROVE Alone'
    <3>1. \A f \in Fds : file'[f] = Listen => file[f] = Listen
      BY <2>5, LoopFiles
    <3>2. serverFd' = serverFd
      BY <2>5 DEF Next, UserStep, IoBegin, IoStep, vars, StartTests, StartThrows, RunTests, ExitBegins,
         ExitThrows, IoStarts, IoWaits, IoAccepts, IoReceives, PeerStep, PeerResets
    <3>3. ASSUME starts' = 0 \/ user' = "tcp", NEW f \in Fds PROVE file'[f] = Free
      <4>1. CASE \E e \in Fds : IoAccepts(e) \/ IoReceives(e)
        BY <2>1, <3>3, <4>1 DEF IoAccepts, IoReceives, IoAt, userVars
      <4>2. CASE StartTests
        <5>0. ~(starts > 0 /\ ~isRunning)
          BY <1>5, <4>2, Zenon DEF StartTests
        <5>1. starts = 0 \/ isRunning
          BY <5>0, EpollServerAssumption DEF UserInv
        <5>2. starts' # 0 /\ (user' = "tcp" => ~isRunning) /\ file' = file
          BY <4>2, EpollServerAssumption DEF StartTests, UserInv, kernelVars
        <5> QED
          BY <2>1, <3>3, <5>1, <5>2
      <4>3. CASE UNCHANGED <<file, user, starts>>
        BY <2>1, <3>3, <4>3
      <4>4. CASE StartThrows \/ RunTests \/ ExitBegins \/ ExitThrows
        BY <2>1, <3>3, <4>4 DEF StartThrows, RunTests, ExitBegins, ExitThrows, UserAt, kernelVars, userVars
      <4> QED
        BY <2>5, <4>1, <4>2, <4>3, <4>4 DEF Next, UserStep, IoBegin, IoStep, vars, IoStarts, IoWaits,
           PeerStep, PeerResets, kernelVars, userVars
    <3> QED
      BY <2>1, <3>1, <3>2, <3>3
  <2> QED
    BY <2>2, <2>3, <2>4, <2>5
<1>6. FailsOnlyByRace'
  <2>0. io' = "exited" => FdsOn(EpollFile)' = {}
    BY UserKept DEF UserInv
  <2>1. CASE UNCHANGED <<proc, user, starts, raced>>
    BY <1>1, <2>0, <2>1 DEF FailsOnlyByRace
  <2>2. CASE StartThrows
    <3>1. raced
      BY <1>1, <2>2 DEF StartThrows, UserAt, FreeFds
    <3> QED
      BY <2>0, <2>2, <3>1 DEF StartThrows, FailsOnlyByRace, userVars
  <2>3. CASE RunTests
    <3>1. io # "none" /\ ~isRunning => raced
      BY <1>1, <2>3 DEF RunTests, UserAt
    <3> QED
      BY <2>0, <2>3, <3>1 DEF RunTests, UserAt, FailsOnlyByRace
  <2>4. CASE ExitThrows
    <3>1. user = "exit" /\ (raced \/ starts = 0)
      BY <1>1, <2>4 DEF ExitThrows, UserAt
    <3> QED
      BY <2>0, <2>4, <3>1 DEF ExitThrows, FailsOnlyByRace, userVars
  <2>5. ASSUME NEW f \in Fds, IoReceives(f) PROVE FailsOnlyByRace'
    <3>1. fd2Socket[f] = NoConn => raced
      <4>1. f \in batch /\ f # serverFd
        BY <2>5 DEF IoReceives
      <4> QED
        BY <1>1, <4>1 DEF FilesInv, SetsInv
    <3>2. proc' = "up" \/ (proc' = "crashed" /\ fd2Socket[f] = NoConn)
      <4>1. fd2Socket[f] # NoConn => fd2Socket[f] \in sockets
        BY DEF FilesInv
      <4> QED
        BY <2>5, <4>1 DEF IoReceives, IoAt
    <3> QED
      BY <1>3, <2>0, <3>1, <3>2 DEF FailsOnlyByRace
  <2>6. CASE proc' = "up"
    BY <2>0, <2>6 DEF FailsOnlyByRace
  <2> QED
    BY <2>1, <2>2, <2>3, <2>4, <2>5, <2>6 DEF Next, UserStep, IoBegin, IoStep, StartTests, StartTcp,
       StartBinds, ExitBegins, IoStarts, IoCreates, IoAdds, IoWaits, IoAccepts, PeerStep, PeerResets,
       UserAt, IoAt, vars, userVars
<1> QED
  BY <1>2, <1>4, <1>5, <1>6
-----------------------------------------------------------------------------
(* The state before main().                                                *)
LEMMA InitInvariant == Init => IInv
<1> SUFFICES ASSUME Init PROVE IInv
  OBVIOUS
<1> USE KindsDiffer, EpollServerAssumption DEF Init
<1>1. NetInv /\ sockets = {}
  BY NetInitKeepsOrder DEF NetInit
<1>2. FilesInv /\ SetsInv
  BY <1>1 DEF FilesInv, SetsInv, Kinds
<1>3. NamesInv
  BY <1>1 DEF NamesInv, InMapUnlessReused
<1>4. UserInv /\ RaceInv
  <2>1. FdsOn(EpollFile) = {}
    BY DEF FdsOn
  <2>2. UserInv
    <3>1. isRunning <=> io \notin {"none", "start"}
      OBVIOUS
    <3>2. isRunning \in BOOLEAN /\ raced \in BOOLEAN
      OBVIOUS
    <3>3. starts \in 0 .. NumPipes
      OBVIOUS
    <3> QED
      BY <2>1, <3>1, <3>2, <3>3 DEF UserInv
  <2>3. RaceInv
    BY <2>1 DEF RaceInv, FailsOnlyByRace
  <2> QED
    BY <2>2, <2>3
<1> QED
  BY <1>1, <1>2, <1>3, <1>4 DEF IInv

(* The connections stay in the order they were made.                       *)
LEMMA IInvStep == IInv /\ [Next]_vars => IInv'
<1> SUFFICES ASSUME IInv, [Next]_vars PROVE IInv'
  OBVIOUS
<1>1. CASE ExitJoins
  BY <1>1, JoinStep
<1>2. CASE ~ExitJoins
  <2>1. NetInv'
    BY <1>2, NetStep, AcceptFacts, DropFacts DEF Quiet
  <2> QED
    BY <1>2, <2>1, FilesStep, SetsStep, NamesStep, UserKept, RaceStep DEF IInv
<1> QED
  BY <1>1, <1>2

(* The six parts hold along every behaviour of the server.                 *)
LEMMA Invariance == Spec => []IInv
BY InitInvariant, IInvStep, PTL DEF Spec

(* For every number of connections, descriptors and TcpPipes: events find  *)
(* their Sockets in fd2Socket however numbers are reused, a connection is  *)
(* in socketMap unless its name returned, and the process dies only by the *)
(* race of start() with a thread that has not run, or without a TcpPipe.   *)
THEOREM EventsFindTheirSockets == Spec => []EpollSafe
<1>1. IInv => EpollSafe
  <2> SUFFICES ASSUME IInv PROVE EpollSafe
    OBVIOUS
  <2> USE KindsDiffer DEF IInv
  <2>1. ASSUME NEW c \in Conns PROVE Cardinality(FdsOn(c)) = IF c \in sockets THEN 1 ELSE 0
    <3>1. CASE c \in sockets
      <4>1. PICK f \in Fds : file[f] = c
        BY <3>1 DEF FilesInv
      <4>2. FdsOn(c) = {f}
        BY <4>1 DEF FilesInv, FdsOn
      <4> QED
        BY <3>1, <4>2, FS_Singleton
    <3>2. CASE c \notin sockets
      <4>1. FdsOn(c) = {}
        BY <3>2 DEF FilesInv, FdsOn
      <4> QED
        BY <3>2, <4>1, FS_EmptySet
    <3> QED
      BY <3>1, <3>2
  <2>2. TypeOK
    BY <2>1 DEF TypeOK, NetInv, FilesInv, SetsInv, NamesInv, UserInv, Kinds
  <2>3. TablesAgree
    BY DEF TablesAgree, EventsFindSockets, FilesInv, SetsInv, NamesInv
  <2> QED
    BY <2>2, <2>3 DEF EpollSafe, RaceInv
<1> QED
  BY <1>1, Invariance, PTL

(* Whatever the numbers, the server closes no connection before its client *)
(* does, unless the program ends, which closes them all.                   *)
THEOREM ServerClosesLast == Spec => ClosesAfterClient
<1>1. IInv /\ [Next]_vars =>
        \A c \in sockets : remote[c] = "alive" => c \in sockets' \/ proc' = "ended"
  <2> SUFFICES ASSUME IInv, [Next]_vars, NEW c \in sockets, remote[c] = "alive", proc' # "ended"
               PROVE  c \in sockets'
    OBVIOUS
  <2>1. ~ExitJoins
    BY DEF ExitJoins
  <2> QED
    BY <2>1, NetStep, AcceptFacts, DropFacts DEF Quiet
<1> QED
  BY <1>1, Invariance, PTL DEF Spec, ClosesAfterClient

(* A connection that was reset is never read again, nor closed before the  *)
(* program ends.                                                           *)
THEOREM ResetsStay == Spec => ResetIsKept
<1>1. IInv /\ [Next]_vars =>
        \A c \in reset : c \in sockets /\ FdsOn(c) \intersect batch = {}
          => \/ c \in sockets' /\ (FdsOn(c) \intersect batch)' = {}
             \/ proc' = "ended"
  <2> SUFFICES ASSUME IInv, [Next]_vars, NEW c \in reset, c \in sockets, FdsOn(c) \intersect batch = {},
                      proc' # "ended"
               PROVE  c \in sockets' /\ (FdsOn(c) \intersect batch)' = {}
    OBVIOUS
  <2> USE KindsDiffer DEF IInv
  <2>0. ~ExitJoins
    BY DEF ExitJoins
  <2>1. c \in Conns
    BY DEF SetsInv
  <2>2. PICK f \in Fds : file[f] = c /\ f \notin batch
    BY <2>1 DEF FilesInv, FdsOn
  <2>3. c \in sockets'
    <3>1. ASSUME NEW g \in Fds, IoReceives(g), fd2Socket[g] # NoConn, ~(unread[fd2Socket[g]] > 0)
          PROVE  c \in sockets'
      <4>1. PICK d \in Conns : d = file[g] /\ sockets' = sockets \ {d}
        BY <3>1, DropFacts
      <4>2. g \in batch
        BY <3>1 DEF IoReceives
      <4> QED
        BY <4>1, <4>2 DEF FdsOn
    <3> QED
      BY <2>0, <3>1, NetStep, AcceptFacts DEF Quiet
  <2>4. \A g \in Fds : file'[g] = c => g = f
    <3>1. c \in Old /\ \A g \in Fds : file[g] = c => g = f
      BY <2>1, <2>2 DEF FilesInv, NetInv, InOrder
    <3>2. \A g \in Fds : file'[g] = c => file[g] = c
      <4>1. CASE StartTcp \/ StartBinds \/ IoCreates \/ IoAdds
        BY <2>1, <4>1 DEF StartTcp, StartBinds, IoCreates, IoAdds, FilesInv
      <4> QED
        BY <2>0, <2>1, <3>1, <4>1, LoopFiles
    <3> QED
      BY <3>1, <3>2
  <2>5. f \notin batch'
    <3>1. CASE IoWaits
      BY <2>2, <3>1 DEF IoWaits, PlainIn
    <3>2. ASSUME ~IoWaits PROVE batch' \subseteq batch
      BY <2>0, <3>2 DEF Next, UserStep, IoBegin, IoStep, vars, ioVars, StartTests, StartThrows, StartTcp,
         StartBinds, RunTests, ExitBegins, ExitThrows, IoStarts, IoCreates, IoAdds, IoAccepts, IoReceives,
         Handled, PeerStep, PeerResets
    <3> QED
      BY <2>2, <3>1, <3>2
  <2> QED
    BY <2>3, <2>4, <2>5 DEF FdsOn
<1> QED
  BY <1>1, Invariance, PTL DEF Spec, ResetIsKept
=============================================================================
