---------------------------- MODULE SelectServer ----------------------------
(***************************************************************************)
(* class Select of src/tcppipe.hpp under TcpServer<Select>: run(), on      *)
(* ioThread, accepts connections into socketMap; receive(), on recvThread, *)
(* asks the sockets of socketMap one after the other, a second each.  The  *)
(* threads share socketMap and its Sockets without a lock.                 *)
(*                                                                         *)
(* Select is the server of the Windows build, the static that every        *)
(* TcpPipe calls start() and run() on; it is destroyed when the program    *)
(* ends, whether it ran or not.  There select() fails on the descriptor    *)
(* INVALID_SOCKET of a destroyed Socket.  The socket that the n-th TcpPipe *)
(* makes in start() has the name n; the system is never out of sockets.    *)
(***************************************************************************)
EXTENDS Sockets

CONSTANTS
  NumPipes,     \* bound: TcpPipes made in one behaviour
  SetSize       \* FD_SETSIZE

ASSUME SelectServerAssumption == NumPipes \in Nat /\ SetSize \in Nat

Servers == 1 .. NumPipes
NoServer == 0

VARIABLES
  socket, isRunning,    \* AbstractServer
  listens,              \* the server sockets that listen, forgotten ones too
  via,                  \* the server socket in whose queue a connection waits
  socketMap,            \* the map from names to Sockets
  ac, asked, newSocket, \* ioThread, in run(), and the socket select or accept
                        \* is called on
  rx, it,               \* recvThread, in receive()
  user, starts,         \* the program: its place in start(), in run() or in
                        \* the destructors at its end, and TcpPipes made
  proc,                 \* the process: "up", "crashed", "aborted" or "ended"
  raced                 \* history: a later start() saw no thread yet

serverVars == <<socket, listens, via>>
acVars == <<ac, asked, newSocket>>
rxVars == <<rx, it>>
userVars == <<user, starts, raced>>
vars ==
  <<netVars, serverVars, isRunning, socketMap, acVars, rxVars, userVars, proc>>

Keys == {p \in Peers : socketMap[p] # NoConn}
End == NumPeers + 1

Init ==
  /\ NetInit
  /\ socket = NoServer /\ isRunning = FALSE
  /\ listens = {} /\ via = [c \in Conns |-> NoServer]
  /\ socketMap = [p \in Peers |-> NoConn]
  /\ ac = "none" /\ asked = NoServer /\ newSocket = NoConn
  /\ rx = "none" /\ it = End
  /\ user = "idle" /\ starts = 0 /\ raced = FALSE
  /\ proc = "up"
-----------------------------------------------------------------------------
(* AbstractServer::start: the test, the socket, then bind and listen.      *)
UserAt(l) == proc = "up" /\ user = l

StartTests ==
  /\ UserAt("idle") /\ starts < NumPipes
  /\ starts' = starts + 1
  /\ user' = IF isRunning THEN "run" ELSE "tcp"
  /\ raced' = (raced \/ (starts > 0 /\ ~isRunning))
  /\ UNCHANGED <<netVars, serverVars, isRunning, socketMap, acVars, rxVars, proc>>

(* The new socket takes the place of one that listens, which stays open.   *)
StartTcp ==
  /\ UserAt("tcp")
  /\ socket' = starts
  /\ user' = "bind"
  /\ UNCHANGED <<netVars, listens, via, isRunning, socketMap, acVars, rxVars,
                 starts, raced, proc>>

(* Two sockets may listen on the port, as SO_REUSEADDR is set.  The error  *)
(* of a bind or listen that fails is dropped: run() follows.               *)
StartBinds ==
  /\ UserAt("bind")
  /\ \/ /\ listens' = listens \union {socket} /\ listening' = TRUE
        /\ UNCHANGED socket
     \/ socket' = NoServer /\ UNCHANGED <<listens, listening>>
  /\ user' = "run"
  /\ UNCHANGED <<peerOf, remote, unread, sockets, via, isRunning, socketMap,
                 acVars, rxVars, starts, raced, proc>>

(* TcpServer::run: a thread is assigned to ioThread, which ends the        *)
(* process when it has one already.                                        *)
RunTests ==
  /\ UserAt("run")
  /\ IF isRunning THEN UNCHANGED <<ac, proc>>
     ELSE IF ac = "none" THEN ac' = "run" /\ UNCHANGED proc
     ELSE proc' = "aborted" /\ UNCHANGED ac
  /\ user' = "idle"
  /\ UNCHANGED <<netVars, serverVars, isRunning, socketMap, asked, newSocket,
                 rxVars, starts, raced>>
-----------------------------------------------------------------------------
(* Select::run.                                                            *)
AcAt(l) == proc = "up" /\ ac = l

AcRuns ==
  /\ AcAt("run")
  /\ isRunning' = TRUE
  /\ rx' = "begin"
  /\ ac' = "select"
  /\ UNCHANGED <<netVars, serverVars, socketMap, asked, newSocket, it, userVars,
                 proc>>

AcSelects ==
  /\ AcAt("select") /\ socket # NoServer
  /\ asked' = socket /\ ac' = "wait"
  /\ UNCHANGED <<netVars, serverVars, isRunning, socketMap, newSocket, rxVars,
                 userVars, proc>>

(* select fails on a socket that is destroyed, or was while it waits; on   *)
(* one that does not listen yet it may fail.  Then run() returns.          *)
AcFails ==
  /\ \/ AcAt("select") /\ socket \notin listens
     \/ AcAt("wait") /\ asked \notin listens /\ asked # socket
  /\ asked' = NoServer /\ ac' = "exited"
  /\ UNCHANGED <<netVars, serverVars, isRunning, socketMap, newSocket, rxVars,
                 userVars, proc>>

Queue == {c \in Backlog : via[c] = asked}

(* accept is called on what start() has made of the socket since.          *)
AcWakes ==
  /\ AcAt("wait") /\ asked \in listens /\ Queue # {}
  /\ asked' = socket /\ ac' = "accept"
  /\ UNCHANGED <<netVars, serverVars, isRunning, socketMap, newSocket, rxVars,
                 userVars, proc>>

AcAccepts ==
  /\ AcAt("accept") /\ asked \in listens
  /\ newSocket' \in Conns /\ AcceptedFrom(Queue, newSocket')
  /\ via' = [via EXCEPT ![newSocket'] = NoServer]
  /\ asked' = NoServer /\ ac' = "insert"
  /\ UNCHANGED <<socket, listens, isRunning, socketMap, rxVars, userVars, proc>>

(* accept gives no socket where none listens.                              *)
AcMisses ==
  /\ AcAt("accept") /\ asked \notin listens
  /\ asked' = NoServer /\ ac' = "select"
  /\ UNCHANGED <<netVars, serverVars, isRunning, socketMap, newSocket, rxVars,
                 userVars, proc>>

(* Broken variant of AcInserts.                                            *)
InsertFull ==
  /\ AcAt("insert")
  /\ socketMap' = IF socketMap[peerOf[newSocket]] = NoConn
                  THEN [socketMap EXCEPT ![peerOf[newSocket]] = newSocket]
                  ELSE socketMap
  /\ ac' = "select" /\ newSocket' = NoConn
  /\ UNCHANGED <<netVars, serverVars, isRunning, asked, rxVars, userVars, proc>>

(* insert() leaves an entry of the same name as it is.                     *)
AcInserts ==
  /\ AcAt("insert") /\ Cardinality(Keys) <= SetSize
  /\ socketMap' = IF socketMap[peerOf[newSocket]] = NoConn
                  THEN [socketMap EXCEPT ![peerOf[newSocket]] = newSocket]
                  ELSE socketMap
  /\ ac' = "select" /\ newSocket' = NoConn
  /\ UNCHANGED <<netVars, serverVars, isRunning, asked, rxVars, userVars, proc>>

(* A map of more than FD_SETSIZE entries, live or dead, ends run().        *)
AcRefuses ==
  /\ AcAt("insert") /\ Cardinality(Keys) > SetSize
  /\ Destroyed({newSocket}) /\ UNCHANGED listening
  /\ ac' = "exited" /\ newSocket' = NoConn
  /\ UNCHANGED <<serverVars, isRunning, socketMap, asked, rxVars, userVars, proc>>
-----------------------------------------------------------------------------
(* The walk over socketMap.  While run() is about to insert, the tree may  *)
(* be read half rebalanced: the walk goes on anywhere, or kills the        *)
(* process.                                                                *)
RxAt(l) == proc = "up" /\ rx = l
InFlux == ac = "insert"
stillVars == <<serverVars, isRunning, socketMap, acVars, userVars, proc>>

WalkFrom(p) ==
  /\ it' \in Keys \union {End}
  /\ InFlux \/ it' = Min({q \in Keys : q > p} \union {End})

RxBegins ==
  /\ RxAt("begin") /\ isRunning
  /\ WalkFrom(0)
  /\ rx' = "walk"
  /\ UNCHANGED <<netVars, stillVars>>

RxLeaves ==
  /\ RxAt("begin") /\ ~isRunning
  /\ rx' = "exited"
  /\ UNCHANGED <<netVars, stillVars, it>>

RxEnds ==
  /\ RxAt("walk") /\ it = End
  /\ rx' = "begin"
  /\ UNCHANGED <<netVars, stillVars, it>>

(* Broken variant of RxSkips.                                              *)
StaysThere ==
  /\ RxAt("walk") /\ it # End
  /\ socketMap[it] \in sockets /\ ~Readable(socketMap[it])
  /\ it' = it
  /\ UNCHANGED <<netVars, stillVars, rx>>

(* select times out. *)
RxSkips ==
  /\ RxAt("walk") /\ it # End
  /\ socketMap[it] \in sockets /\ ~Readable(socketMap[it])
  /\ WalkFrom(it)
  /\ UNCHANGED <<netVars, stillVars, rx>>

(* Broken variant of RxFails.                                              *)
SkipsDestroyed ==
  /\ RxAt("walk") /\ it # End /\ socketMap[it] \notin sockets
  /\ WalkFrom(it)
  /\ UNCHANGED <<netVars, stillVars, rx>>

(* select fails on a destroyed Socket: receive() returns.                  *)
RxFails ==
  /\ RxAt("walk") /\ it # End /\ socketMap[it] \notin sockets
  /\ rx' = "exited"
  /\ UNCHANGED <<netVars, stillVars, it>>

RxReceives ==
  /\ RxAt("walk") /\ it # End
  /\ Received(socketMap[it])
  /\ WalkFrom(it)
  /\ UNCHANGED <<stillVars, rx>>

(* The end of the stream: an empty message destroys the Socket, whose      *)
(* entry stays in socketMap.                                               *)
RxDestroys ==
  /\ RxAt("walk") /\ it # End
  /\ Readable(socketMap[it]) /\ unread[socketMap[it]] = 0
  /\ Destroyed({socketMap[it]}) /\ UNCHANGED listening
  /\ WalkFrom(it)
  /\ UNCHANGED <<stillVars, rx>>

RxCrashes ==
  /\ proc = "up" /\ rx \in {"begin", "walk"} /\ InFlux
  /\ proc' = "crashed"
  /\ UNCHANGED <<netVars, serverVars, isRunning, socketMap, acVars, rxVars,
                 userVars>>
-----------------------------------------------------------------------------
(* The program ends: ~TcpServer joins ioThread, ...                        *)
ExitBegins ==
  /\ UserAt("idle")
  /\ user' = "join"
  /\ UNCHANGED <<netVars, serverVars, isRunning, socketMap, acVars, rxVars, starts,
                 raced, proc>>

(* ... which throws when there is none, ...                                *)
ExitThrows ==
  /\ UserAt("join") /\ ac = "none"
  /\ proc' = "aborted"
  /\ UNCHANGED <<netVars, serverVars, isRunning, socketMap, acVars, rxVars,
                 userVars>>

(* Broken variant of ExitStores.                                           *)
ExitOnlyJoins ==
  /\ UserAt("join") /\ ac = "exited"
  /\ user' = "recv"
  /\ UNCHANGED <<netVars, serverVars, isRunning, socketMap, acVars, rxVars, starts,
                 raced, proc>>

(* ... ~Select stores isRunning and joins recvThread, ...                  *)
ExitStores ==
  /\ UserAt("join") /\ ac = "exited"
  /\ isRunning' = FALSE
  /\ user' = "recv"
  /\ UNCHANGED <<netVars, serverVars, socketMap, acVars, rxVars, starts, raced,
                 proc>>

(* ... and ~AbstractServer destroys all there is; the end of the process   *)
(* closes the sockets that were forgotten.                                 *)
ExitEnds ==
  /\ UserAt("recv") /\ rx = "exited"
  /\ Destroyed(sockets) /\ listening' = FALSE
  /\ socket' = NoServer /\ listens' = {}
  /\ proc' = "ended"
  /\ UNCHANGED <<via, isRunning, socketMap, acVars, rxVars, userVars>>
-----------------------------------------------------------------------------
UserStep ==
  \/ StartTests \/ StartTcp \/ StartBinds \/ RunTests
  \/ ExitBegins \/ ExitThrows

AcStep ==
  \/ AcRuns \/ AcSelects \/ AcFails \/ AcWakes \/ AcAccepts \/ AcMisses
  \/ AcInserts \/ AcRefuses

RxStep ==
  RxBegins \/ RxLeaves \/ RxEnds \/ RxSkips \/ RxFails \/ RxReceives \/ RxDestroys

(* A connection comes in by one of the sockets that listen on the port.    *)
PeerStep ==
  /\ proc = "up"
  /\ \/ /\ \E p \in Peers : PeerConnect(p)
        /\ \E l \in listens :
             via' = [c \in Conns |-> IF c \in Backlog' \ Backlog THEN l ELSE via[c]]
     \/ /\ \E c \in Conns : PeerSend(c) \/ PeerClose(c)
        /\ UNCHANGED via
  /\ UNCHANGED <<socket, listens, isRunning, socketMap, acVars, rxVars, userVars,
                 proc>>

ExitStep == ExitStores \/ ExitEnds

Next ==
  UserStep \/ AcStep \/ RxStep \/ RxCrashes \/ PeerStep \/ ExitStep

Spec == Init /\ [][Next]_vars

(* The threads are scheduled; the program but for its end, clients, and    *)
(* the race on the map owe nothing.                                        *)
FairSpec == Spec /\ WF_vars(AcStep) /\ WF_vars(RxStep) /\ WF_vars(ExitStep)
-----------------------------------------------------------------------------
(* The values of the variables; a socket of the server is open exactly     *)
(* while it listens, or is between tcp() and bind.                         *)
TypeOK ==
  /\ NetTypeOK
  /\ socket \in Servers \union {NoServer} /\ isRunning \in BOOLEAN
  /\ listens \in SUBSET Servers /\ (listening <=> listens # {})
  /\ socket \in listens \union {NoServer} \/ user = "bind"
  /\ via \in [Conns -> Servers \union {NoServer}]
  /\ socketMap \in [Peers -> Conns \union {NoConn}]
  /\ ac \in {"none", "run", "select", "wait", "accept", "insert", "exited"}
  /\ asked \in Servers \union {NoServer}
  /\ newSocket \in Conns \union {NoConn}
  /\ newSocket # NoConn <=> ac = "insert"
  /\ rx \in {"none", "begin", "walk", "exited"} /\ it \in 1 .. End
  /\ user \in {"idle", "tcp", "bind", "run", "join", "recv"}
  /\ starts \in 0 .. NumPipes /\ raced \in BOOLEAN
  /\ proc \in {"up", "crashed", "aborted", "ended"}

(* receive() ends by a client that left, but for the end of the program.   *)
EndsByALeave ==
  rx = "exited" /\ isRunning => \E p \in Keys : socketMap[p] \notin sockets

(* run() takes FD_SETSIZE + 1 names and ends at the next connection; it    *)
(* ends before only when start() failed, or a second TcpPipe was made      *)
(* before ioThread of the first had set isRunning.                         *)
EndsWhenFull ==
  /\ Cardinality(Keys) <= SetSize + 1
  /\ ac = "exited" =>
       Cardinality(Keys) = SetSize + 1 \/ socket = NoServer \/ raced

(* An open socket that run() let go of is in the map, unless a connection  *)
(* of the same name came before it: then nobody reads or closes it.        *)
InMapUnlessReused ==
  \A c \in sockets \ {newSocket} :
    socketMap[peerOf[c]] = c \/ \E b \in Conns : b < c /\ peerOf[b] = peerOf[c]

(* The program ends in order only when run() gave up before, on a socket   *)
(* that never listened, too many names or the race of two TcpPipes; and it *)
(* aborts only by that race, or without a TcpPipe.                         *)
EndIsRare ==
  /\ proc = "ended" => Cardinality(Keys) \in {0, SetSize + 1} \/ raced
  /\ proc = "aborted" => starts = 0 \/ raced

(* The threads over their one map and one socket: receive() is ended by a  *)
(* client that left and by nothing else; run() by too many names, dead     *)
(* ones included, by a start() that failed or by one that raced with it;   *)
(* an accepted socket is in the map, but for a name that was there before; *)
(* and the program ends or aborts for those reasons only.                  *)
SelectSafe ==
  TypeOK /\ EndsByALeave /\ EndsWhenFull /\ InMapUnlessReused /\ EndIsRare

(* One client that leaves ends receive() for all of them: nothing removes  *)
(* its destroyed Socket from socketMap, and the next select on it fails.   *)
OneLeaveEndsAll ==
  (\E p \in Keys : socketMap[p] \notin sockets)
    ~> (rx = "exited" \/ proc # "up")

(* A message on a socket of the map is read, while receive() runs.         *)
MessagesAreRead ==
  \A c \in Conns :
    (unread[c] > 0 /\ c \in {socketMap[p] : p \in Keys})
      ~> (unread[c] = 0 \/ rx = "exited" \/ proc # "up")

(* Once run() gave up, the end of the program joins both threads: the walk *)
(* of receive() comes to its end, however many clients talk.               *)
ExitReturns == (user = "join" /\ ac = "exited") ~> proc # "up"
=============================================================================
