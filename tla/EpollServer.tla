---------------------------- MODULE EpollServer ----------------------------
(***************************************************************************)
(* class Epoll of src/tcppipe.hpp under TcpServer<Epoll>, the static       *)
(* server of TcpPipe: every TcpPipe a program makes calls start() and      *)
(* run() on it.  run() gives Epoll::run to ioThread, which sets isRunning  *)
(* only there; nothing clears it.                                          *)
(*                                                                         *)
(* Here descriptors have numbers, and the kernel gives the lowest free one.*)
(* A number in `file' stands for what it is open on.  A connection c stands *)
(* for its Socket too, which has the number FdOf(c) until it is destroyed. *)
(* The read of socket.fd by ioThread for epoll_ctl is taken as one read.   *)
(***************************************************************************)
EXTENDS Sockets, Integers

CONSTANTS
  NumPipes,     \* bound: TcpPipes made in one behaviour
  MaxFd         \* descriptors are 1 .. MaxFd

ASSUME EpollServerAssumption == NumPipes \in Nat /\ MaxFd \in Nat \ {0}

Fds == 1 .. MaxFd
NoFd == -1
Free == 0       \* what a number is open on: nothing, a new socket, ...
Raw == -1
Listen == -2
EpollFile == -3

VARIABLES
  file,         \* what each descriptor number is open on
  reset,        \* the connections that the peer has reset
  serverFd, isRunning,          \* AbstractServer
  socketMap, fd2Socket,         \* the two tables
  watched,      \* the numbers in the epoll set
  batch,        \* of eventList: the events of EPOLLIN alone still to be handled
  io,           \* ioThread
  user, starts, \* the program: its place in start() or run() or in the
                \* destructors at its end, and TcpPipes made
  proc,         \* the process: "up", "crashed", "aborted" or "ended"
  raced         \* history: a later start() did not see the first one's thread

kernelVars == <<netVars, file, reset>>
tableVars == <<socketMap, fd2Socket>>
ioVars == <<watched, batch, io>>
userVars == <<user, starts, raced>>
vars == <<kernelVars, serverFd, isRunning, tableVars, ioVars, userVars, proc>>

Init ==
  /\ NetInit
  /\ file = [f \in Fds |-> Free] /\ reset = {}
  /\ serverFd = NoFd /\ isRunning = FALSE
  /\ socketMap = [p \in Peers |-> NoConn] /\ fd2Socket = [f \in Fds |-> NoConn]
  /\ watched = {} /\ batch = {} /\ io = "none"
  /\ user = "idle" /\ starts = 0 /\ raced = FALSE
  /\ proc = "up"

FreeFds == {f \in Fds : file[f] = Free}
NewFd == Min(FreeFds)
FdsOn(x) == {f \in Fds : file[f] = x}
-----------------------------------------------------------------------------
(* AbstractServer::start: the test, the socket, then bind and listen.      *)
UserAt(l) == proc = "up" /\ user = l

StartTests ==
  /\ UserAt("idle") /\ starts < NumPipes
  /\ starts' = starts + 1
  /\ user' = IF isRunning THEN "run" ELSE "tcp"
  /\ raced' = (raced \/ (starts > 0 /\ ~isRunning))
  /\ UNCHANGED <<kernelVars, serverFd, isRunning, tableVars, ioVars, proc>>

(* socket.tcp() throws when there is no descriptor; nobody catches that.   *)
StartThrows ==
  /\ UserAt("tcp") /\ FreeFds = {}
  /\ proc' = "aborted"
  /\ UNCHANGED <<kernelVars, serverFd, isRunning, tableVars, ioVars, userVars>>

(* It forgets the number it had.                                           *)
StartTcp ==
  /\ UserAt("tcp") /\ FreeFds # {}
  /\ file' = [file EXCEPT ![NewFd] = Raw]
  /\ serverFd' = NewFd
  /\ user' = "bind"
  /\ UNCHANGED <<netVars, reset, isRunning, tableVars, ioVars, starts, raced,
                 proc>>

(* The port is taken when a socket of an earlier start() listens on it.    *)
StartBinds ==
  /\ UserAt("bind")
  /\ \/ /\ ~listening /\ listening' = TRUE
        /\ file' = [file EXCEPT ![serverFd] = Listen]
        /\ UNCHANGED <<serverFd, watched>>
     \/ /\ file' = [file EXCEPT ![serverFd] = Free]
        /\ watched' = watched \ {serverFd}
        /\ serverFd' = NoFd
        /\ UNCHANGED listening
  /\ user' = "run"
  /\ UNCHANGED <<peerOf, remote, unread, sockets, reset, isRunning, tableVars,
                 batch, io, starts, raced, proc>>

(* TcpServer::run: a thread is assigned to ioThread, which ends the        *)
(* process when it has one already.                                        *)
RunTests ==
  /\ UserAt("run")
  /\ IF isRunning THEN UNCHANGED <<io, proc>>
     ELSE IF io = "none" THEN io' = "start" /\ UNCHANGED proc
     ELSE proc' = "aborted" /\ UNCHANGED io
  /\ user' = "idle"
  /\ UNCHANGED <<kernelVars, serverFd, isRunning, tableVars, watched, batch,
                 starts, raced>>

(* The program ends, and ~TcpServer joins ioThread, ...                    *)
ExitBegins ==
  /\ UserAt("idle")
  /\ user' = "exit"
  /\ UNCHANGED <<kernelVars, serverFd, isRunning, tableVars, ioVars, starts,
                 raced, proc>>

(* ... which throws when there is none, ...                                *)
ExitThrows ==
  /\ UserAt("exit") /\ io = "none"
  /\ proc' = "aborted"
  /\ UNCHANGED <<kernelVars, serverFd, isRunning, tableVars, ioVars, userVars>>

(* ... and ~AbstractServer destroys its socket and those of socketMap; the *)
(* end of the process closes what is in fd2Socket alone, or was forgotten. *)
(* Nothing stores isRunning before the join.                               *)
ExitJoins ==
  /\ UserAt("exit") /\ io = "exited"
  /\ Destroyed(sockets) /\ listening' = FALSE
  /\ file' = [f \in Fds |-> Free] /\ watched' = {} /\ batch' = {}
  /\ serverFd' = NoFd /\ fd2Socket' = [f \in Fds |-> NoConn]
  /\ proc' = "ended"
  /\ UNCHANGED <<reset, isRunning, socketMap, io, userVars>>
-----------------------------------------------------------------------------
IoAt(l) == proc = "up" /\ io = l

IoStarts ==
  /\ IoAt("start")
  /\ isRunning' = TRUE
  /\ io' = "create"
  /\ UNCHANGED <<kernelVars, serverFd, tableVars, watched, batch, userVars, proc>>

IoCreates ==
  /\ IoAt("create")
  /\ \/ FreeFds # {} /\ file' = [file EXCEPT ![NewFd] = EpollFile] /\ io' = "add"
     \/ io' = "exited" /\ UNCHANGED file
  /\ UNCHANGED <<netVars, reset, serverFd, isRunning, tableVars, watched, batch,
                 userVars, proc>>

(* epoll_ctl of the server's descriptor, whatever start() made of it.      *)
IoAdds ==
  /\ IoAt("add")
  /\ IF serverFd # NoFd
     THEN watched' = {serverFd} /\ io' = "wait" /\ UNCHANGED file
     ELSE /\ file' = [f \in Fds |-> IF file[f] = EpollFile THEN Free ELSE file[f]]
          /\ io' = "exited" /\ UNCHANGED watched
  /\ UNCHANGED <<netVars, reset, serverFd, isRunning, tableVars, batch, userVars,
                 proc>>

(* Broken variant of In.                                                   *)
InOrWritable(f) ==
  file[f] \in Conns \/ (file[f] = Listen /\ Backlog # {})

(* The events of f are EPOLLIN and nothing else; those of a connection     *)
(* that was reset, and of a socket that is not connected, have more.       *)
In(f) ==
  \/ file[f] = Listen /\ Backlog # {}
  \/ file[f] \in Conns /\ Readable(file[f])

PlainIn(f) == In(f) /\ file[f] \notin reset

(* Broken variant of IoWaits.                                              *)
WaitsForAll ==
  /\ IoAt("wait") /\ FdsOn(EpollFile) # {}
  /\ batch' = {f \in watched : In(f)}
  /\ batch' # {} /\ io' = "batch"
  /\ UNCHANGED <<kernelVars, serverFd, isRunning, tableVars, watched, userVars,
                 proc>>

(* epoll_wait, which fails once its descriptor was closed.  A list of no   *)
(* plain event only leads back here.                                       *)
IoWaits ==
  /\ IoAt("wait")
  /\ \/ /\ FdsOn(EpollFile) # {}
        /\ batch' = {f \in watched : PlainIn(f)}
        /\ batch' # {} /\ io' = "batch"
     \/ /\ FdsOn(EpollFile) = {}
        /\ io' = "exited" /\ UNCHANGED batch
  /\ UNCHANGED <<kernelVars, serverFd, isRunning, tableVars, watched, userVars,
                 proc>>

Handled(f) ==
  /\ batch' = batch \ {f}
  /\ io' = IF batch' = {} THEN "wait" ELSE "batch"

(* Broken variant of Registers.                                            *)
RegistersFd(c, n) ==
  /\ fd2Socket' = [fd2Socket EXCEPT ![n] = c]
  /\ file' = [file EXCEPT ![n] = c]
  /\ UNCHANGED <<socketMap, watched>>

(* The new Socket c, of number n, goes into both tables, where insert()    *)
(* leaves an entry as it is, and into the epoll set.  When epoll_ctl fails *)
(* run() closes the epoll descriptor and goes on.                          *)
Registers(c, n) ==
  /\ socketMap' = IF socketMap[peerOf[c]] = NoConn
                  THEN [socketMap EXCEPT ![peerOf[c]] = c] ELSE socketMap
  /\ fd2Socket' = IF fd2Socket[n] = NoConn
                  THEN [fd2Socket EXCEPT ![n] = c] ELSE fd2Socket
  /\ \/ /\ watched' = watched \union {n}
        /\ file' = [file EXCEPT ![n] = c]
     \/ /\ file' = [f \in Fds |-> CASE f = n -> c
                                    [] file[f] = EpollFile -> Free
                                    [] OTHER -> file[f]]
        /\ UNCHANGED watched

(* An event of the server; accept fails when there is no free descriptor.  *)
IoAccepts(f) ==
  /\ IoAt("batch") /\ f \in batch /\ f = serverFd
  /\ IF FreeFds = {} THEN UNCHANGED <<netVars, file, tableVars, watched>>
     ELSE Accepted(Min(Backlog)) /\ Registers(Min(Backlog), NewFd)
  /\ Handled(f)
  /\ UNCHANGED <<reset, serverFd, isRunning, userVars, proc>>

(* Broken variant of Forgets.                                              *)
KeepsEntry(f, c) ==
  /\ file' = [g \in Fds |-> IF file[g] = c THEN Free ELSE file[g]]
  /\ watched' = watched \ ({f} \union FdsOn(c))
  /\ Destroyed({c})
  /\ UNCHANGED <<listening, reset, tableVars>>

(* receive(), on an empty message: out of the epoll set, destroyed, erased *)
(* from fd2Socket, but not from socketMap.                                 *)
Forgets(f, c) ==
  /\ file' = [g \in Fds |-> IF file[g] = c THEN Free ELSE file[g]]
  /\ watched' = watched \ ({f} \union FdsOn(c))
  /\ Destroyed({c})
  /\ fd2Socket' = [fd2Socket EXCEPT ![f] = NoConn]
  /\ UNCHANGED <<listening, reset, socketMap>>

(* Any other event.  fd2Socket[fd] makes a null entry where there is none, *)
(* and the call on it kills the process.                                   *)
IoReceives(f) ==
  /\ IoAt("batch") /\ f \in batch /\ f # serverFd
  /\ LET c == fd2Socket[f] IN
     CASE c = NoConn ->
            proc' = "crashed" /\ UNCHANGED <<kernelVars, tableVars, watched>>
       [] c \in sockets /\ unread[c] > 0 ->
            Received(c) /\ UNCHANGED <<file, reset, tableVars, watched, proc>>
       [] OTHER ->
            Forgets(f, c) /\ UNCHANGED proc
  /\ Handled(f)
  /\ UNCHANGED <<serverFd, isRunning, userVars>>
-----------------------------------------------------------------------------
PeerStep ==
  /\ proc = "up" /\ NetNext
  /\ UNCHANGED <<file, reset, serverFd, isRunning, tableVars, ioVars, userVars,
                 proc>>

(* A reset ends a connection and drops what was not yet read.              *)
PeerResets(c) ==
  /\ proc = "up" /\ remote[c] = "alive"
  /\ remote' = [remote EXCEPT ![c] = "closed"]
  /\ unread' = [unread EXCEPT ![c] = 0]
  /\ reset' = reset \union {c}
  /\ UNCHANGED <<listening, peerOf, sockets, file, serverFd, isRunning,
                 tableVars, ioVars, userVars, proc>>

UserStep ==
  \/ StartTests \/ StartThrows \/ StartTcp \/ StartBinds \/ RunTests
  \/ ExitBegins \/ ExitThrows \/ ExitJoins
IoBegin == IoStarts \/ IoCreates \/ IoAdds
IoStep == IoWaits \/ \E f \in Fds : IoAccepts(f) \/ IoReceives(f)

Next ==
  \/ UserStep \/ IoBegin \/ IoStep
  \/ PeerStep \/ \E c \in Conns : PeerResets(c)

Spec == Init /\ [][Next]_vars

(* ioThread is scheduled; the program and the peers owe nothing.           *)
FairSpec == Spec /\ WF_vars(IoBegin) /\ WF_vars(IoStep)
-----------------------------------------------------------------------------
(* A connection has a descriptor number exactly while its Socket is open.  *)
TypeOK ==
  /\ NetTypeOK
  /\ file \in [Fds -> Conns \union {Free, Raw, Listen, EpollFile}]
  /\ \A c \in Conns : Cardinality(FdsOn(c)) = IF c \in sockets THEN 1 ELSE 0
  /\ reset \in SUBSET Conns /\ isRunning \in BOOLEAN
  /\ serverFd \in Fds \union {NoFd}
  /\ socketMap \in [Peers -> Conns \union {NoConn}]
  /\ fd2Socket \in [Fds -> Conns \union {NoConn}]
  /\ watched \in SUBSET Fds /\ batch \in SUBSET watched
  /\ io \in {"none", "start", "create", "add", "wait", "batch", "exited"}
  /\ user \in {"idle", "tcp", "bind", "run", "exit"} /\ starts \in 0 .. NumPipes
  /\ proc \in {"up", "crashed", "aborted", "ended"} /\ raced \in BOOLEAN

(* Every watched descriptor of a client finds its own Socket in fd2Socket. *)
EventsFindSockets ==
  \A f \in watched : file[f] \notin {Raw, Listen} =>
    file[f] \in Conns /\ fd2Socket[f] = file[f]

(* An open connection is in socketMap, unless an earlier one of its name   *)
(* was never removed from there.                                           *)
InMapUnlessReused ==
  \A c \in sockets :
    socketMap[peerOf[c]] = c \/ \E b \in Conns : b < c /\ peerOf[b] = peerOf[c]

(* Descriptor numbers are reused, and connections come and go while a list *)
(* of events is worked off; still the epoll set, both tables and the list  *)
(* agree with what the numbers are open on, but for socketMap when a name  *)
(* returns.                                                                *)
TablesAgree == EventsFindSockets /\ InMapUnlessReused

(* The process dies in two ways only: a second TcpPipe was made before     *)
(* ioThread of the first had set isRunning, or the program ended without   *)
(* any; and ioThread leaves run() only when its epoll descriptor is gone,  *)
(* which is why the program's end waits for ever on a server that works.   *)
FailsOnlyByRace ==
  /\ proc \in {"crashed", "aborted"} => raced \/ (user = "exit" /\ starts = 0)
  /\ io = "exited" => FdsOn(EpollFile) = {}

(* However descriptors are reused and TcpPipes race, events find their     *)
(* Sockets, and only the race, or an end without a TcpPipe, is fatal.      *)
EpollSafe == TypeOK /\ TablesAgree /\ FailsOnlyByRace

(* The server never closes first: as long as the program does not end, a   *)
(* connection ends only when its client closed or reset it, which is why   *)
(* that client's recv waits for ever.                                      *)
ClosesAfterClient ==
  [][\A c \in sockets :
       remote[c] = "alive" => c \in sockets' \/ proc' = "ended"]_vars

(* A connection that is reset outside the moment of its read is kept until *)
(* the program ends: its events are not EPOLLIN alone, and run() skips     *)
(* them.                                                                   *)
ResetIsKept ==
  [][\A c \in reset : c \in sockets /\ FdsOn(c) \intersect batch = {}
       => \/ c \in sockets' /\ (FdsOn(c) \intersect batch)' = {}
          \/ proc' = "ended"]_vars

(* What arrives on an accepted connection is read, however many events     *)
(* there are and whatever numbers are reused, while run() is in its loop.  *)
DataIsRead ==
  \A c \in Conns :
    (unread[c] > 0 /\ c \in sockets)
      ~> (unread[c] = 0 \/ proc # "up" \/ io = "exited")
=============================================================================
