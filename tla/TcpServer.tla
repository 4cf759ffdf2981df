----------------------------- MODULE TcpServer ------------------------------
(***************************************************************************)
(* The server daemon of tcpserver/src: serverd.cpp's main thread runs the  *)
(* select loop of TcpServer::run, processThread runs TcpServer::process,   *)
(* and SIGINT or SIGTERM runs TcpServer::stop on top of the thread the     *)
(* kernel picks.  The threads share the packet queue and its state under   *)
(* one mutex, the ObjectPool under another, and the table of clients and   *)
(* the sockets under none.                                                 *)
(*                                                                         *)
(* A section of processThread under a mutex is one action: nothing runs    *)
(* on top of it without ending the process.  The main thread keeps a mutex *)
(* over two actions, because the signal handler may run in between.        *)
(*                                                                         *)
(* At most two signals arrive in a behaviour.  No code assigns             *)
(* STATE_TERMINATE or STATE_HANDLING, so the branches that test for        *)
(* STATE_TERMINATE are left out.                                           *)
(***************************************************************************)
EXTENDS Sockets, Sequences

CONSTANTS
  Packets,      \* bound: the addresses `new Packet()' can return
  MaxObjects,   \* ObjectPool::maxObjectCount
  NoPacket      \* a null Packet*

ASSUME TcpServerAssumption == MaxObjects \in Nat /\ NoPacket \notin Packets

VARIABLES
  clients,      \* the map from names to Sockets
  fdset, ready, \* run()'s fdset and fdset_, but for the listening socket
  ioPc, it, cur, ioMsg,         \* the main thread, in run()
  wkPc, wkMsg, wkConn,          \* processThread, in process()
  isRunning, state, queue,      \* what they share ...
  mutex,                        \* ... and who keeps its mutex over actions
  pool, heap, poolMutex,        \* objectPool, likewise
  sig,          \* stop() as a signal handler on the main thread
  second,       \* stop() of a second signal: on top of "io" or "wk", or "done"
  proc          \* the process: "up", "exited", "aborted", or "lost" when
                \* what it does next is undefined

tableVars == <<clients, fdset, ready>>
ioVars == <<ioPc, it, cur, ioMsg>>
wkVars == <<wkPc, wkMsg, wkConn>>
queueVars == <<isRunning, state, queue, mutex>>
memVars == <<pool, heap, poolMutex>>
stopVars == <<sig, second>>
sigVars == <<stopVars, proc>>
vars == <<netVars, tableVars, ioVars, wkVars, queueVars, memVars, sigVars>>

(* A packet and what matters of its contents: the name of the client run() *)
(* wrote into packet->src, and whether its type is TcpMessage_Show.        *)
Msg(p, src, show) == [pkt |-> p, src |-> src, show |-> show]
NoMsg == Msg(NoPacket, NoPeer, FALSE)
Msgs == [pkt : Packets, src : Peers \union {NoPeer}, show : BOOLEAN]

IoPc == {"start", "select", "accept", "admit", "sweep", "get", "getting",
         "recv", "lock", "push", "hung"}
WkPc == {"none", "check", "lock", "wait", "timedout", "handle", "send",
         "recycle", "exited", "joined"}

InQueue == {queue[i].pkt : i \in DOMAIN queue}
Held == (InQueue \union {ioMsg.pkt, wkMsg.pkt}) \ {NoPacket}
OP == INSTANCE ObjectPool WITH held <- Held

Init ==
  /\ NetInit
  /\ clients = [p \in Peers |-> NoConn] /\ fdset = {} /\ ready = {}
  /\ ioPc = "start" /\ it = NumPeers + 1 /\ cur = NoConn /\ ioMsg = NoMsg
  /\ wkPc = "none" /\ wkMsg = NoMsg /\ wkConn = NoConn
  /\ isRunning = TRUE /\ state = "NONE" /\ queue = <<>> /\ mutex = "free"
  /\ pool = <<>> /\ heap = {} /\ poolMutex = "free"
  /\ sig = "none" /\ second = "none" /\ proc = "up"

(* A thread stands still while a handler runs on top of it. *)
IoAt(l) ==
  proc = "up" /\ sig \in {"none", "done"} /\ second # "io" /\ ioPc = l
WkIn(S) == proc = "up" /\ second # "wk" /\ wkPc \in S
WkAt(l) == WkIn({l})
StopAt(l) == proc = "up" /\ second # "io" /\ sig = l

(* main returns: exit destroys the static server, and the destructor of a  *)
(* joinable std::thread ends the process with std::terminate.              *)
MainReturns ==
  proc' = IF wkPc \in {"none", "joined"} THEN "exited" ELSE "aborted"
-----------------------------------------------------------------------------
(* start(): init() of the listening socket, then the thread, then run().   *)
(* init() may fail, and tcp() throws when there is no descriptor.          *)
Start ==
  /\ IoAt("start")
  /\ \/ /\ listening' = TRUE
        /\ state' = "IDEL" /\ wkPc' = "check" /\ ioPc' = "select"
        /\ UNCHANGED proc
     \/ MainReturns /\ UNCHANGED <<listening, state, wkPc, ioPc>>
     \/ proc' = "aborted" /\ UNCHANGED <<listening, state, wkPc, ioPc>>
  /\ UNCHANGED <<peerOf, remote, unread, sockets, tableVars, it, cur, ioMsg,
                 wkMsg, wkConn, isRunning, queue, mutex, memVars, stopVars>>

(* The iterator of the map: the first key after p, or clients.end(). *)
End == NumPeers + 1
Keys == {p \in Peers : clients[p] # NoConn}
NextKey(p) == Min({q \in Keys : q > p} \union {End})

LoopEnds ==
  /\ IoAt("select") /\ ~isRunning
  /\ MainReturns
  /\ UNCHANGED <<netVars, tableVars, ioVars, wkVars, queueVars, memVars,
                 stopVars>>

(* select returns a positive count.  A timeout, EINTR and the EBADF of a   *)
(* closed descriptor in the set only lead back to the loop's condition.    *)
Select ==
  /\ IoAt("select") /\ isRunning
  /\ listening /\ fdset \subseteq sockets
  /\ ready' = {c \in fdset : Readable(c)}
  /\ \/ Backlog # {} /\ ioPc' = "accept" /\ UNCHANGED it
     \/ Backlog = {} /\ ready' # {} /\ ioPc' = "sweep" /\ it' = NextKey(0)
  /\ UNCHANGED <<netVars, clients, fdset, cur, ioMsg, wkVars, queueVars,
                 memVars, sigVars>>

Accept ==
  /\ IoAt("accept") /\ listening
  /\ cur' \in Conns /\ Accepted(cur')
  /\ ioPc' = "admit"
  /\ UNCHANGED <<tableVars, it, ioMsg, wkVars, queueVars, memVars, sigVars>>

(* accept or getnameinfo fails: run() returns -1 without a stop(). *)
AcceptFails ==
  /\ IoAt("accept")
  /\ MainReturns
  /\ UNCHANGED <<netVars, tableVars, ioVars, wkVars, queueVars, memVars,
                 stopVars>>

(* stop() closed the listening socket before FD_ISSET was evaluated. *)
AcceptSkipped ==
  /\ IoAt("accept") /\ ~listening
  /\ ioPc' = "sweep" /\ it' = NextKey(0)
  /\ UNCHANGED <<netVars, tableVars, cur, ioMsg, wkVars, queueVars, memVars,
                 sigVars>>

(* FD_SET and clients.insert, which leaves an entry of the same name as it *)
(* is, even one whose Socket is dead.                                      *)
Admit ==
  /\ IoAt("admit")
  /\ fdset' = fdset \union {cur}
  /\ clients' = IF clients[peerOf[cur]] = NoConn
                THEN [clients EXCEPT ![peerOf[cur]] = cur] ELSE clients
  /\ ioPc' = "sweep"
  /\ it' = Min({p \in Peers : clients'[p] # NoConn} \union {End})
  /\ UNCHANGED <<netVars, ready, cur, ioMsg, wkVars, queueVars, memVars,
                 sigVars>>
-----------------------------------------------------------------------------
(* Broken variant of SweepErases.                                          *)
SweepErasesNext ==
  /\ IoAt("sweep") /\ it # End /\ clients[it] \notin sockets
  /\ NextKey(it) # End
  /\ clients' = [clients EXCEPT ![NextKey(it)] = NoConn]
  /\ it' = NextKey(NextKey(it))
  /\ UNCHANGED <<netVars, fdset, ready, ioPc, cur, ioMsg, wkVars, queueVars,
                 memVars, sigVars>>

(* The loop over clients.  The entry of a destroyed Socket is erased; the  *)
(* loop's own it++ then skips the entry after it.  Incrementing end() is   *)
(* undefined: the library's walk goes to the rightmost node of the tree,   *)
(* or to the child it may have, and never ends when the tree is empty.     *)
SweepErases ==
  /\ IoAt("sweep") /\ it # End /\ clients[it] \notin sockets
  /\ clients' = [clients EXCEPT ![it] = NoConn]
  /\ \/ /\ NextKey(it) # End
        /\ it' = NextKey(NextKey(it)) /\ UNCHANGED ioPc
     \/ /\ NextKey(it) = End /\ Keys # {it}
        /\ it' \in Keys \ {it} /\ UNCHANGED ioPc
        /\ Cardinality({p \in Keys \ {it} : p > it'}) <= 1
     \/ /\ Keys = {it}
        /\ ioPc' = "hung" /\ UNCHANGED it
  /\ UNCHANGED <<netVars, fdset, ready, cur, ioMsg, wkVars, queueVars, memVars,
                 sigVars>>

SweepSkips ==
  /\ IoAt("sweep") /\ it # End
  /\ clients[it] \in sockets \ ready
  /\ it' = NextKey(it)
  /\ UNCHANGED <<netVars, tableVars, ioPc, cur, ioMsg, wkVars, queueVars,
                 memVars, sigVars>>

SweepEnds ==
  /\ IoAt("sweep") /\ it = End
  /\ ioPc' = "select"
  /\ UNCHANGED <<netVars, tableVars, it, cur, ioMsg, wkVars, queueVars,
                 memVars, sigVars>>

SweepClaims ==
  /\ IoAt("sweep") /\ it # End /\ clients[it] \in sockets \intersect ready
  /\ cur' = clients[it]
  /\ ioPc' = "get"
  /\ UNCHANGED <<netVars, tableVars, it, ioMsg, wkVars, queueVars, memVars,
                 sigVars>>

(* get() finds a packet within the bound on Packets. *)
CanFetch == Len(pool) \in 1 .. MaxObjects \/ Packets # heap

(* objectPool.get(): the pool's mutex, then the section under it. *)
IoLocksPool ==
  /\ IoAt("get") /\ poolMutex = "free" /\ CanFetch
  /\ poolMutex' = "io"
  /\ ioPc' = "getting"
  /\ UNCHANGED <<netVars, tableVars, it, cur, ioMsg, wkVars, queueVars,
                 pool, heap, sigVars>>

IoGets ==
  /\ IoAt("getting")
  /\ \E p \in Packets : OP!Fetch(p) /\ ioMsg' = Msg(p, NoPeer, FALSE)
  /\ poolMutex' = "free"
  /\ ioPc' = "recv"
  /\ UNCHANGED <<netVars, tableVars, it, cur, wkVars, queueVars, sigVars>>

(* A message: its type is whatever the peer sent. *)
IoReceives ==
  /\ IoAt("recv") /\ Received(cur)
  /\ \E show \in BOOLEAN : ioMsg' = Msg(ioMsg.pkt, peerOf[cur], show)
  /\ ioPc' = "lock"
  /\ UNCHANGED <<tableVars, it, cur, wkVars, queueVars, memVars, sigVars>>

(* End of stream, nothing to read, or a closed descriptor: FD_CLR, then    *)
(* destroy.  The packet fetched for the message is never given back.       *)
IoDrops ==
  /\ IoAt("recv") /\ ~(cur \in sockets /\ unread[cur] > 0)
  /\ fdset' = IF cur \in sockets THEN fdset \ {cur} ELSE fdset
  /\ Destroyed({cur}) /\ UNCHANGED listening
  /\ ioMsg' = NoMsg
  /\ ioPc' = "sweep" /\ it' = NextKey(it)
  /\ UNCHANGED <<clients, ready, cur, wkVars, queueVars, memVars, sigVars>>

IoLocks ==
  /\ IoAt("lock") /\ mutex = "free"
  /\ mutex' = "io"
  /\ ioPc' = "push"
  /\ UNCHANGED <<netVars, tableVars, it, cur, ioMsg, wkVars, isRunning, state,
                 queue, memVars, sigVars>>

(* dataQueue.push, STATE_DATAREADY, notify_one, and the end of the turn. *)
IoPushes ==
  /\ IoAt("push")
  /\ queue' = Append(queue, ioMsg)
  /\ state' = "DATAREADY"
  /\ wkPc' = IF wkPc = "wait" THEN "lock" ELSE wkPc
  /\ mutex' = "free"
  /\ ioMsg' = NoMsg
  /\ ioPc' = "sweep" /\ it' = NextKey(it)
  /\ UNCHANGED <<netVars, tableVars, cur, wkMsg, wkConn, isRunning, memVars,
                 sigVars>>
-----------------------------------------------------------------------------
(* Broken variant of WkChecks.                                             *)
WkChecksNothing ==
  /\ WkAt("check")
  /\ wkPc' = "lock"
  /\ UNCHANGED <<netVars, tableVars, ioVars, wkMsg, wkConn, queueVars, memVars,
                 sigVars>>

(* process(): while (isRunning.load()). *)
WkChecks ==
  /\ WkAt("check")
  /\ wkPc' = IF isRunning THEN "lock" ELSE "exited"
  /\ UNCHANGED <<netVars, tableVars, ioVars, wkMsg, wkConn, queueVars, memVars,
                 sigVars>>

MayTake == mutex = "free" /\ state = "DATAREADY"

(* Broken variant of WkTakes.                                              *)
TakeStaysReady ==
  /\ WkIn({"lock", "timedout"}) /\ MayTake /\ queue # <<>>
  /\ wkMsg' = Head(queue) /\ queue' = Tail(queue)
  /\ wkPc' = "handle"
  /\ UNCHANGED <<netVars, tableVars, ioVars, wkConn, isRunning, state, mutex,
                 memVars, sigVars>>

(* Broken variant of WkTakes.                                              *)
TakeAlwaysIdles ==
  /\ WkIn({"lock", "timedout"}) /\ MayTake /\ queue # <<>>
  /\ wkMsg' = Head(queue) /\ queue' = Tail(queue)
  /\ state' = "IDEL"
  /\ wkPc' = "handle"
  /\ UNCHANGED <<netVars, tableVars, ioVars, wkConn, isRunning, mutex, memVars,
                 sigVars>>

(* The wait predicate holds, at once, after a wakeup or at the timeout: the *)
(* front of the queue, which must have one.                                *)
WkTakes ==
  /\ WkIn({"lock", "timedout"}) /\ MayTake /\ queue # <<>>
  /\ wkMsg' = Head(queue) /\ queue' = Tail(queue)
  /\ state' = IF Tail(queue) = <<>> THEN "IDEL" ELSE state
  /\ wkPc' = "handle"
  /\ UNCHANGED <<netVars, tableVars, ioVars, wkConn, isRunning, mutex, memVars,
                 sigVars>>

(* front() and pop() of a queue that has none: undefined. *)
WkTakesNothing ==
  /\ WkIn({"lock", "timedout"}) /\ MayTake /\ queue = <<>>
  /\ proc' = "lost"
  /\ UNCHANGED <<netVars, tableVars, ioVars, wkVars, queueVars, memVars,
                 stopVars>>

(* The predicate is false: sleep, or give up when the 3000 ms are over. *)
WkWaits ==
  /\ WkIn({"lock", "timedout"})
  /\ mutex = "free" /\ state # "DATAREADY"
  /\ wkPc' = IF wkPc = "lock" THEN "wait" ELSE "check"
  /\ UNCHANGED <<netVars, tableVars, ioVars, wkMsg, wkConn, queueVars, memVars,
                 sigVars>>

WkTimesOut ==
  /\ WkAt("wait")
  /\ wkPc' = "timedout"
  /\ UNCHANGED <<netVars, tableVars, ioVars, wkMsg, wkConn, queueVars, memVars,
                 sigVars>>

(* A wait may return without a notification. *)
WkWakes ==
  /\ WkAt("wait")
  /\ wkPc' = "lock"
  /\ UNCHANGED <<netVars, tableVars, ioVars, wkMsg, wkConn, queueVars, memVars,
                 sigVars>>

(* The router has a handler for TcpMessage_Show only.  TcpServer_Show      *)
(* looks the sender up without a lock: next to an insert or an erase of    *)
(* the main thread the walk of the tree may miss a name that is there, or  *)
(* read a node that is gone.                                               *)
MapInFlux ==
  \/ ioPc = "admit"
  \/ ioPc = "sweep" /\ it # End /\ clients[it] \notin sockets

WkIgnores ==
  /\ WkAt("handle")
  /\ ~wkMsg.show \/ clients[wkMsg.src] = NoConn \/ MapInFlux
  /\ wkPc' = "recycle"
  /\ UNCHANGED <<netVars, tableVars, ioVars, wkMsg, wkConn, queueVars, memVars,
                 sigVars>>

(* The handler clears MAX_BUFFER_LEN bytes of packet->data, 70 more than    *)
(* there are: the packet behind it in memory, if there is one, loses its   *)
(* header, so that its type is no longer TcpMessage_Show.                  *)
Clear(m, p) == IF m.pkt = p THEN [m EXCEPT !.show = FALSE] ELSE m

WkShows ==
  /\ WkAt("handle")
  /\ wkMsg.show /\ clients[wkMsg.src] # NoConn
  /\ \E p \in (heap \ {wkMsg.pkt}) \union {NoPacket} :
       /\ queue' = [i \in DOMAIN queue |-> Clear(queue[i], p)]
       /\ ioMsg' = Clear(ioMsg, p)
  /\ wkConn' = clients[wkMsg.src] /\ wkPc' = "send"
  /\ UNCHANGED <<netVars, tableVars, ioPc, it, cur, wkMsg, isRunning, state,
                 mutex, memVars, sigVars>>

(* The unlocked walk meets a freed node, or what lay behind the packet was *)
(* the allocator's: the process is killed.                                 *)
WkCrashes ==
  /\ WkAt("handle") /\ wkMsg.show
  /\ MapInFlux \/ clients[wkMsg.src] # NoConn
  /\ proc' = "aborted"
  /\ UNCHANGED <<netVars, tableVars, ioVars, wkVars, queueVars, memVars,
                 stopVars>>

(* Broken variant of WkSends.                                              *)
RecycleEarly ==
  /\ WkAt("send") /\ poolMutex = "free"
  /\ OP!Recycle(wkMsg.pkt)
  /\ wkPc' = "recycle"
  /\ UNCHANGED <<netVars, tableVars, ioVars, wkMsg, wkConn, queueVars,
                 poolMutex, sigVars>>

(* sendMessage repeats send until every byte is gone.  On the descriptor   *)
(* -1 of a destroyed Socket it never is: no action is enabled.             *)
WkSends ==
  /\ WkAt("send") /\ wkConn \in sockets
  /\ wkConn' = NoConn /\ wkPc' = "recycle"
  /\ UNCHANGED <<netVars, tableVars, ioVars, wkMsg, queueVars, memVars,
                 sigVars>>

(* A peer that is gone answers with a reset: SIGPIPE ends the process. *)
WkBreaksPipe ==
  /\ WkAt("send") /\ wkConn \in sockets /\ remote[wkConn] = "closed"
  /\ proc' = "aborted"
  /\ UNCHANGED <<netVars, tableVars, ioVars, wkVars, queueVars, memVars,
                 stopVars>>

(* objectPool.push(packet). *)
WkRecycles ==
  /\ WkAt("recycle") /\ poolMutex = "free"
  /\ OP!Recycle(wkMsg.pkt)
  /\ wkMsg' = NoMsg /\ wkPc' = "check"
  /\ UNCHANGED <<netVars, tableVars, ioVars, wkConn, queueVars, poolMutex,
                 sigVars>>
-----------------------------------------------------------------------------
(* The signal reaches the main thread: stop() clears isRunning and joins.  *)
(* With no thread to join, join() throws out of the handler.               *)
SignalIo ==
  /\ proc = "up" /\ sig = "none"
  /\ isRunning' = FALSE
  /\ IF wkPc = "none" THEN proc' = "aborted" /\ UNCHANGED sig
                      ELSE sig' = "join" /\ UNCHANGED proc
  /\ UNCHANGED <<netVars, tableVars, ioVars, wkVars, state, queue, mutex,
                 memVars, second>>

(* The signal reaches processThread: joining oneself throws. *)
SignalWk ==
  /\ proc = "up" /\ sig = "none"
  /\ wkPc \notin {"none", "exited", "joined"}
  /\ isRunning' = FALSE
  /\ proc' = "aborted"
  /\ UNCHANGED <<netVars, tableVars, ioVars, wkVars, state, queue, mutex,
                 memVars, stopVars>>

StopJoins ==
  /\ StopAt("join") /\ wkPc = "exited"
  /\ wkPc' = "joined"
  /\ sig' = "close"
  /\ UNCHANGED <<netVars, tableVars, ioVars, wkMsg, wkConn, queueVars, memVars,
                 second, proc>>

StopCloses ==
  /\ StopAt("close")
  /\ listening' = FALSE
  /\ Destroyed({clients[p] : p \in Keys})
  /\ sig' = "drain"
  /\ UNCHANGED <<tableVars, ioVars, wkVars, queueVars, memVars, second, proc>>

(* Broken variant of StopDrains.                                           *)
StopDrainsTwice ==
  /\ StopAt("drain")
  /\ \/ /\ queue # <<>> /\ poolMutex = "free"
        /\ OP!Recycle(Head(queue).pkt)
        /\ UNCHANGED <<queue, sig>>
     \/ /\ queue = <<>>
        /\ sig' = "done" /\ UNCHANGED <<pool, heap, queue>>
  /\ UNCHANGED <<netVars, tableVars, ioVars, wkVars, isRunning, state, mutex,
                 poolMutex, second, proc>>

(* One packet of the queue after the other goes back to the pool. *)
StopDrains ==
  /\ StopAt("drain")
  /\ \/ /\ queue # <<>> /\ poolMutex = "free"
        /\ OP!Recycle(Head(queue).pkt)
        /\ queue' = Tail(queue) /\ UNCHANGED sig
     \/ /\ queue = <<>>
        /\ sig' = "done" /\ UNCHANGED <<pool, heap, queue>>
  /\ UNCHANGED <<netVars, tableVars, ioVars, wkVars, isRunning, state, mutex,
                 poolMutex, second, proc>>

(* A second signal finds isRunning cleared, and its stop() does not join.  *)
(* It runs on top of the first one or of run() behind it, or on top of     *)
(* processThread.  The section it interrupts may hold the pool's mutex:    *)
(* then its first push waits for ever for what is below it.                *)
SecondSignal ==
  /\ proc = "up" /\ sig # "none" /\ second = "none"
  /\ \/ second' = "io"
     \/ second' = "wk" /\ wkPc \notin {"none", "exited", "joined"}
  /\ listening' = FALSE
  /\ Destroyed({clients[p] : p \in Keys})
  /\ \/ UNCHANGED poolMutex
     \/ /\ poolMutex = "free" /\ poolMutex' = "below"
        /\ \/ second' = "io" /\ sig = "drain" /\ Len(queue) > 1
           \/ second' = "wk" /\ wkPc = "recycle" /\ queue # <<>>
  /\ UNCHANGED <<tableVars, ioVars, wkVars, queueVars, pool, heap, sig, proc>>

SecondDrains ==
  /\ proc = "up" /\ second \in {"io", "wk"}
  /\ \/ /\ queue # <<>> /\ poolMutex = "free"
        /\ OP!Recycle(Head(queue).pkt)
        /\ queue' = Tail(queue) /\ UNCHANGED second
     \/ /\ queue = <<>>
        /\ second' = "done" /\ UNCHANGED <<pool, heap, queue>>
  /\ UNCHANGED <<netVars, tableVars, ioVars, wkVars, isRunning, state, mutex,
                 poolMutex, sig, proc>>

(* Its pop() falls between front() and pop() of what it interrupted, or of *)
(* the worker beside it: the queue is popped once more than it has.        *)
SecondRaces ==
  /\ proc = "up" /\ second \in {"io", "wk"} /\ queue # <<>>
  /\ sig = "drain" \/ (wkPc \in {"lock", "timedout"} /\ MayTake)
  /\ proc' = "lost"
  /\ UNCHANGED <<netVars, tableVars, ioVars, wkVars, queueVars, memVars,
                 stopVars>>
-----------------------------------------------------------------------------
IoStep ==
  \/ Start \/ LoopEnds \/ Select \/ Accept \/ AcceptFails \/ AcceptSkipped
  \/ Admit \/ SweepErases \/ SweepSkips \/ SweepEnds \/ SweepClaims
  \/ IoLocksPool \/ IoGets \/ IoReceives \/ IoDrops \/ IoLocks \/ IoPushes

WkStep ==
  \/ WkChecks \/ WkTakes \/ WkTakesNothing \/ WkWaits \/ WkTimesOut
  \/ WkWakes \/ WkIgnores \/ WkShows \/ WkCrashes \/ WkSends \/ WkBreaksPipe \/ WkRecycles

StopStep == StopJoins \/ StopCloses \/ StopDrains

PeerStep ==
  /\ proc = "up" /\ NetNext
  /\ UNCHANGED <<tableVars, ioVars, wkVars, queueVars, memVars, sigVars>>

SignalStep ==
  SignalIo \/ SignalWk \/ SecondSignal \/ SecondDrains \/ SecondRaces

Next == IoStep \/ WkStep \/ StopStep \/ SignalStep \/ PeerStep

Spec == Init /\ [][Next]_vars

(* Both threads and the handler are scheduled.  The worker gets a mutex    *)
(* that is free again and again, and spurious wakeups do not move the      *)
(* deadline of its wait.  Peers, signals, failures, spurious wakeups and   *)
(* the end of a send are owed by nobody.                                   *)
Fairness ==
  /\ WF_vars(\/ Select \/ Accept \/ AcceptSkipped \/ Admit \/ SweepErases
             \/ SweepSkips \/ SweepEnds \/ SweepClaims \/ IoLocksPool
             \/ IoGets \/ IoReceives \/ IoDrops \/ IoLocks \/ IoPushes
             \/ LoopEnds)
  /\ WF_vars(WkChecks) /\ WF_vars(WkIgnores \/ WkShows)
  /\ SF_vars(WkTakes \/ WkTakesNothing \/ WkWaits)
  /\ SF_vars(WkTimesOut) /\ SF_vars(WkRecycles)
  /\ WF_vars(StopStep) /\ WF_vars(SecondDrains)

FairSpec == Spec /\ Fairness
-----------------------------------------------------------------------------
(* Every variable keeps its type; the main thread and the worker hold a    *)
(* packet, and a mutex, exactly at the places of run() and process() that  *)
(* say so.                                                                 *)
TypeOK ==
  /\ NetTypeOK
  /\ clients \in [Peers -> Conns \union {NoConn}]
  /\ fdset \in SUBSET Conns /\ ready \in SUBSET Conns
  /\ ioPc \in IoPc /\ it \in 1 .. End /\ cur \in Conns \union {NoConn}
  /\ wkPc \in WkPc /\ wkConn \in Conns \union {NoConn}
  /\ ioMsg \in Msgs \union {NoMsg} /\ wkMsg \in Msgs \union {NoMsg}
  /\ ioMsg # NoMsg <=> ioPc \in {"recv", "lock", "push"}
  /\ wkMsg # NoMsg <=> wkPc \in {"handle", "send", "recycle"}
  /\ isRunning \in BOOLEAN /\ state \in {"NONE", "IDEL", "DATAREADY"}
  /\ queue \in Seq(Msgs)
  /\ mutex = IF ioPc = "push" THEN "io" ELSE "free"
  /\ poolMutex = (IF ioPc = "getting" THEN "io" ELSE "free")
       \/ (poolMutex = "below" /\ second \in {"io", "wk"})
  /\ pool \in Seq(Packets) /\ heap \in SUBSET Packets
  /\ sig \in {"none", "join", "close", "drain", "done"}
  /\ second \in {"none", "io", "wk", "done"}
  /\ proc \in {"up", "exited", "aborted", "lost"}

(* While processThread lives, STATE_DATAREADY is shown exactly over a      *)
(* queue that has a packet: its front() and pop() are defined, and no      *)
(* packet waits behind STATE_IDEL for the next one to arrive.              *)
ReadyIffData ==
  wkPc \notin {"none", "joined"} => (state = "DATAREADY" <=> queue # <<>>)

(* One signal, whenever it comes, leaves that so.  A second one empties    *)
(* the queue behind the state, or pops beside another pop, and only while  *)
(* the first one still joins or drains: stop() may be repeated behind it.  *)
QueueTells ==
  /\ TypeOK
  /\ second = "none" => ReadyIffData
  /\ proc = "lost" => second # "none" /\ sig \in {"join", "drain"}

(* The server uses its ObjectPool as the pool's contract asks: whatever    *)
(* the two threads and stop() do, a packet is pushed by the one place that *)
(* holds it and once, so that it never serves two messages.                *)
UsesPool == OP!PoolSpec

(* fdset and the table agree: until a signal comes the set that run()      *)
(* watches has no closed descriptor in it, with which select would fail    *)
(* for ever, and a client of the table whose Socket is open is watched.    *)
FdsetAgrees ==
  /\ sig = "none" => fdset \subseteq sockets
  /\ \A p \in Peers : clients[p] \in sockets => clients[p] \in fdset

(* An open connection that is watched and not in the table is never read   *)
(* and never closed.  That happens only to a peer that comes back under    *)
(* its old name before the dead entry of that name is swept.               *)
StrayOnlyByNameReuse ==
  \A c \in fdset \intersect sockets :
    clients[peerOf[c]] # c => \E b \in Conns : b < c /\ peerOf[b] = peerOf[c]

(* The set of select, the table of clients and the open Sockets agree, but *)
(* for the stray connection of a name that is used again.                  *)
ClientsAgree == FdsetAgrees /\ StrayOnlyByNameReuse

(* The three liveness properties suppose that processThread does not stay  *)
(* in sendMessage for ever, as it does on a Socket that was destroyed; and *)
(* the bound on Packets may end a behaviour.                               *)
SendsEnd == []<>(wkPc # "send")
OutOfPackets == ioPc = "get" /\ ~CanFetch

(* No wakeup is lost for good: a queued packet is taken from the queue,    *)
(* unless the process is stopped or ends.                                  *)
Taken ==
  SendsEnd =>
    \A p \in Packets :
      (p \in InQueue) ~> (p \notin InQueue \/ sig # "none" \/ proc # "up")

(* stop() gets past its join(), unless the signal interrupted the main     *)
(* thread inside one of the two mutexes, or a second one processThread     *)
(* inside the pool's.                                                      *)
JoinReturns ==
  SendsEnd =>
    (sig = "join" /\ mutex = "free" /\ poolMutex = "free")
      ~> (sig # "join" \/ proc # "up" \/ poolMutex = "below")

(* From there the process ends, unless the interrupted main thread holds   *)
(* the pool's mutex or was in the loop over clients and increments end(),  *)
(* or a second signal finds stop() itself inside the pool's mutex.         *)
ShutdownEnds ==
  (sig = "close" /\ poolMutex = "free")
    ~> \/ proc # "up" \/ poolMutex = "below"
       \/ ioPc = "hung" \/ OutOfPackets
=============================================================================
