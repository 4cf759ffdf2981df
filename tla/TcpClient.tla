----------------------------- MODULE TcpClient ------------------------------
(***************************************************************************)
(* The client daemon of tcpserver/src: main() of clientd.cpp connects,     *)
(* sends a packet every two seconds until a signal clears its flag, and    *)
(* stops the TcpClient, whose recvThread blocks in recv.                   *)
(*                                                                         *)
(* The signal handler of clientd.cpp may run on either thread, and more    *)
(* than once; it has no SA_RESTART, so a recv it interrupts fails.         *)
(***************************************************************************)
EXTENDS Connection

VARIABLES
  main,         \* main(), and TcpClient::stop() in it
  signalled     \* the flag of clientd.cpp is 0

clientVars == <<server, unread, fd, main, rx, isRunning, signalled, proc>>

ClientInit ==
  /\ server = "absent" /\ unread = 0
  /\ fd = "none" /\ main = "start" /\ rx = "none"
  /\ isRunning = TRUE /\ signalled = FALSE
  /\ proc = "up"

MainAt(l) == proc = "up" /\ main = l
RxAt(l) == proc = "up" /\ rx = l
-----------------------------------------------------------------------------
(* start(): main returns when there is no server, and tcp() throws when    *)
(* there is no descriptor.                                                 *)
Start ==
  /\ MainAt("start")
  /\ \/ /\ server' = "open" /\ fd' = "open"
        /\ rx' = "check" /\ main' = "loop"
        /\ UNCHANGED proc
     \/ /\ proc' \in {"exited", "aborted"}
        /\ UNCHANGED <<server, fd, rx, main>>
  /\ UNCHANGED <<unread, isRunning, signalled>>

MainLoops ==
  /\ MainAt("loop")
  /\ main' = IF signalled THEN "stop" ELSE "send"
  /\ UNCHANGED <<server, unread, fd, rx, isRunning, signalled, proc>>

(* The send of a whole packet.  A server that is gone answers with a       *)
(* reset, and the next send on the connection kills the process.           *)
MainSends ==
  /\ MainAt("send")
  /\ \/ main' = "sleep" /\ UNCHANGED proc
     \/ server = "closed" /\ proc' = "killed" /\ UNCHANGED main
  /\ UNCHANGED <<server, unread, fd, rx, isRunning, signalled>>

(* usleep is over, or was interrupted.                                     *)
MainWakes ==
  /\ MainAt("sleep")
  /\ main' = "loop"
  /\ UNCHANGED <<server, unread, fd, rx, isRunning, signalled, proc>>

(* Broken variant of StopStores.                                           *)
StopDestroys ==
  /\ MainAt("stop")
  /\ isRunning' = FALSE
  /\ fd' = "closed"
  /\ main' = "join"
  /\ UNCHANGED <<server, unread, rx, signalled, proc>>

(* Broken variant of StopStores.                                           *)
StopSetsNothing ==
  /\ MainAt("stop")
  /\ main' = "join"
  /\ UNCHANGED <<server, unread, fd, rx, isRunning, signalled, proc>>

(* stop(): the store, the join, then the end of the Socket and of main.    *)
StopStores ==
  /\ MainAt("stop")
  /\ isRunning' = FALSE
  /\ main' = "join"
  /\ UNCHANGED <<server, unread, fd, rx, signalled, proc>>

StopJoins ==
  /\ MainAt("join") /\ rx = "exited"
  /\ rx' = "joined" /\ main' = "destroy"
  /\ UNCHANGED <<server, unread, fd, isRunning, signalled, proc>>

StopEnds ==
  /\ MainAt("destroy")
  /\ fd' = "closed"
  /\ proc' = "exited"
  /\ UNCHANGED <<server, unread, main, rx, isRunning, signalled>>
-----------------------------------------------------------------------------
RxChecks ==
  /\ RxAt("check")
  /\ rx' = IF isRunning THEN "recv" ELSE "exited"
  /\ UNCHANGED <<server, unread, fd, main, isRunning, signalled, proc>>

RxReceives ==
  /\ RxAt("recv") /\ unread > 0
  /\ unread' = unread - 1
  /\ rx' = "handle"
  /\ UNCHANGED <<server, fd, main, isRunning, signalled, proc>>

(* The end of the stream: recv returns 0 at once, now and ever after.      *)
RxIsEmpty ==
  /\ RxAt("recv") /\ unread = 0 /\ server = "closed"
  /\ rx' = "check"
  /\ UNCHANGED <<server, unread, fd, main, isRunning, signalled, proc>>

(* TcpClient_Show, or nothing for a type without a handler.                *)
RxHandles ==
  /\ RxAt("handle")
  /\ rx' = "check"
  /\ UNCHANGED <<server, unread, fd, main, isRunning, signalled, proc>>
-----------------------------------------------------------------------------
SignalMain ==
  /\ proc = "up"
  /\ signalled' = TRUE
  /\ UNCHANGED <<server, unread, fd, main, rx, isRunning, proc>>

(* A signal on recvThread interrupts its recv, which returns -1.           *)
SignalRx ==
  /\ RxAt("recv")
  /\ signalled' = TRUE
  /\ rx' = "check"
  /\ UNCHANGED <<server, unread, fd, main, isRunning, proc>>

ServerSends ==
  /\ proc = "up" /\ server = "open" /\ unread < MaxUnread
  /\ unread' = unread + 1
  /\ UNCHANGED <<server, fd, main, rx, isRunning, signalled, proc>>

ServerCloses ==
  /\ proc = "up" /\ server = "open"
  /\ server' = "closed"
  /\ UNCHANGED <<unread, fd, main, rx, isRunning, signalled, proc>>

MainStep ==
  \/ Start \/ MainLoops \/ MainSends \/ MainWakes
  \/ StopStores \/ StopJoins \/ StopEnds

RxStep == RxChecks \/ RxReceives \/ RxIsEmpty \/ RxHandles

ClientNext ==
  \/ MainStep \/ RxStep
  \/ SignalMain \/ SignalRx \/ ServerSends \/ ServerCloses

ClientSpec == ClientInit /\ [][ClientNext]_clientVars

(* Both threads are scheduled, and a sleep ends.  The server and the       *)
(* signals owe nothing, nor does a send come to its end: a server that     *)
(* does not read keeps it.                                                 *)
FairClientSpec ==
  /\ ClientSpec
  /\ WF_clientVars(\/ MainLoops \/ MainWakes
                   \/ StopStores \/ StopJoins \/ StopEnds)
  /\ WF_clientVars(RxStep)
-----------------------------------------------------------------------------
(* The values of the variables.                                            *)
ClientTypeOK ==
  /\ server \in {"absent", "open", "closed"} /\ unread \in 0 .. MaxUnread
  /\ fd \in {"none", "open", "closed"}
  /\ main \in {"start", "loop", "send", "sleep", "stop", "join", "destroy"}
  /\ rx \in {"none", "check", "recv", "handle", "exited", "joined"}
  /\ isRunning \in BOOLEAN /\ signalled \in BOOLEAN
  /\ proc \in {"up", "exited", "aborted", "killed"}

(* recvThread ends by stop() only, whatever the server does, and stop() is *)
(* the work of a signal.  The thread never calls recv on a descriptor that *)
(* stop() has closed, and that may be another file's by then.              *)
EndsInOrder ==
  /\ ClientTypeOK
  /\ rx \in {"exited", "joined"} => signalled /\ ~isRunning
  /\ fd = "closed" => rx = "joined"

(* stop() returns if the server says something or closes; a silent server  *)
(* keeps it in its join for as long as it likes.                           *)
StopReturnsWhenHeard ==
  []<>(unread > 0 \/ server = "closed" \/ proc # "up")
    => (main = "join" ~> proc # "up")
=============================================================================
