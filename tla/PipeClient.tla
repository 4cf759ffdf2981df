----------------------------- MODULE PipeClient -----------------------------
(***************************************************************************)
(* class TcpClient of src/tcppipe.hpp as TcpPipe uses it: the constructor  *)
(* calls connectHost once, push sends, and the destructor of TcpClient     *)
(* joins recvThread, which blocks in recv.                                 *)
(*                                                                         *)
(* The far end is the Epoll server of the same program, which sends        *)
(* nothing and closes a connection only after its client did, until the    *)
(* program ends, or a server of another program that has the port, which   *)
(* does as it likes.  The own server is a static of TcpPipe, destroyed     *)
(* after the TcpPipes that main() has.                                     *)
(***************************************************************************)
EXTENDS Connection

VARIABLE user           \* the program: "new", "idle", or in the destructor

pipeVars == <<server, unread, fd, isRunning, user, rx, proc>>

PipeInit ==
  /\ server = "none" /\ unread = 0
  /\ fd = "none" /\ isRunning \in BOOLEAN
  /\ user = "new" /\ rx = "none"
  /\ proc = "up"

UserAt(l) == proc = "up" /\ user = l
ReceiveAt(l) == proc = "up" /\ rx = l
-----------------------------------------------------------------------------
(* connectHost, when there is a server.                                    *)
Connects ==
  /\ UserAt("new")
  /\ server' \in {"own", "other"}
  /\ fd' = "open" /\ isRunning' = TRUE /\ rx' = "check"
  /\ user' = "idle"
  /\ UNCHANGED <<unread, proc>>

(* When there is none, the object is there all the same, without a thread; *)
(* isRunning stays as it was.  tcp() throws when there is no descriptor,   *)
(* and the destructor that this calls throws once more.                    *)
ConnectFails ==
  /\ UserAt("new")
  /\ \/ user' = "idle" /\ UNCHANGED proc
     \/ proc' = "aborted" /\ UNCHANGED user
  /\ UNCHANGED <<server, unread, fd, isRunning, rx>>

(* push.  The send on -1 fails, and nobody looks at that; one that a       *)
(* closed server has answered with a reset kills the process.              *)
Pushes ==
  /\ UserAt("idle") /\ server = "closed"
  /\ proc' = "killed"
  /\ UNCHANGED <<server, unread, fd, isRunning, user, rx>>

(* ~TcpClient: the store, ...                                              *)
DtorStores ==
  /\ UserAt("idle")
  /\ isRunning' = FALSE
  /\ user' = "join"
  /\ UNCHANGED <<server, unread, fd, rx, proc>>

(* Broken variant of DtorJoins.                                            *)
DtorDetaches ==
  /\ UserAt("join")
  /\ user' = "gone"
  /\ UNCHANGED <<server, unread, fd, isRunning, rx, proc>>

(* ... and the join.  The connection stays open: Socket does not close.    *)
DtorJoins ==
  /\ UserAt("join") /\ rx = "exited"
  /\ rx' = "joined" /\ user' = "gone"
  /\ UNCHANGED <<server, unread, fd, isRunning, proc>>

(* join() of a thread that was never started throws out of a destructor.   *)
DtorThrows ==
  /\ UserAt("join") /\ rx = "none"
  /\ proc' = "aborted"
  /\ UNCHANGED <<server, unread, fd, isRunning, user, rx>>
-----------------------------------------------------------------------------
ReceiveChecks ==
  /\ ReceiveAt("check")
  /\ rx' = IF isRunning THEN "recv" ELSE "exited"
  /\ UNCHANGED <<server, unread, fd, isRunning, user, proc>>

(* Broken variant of ReceiveTakes.                                           *)
ReceivePolls ==
  /\ ReceiveAt("recv")
  /\ unread' = IF unread > 0 THEN unread - 1 ELSE 0
  /\ rx' = "check"
  /\ UNCHANGED <<server, fd, isRunning, user, proc>>

(* A message.                                                              *)
ReceiveTakes ==
  /\ ReceiveAt("recv") /\ unread > 0
  /\ unread' = unread - 1
  /\ rx' = "check"
  /\ UNCHANGED <<server, fd, isRunning, user, proc>>

(* The end of the stream, again and again.                                 *)
ReceiveIsEmpty ==
  /\ ReceiveAt("recv") /\ unread = 0 /\ server = "closed"
  /\ rx' = "check"
  /\ UNCHANGED <<server, unread, fd, isRunning, user, proc>>
-----------------------------------------------------------------------------
OtherSends ==
  /\ proc = "up" /\ server = "other" /\ unread < MaxUnread
  /\ unread' = unread + 1
  /\ UNCHANGED <<server, fd, isRunning, user, rx, proc>>

(* The server of this program waits for the client to close first, which   *)
(* no step of this module does.                                            *)
OtherCloses ==
  /\ proc = "up" /\ server = "other"
  /\ server' = "closed"
  /\ UNCHANGED <<unread, fd, isRunning, user, rx, proc>>

UserStep ==
  Connects \/ ConnectFails \/ Pushes \/ DtorStores \/ DtorJoins \/ DtorThrows

ReceiveStep == ReceiveChecks \/ ReceiveTakes \/ ReceiveIsEmpty

PipeNext == UserStep \/ ReceiveStep \/ OtherSends \/ OtherCloses

PipeSpec == PipeInit /\ [][PipeNext]_pipeVars

(* Both threads are scheduled; the program need not destroy its TcpPipe,   *)
(* and a server owes nothing.                                              *)
FairPipeSpec ==
  /\ PipeSpec
  /\ WF_pipeVars(DtorJoins \/ DtorThrows)
  /\ WF_pipeVars(ReceiveStep)
-----------------------------------------------------------------------------
(* The values of the variables.                                            *)
PipeTypeOK ==
  /\ server \in {"none", "own", "other", "closed"} /\ unread \in 0 .. MaxUnread
  /\ fd \in {"none", "open"} /\ isRunning \in BOOLEAN
  /\ user \in {"new", "idle", "join", "gone"}
  /\ rx \in {"none", "check", "recv", "exited", "joined"}
  /\ proc \in {"up", "aborted", "killed"}

(* recvThread never gives up while the TcpPipe lives, although isRunning   *)
(* starts with any value.                                                  *)
ReceivesWhileAlive == rx = "exited" => user = "join"

(* One that could not connect ends the process when it is destroyed; one   *)
(* that is gone had its thread, and joined it.                             *)
FailedConnectIsFatal ==
  /\ proc = "aborted" => fd = "none"
  /\ user = "gone" => fd = "open" /\ rx = "joined"

(* A TcpPipe receives as long as it lives, whatever isRunning was before   *)
(* the constructor, and is destroyed with its thread or takes the process  *)
(* along.                                                                  *)
PipeSafe == PipeTypeOK /\ ReceivesWhileAlive /\ FailedConnectIsFatal

(* Client and server wait for each other: a TcpPipe whose thread is in     *)
(* recv from the server of its own program never gets destroyed.           *)
OwnServerKeepsIt == (server = "own" /\ rx = "recv") ~> [](user # "gone")
=============================================================================
