----------------------------- MODULE Connection -----------------------------
(***************************************************************************)
(* What the two clients have alike, TcpClient of the daemon and that of    *)
(* tcppipe: a connection to a server, and a thread that receives from it   *)
(* while a member isRunning is true.                                       *)
(***************************************************************************)
EXTENDS Integers

CONSTANT MaxUnread      \* bound: messages waiting in the connection

ASSUME ConnectionAssumption == MaxUnread \in Nat

VARIABLES
  server,       \* the far end; each client's TypeOK lists its values
  unread,       \* messages in the receive buffer
  fd,           \* the descriptor of the client: "none" is -1
  rx,           \* recvThread
  isRunning,    \* the member of the client
  proc          \* the process: "up", or how it ended
=============================================================================
