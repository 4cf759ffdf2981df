------------------------------ MODULE Sockets -------------------------------
(***************************************************************************)
(* TCP connections as the servers of this repository see them through      *)
(* accept, recv, send, select and close: the kernel and the remote peers   *)
(* are not code of the repository, only what Socket asks of them is.       *)
(*                                                                         *)
(* A connection is named by a number that stands for its descriptor and    *)
(* for the Socket object accept gave it; numbers are not reused.  A peer   *)
(* is a remote address "ip:port", which may connect again once the server  *)
(* has closed its previous connection.  A message is one recv's worth.     *)
(***************************************************************************)
EXTENDS Naturals, FiniteSets, FiniteSetsExt

CONSTANTS
  NumPeers,     \* remote addresses are 1 .. NumPeers, in the order of a map
  MaxConns,     \* bound: connections the peers make in one behaviour
  MaxUnread     \* bound: messages waiting in one connection

ASSUME SocketsAssumption ==
  NumPeers \in Nat \ {0} /\ MaxConns \in Nat /\ MaxUnread \in Nat

Peers == 1 .. NumPeers
NoPeer == 0
Conns == 1 .. MaxConns
NoConn == 0

VARIABLES
  listening,    \* the listening socket is open
  peerOf,       \* the remote address of each connection
  remote,       \* the remote end: "unused", "backlog", "alive" or "closed"
  unread,       \* the messages in the receive buffer
  sockets       \* the connections whose Socket has fd >= 0

netVars == <<listening, peerOf, remote, unread, sockets>>

NetInit ==
  /\ listening = FALSE
  /\ peerOf = [c \in Conns |-> NoPeer]
  /\ remote = [c \in Conns |-> "unused"]
  /\ unread = [c \in Conns |-> 0]
  /\ sockets = {}

Backlog == {c \in Conns : remote[c] = "backlog"}

(* recv would not block: data, or the end of the stream. *)
Readable(c) == c \in sockets /\ (unread[c] > 0 \/ remote[c] = "closed")

(* A remote address connects; while the server keeps its old connection    *)
(* open the same address and port cannot connect again.                    *)
PeerConnect(p) ==
  /\ listening
  /\ \A c \in Conns : peerOf[c] = p => remote[c] = "closed" /\ c \notin sockets
  /\ \E c \in Conns :
       /\ remote[c] = "unused"
       /\ \A b \in Conns : b < c => remote[b] # "unused"
       /\ peerOf' = [peerOf EXCEPT ![c] = p]
       /\ remote' = [remote EXCEPT ![c] = "backlog"]
  /\ UNCHANGED <<listening, unread, sockets>>

PeerSend(c) ==
  /\ remote[c] = "alive" /\ c \in sockets
  /\ unread[c] < MaxUnread
  /\ unread' = [unread EXCEPT ![c] = @ + 1]
  /\ UNCHANGED <<listening, peerOf, remote, sockets>>

PeerClose(c) ==
  /\ remote[c] = "alive"
  /\ remote' = [remote EXCEPT ![c] = "closed"]
  /\ UNCHANGED <<listening, peerOf, unread, sockets>>

NetNext ==
  \/ \E p \in Peers : PeerConnect(p)
  \/ \E c \in Conns : PeerSend(c) \/ PeerClose(c)

(* accept: the oldest connection of a listening socket's queue gets a      *)
(* descriptor; Accepted is for a server with one listening socket.         *)
AcceptedFrom(queue, c) ==
  /\ queue # {} /\ c = Min(queue)
  /\ remote' = [remote EXCEPT ![c] = "alive"]
  /\ sockets' = sockets \union {c}
  /\ UNCHANGED <<listening, peerOf, unread>>

Accepted(c) == AcceptedFrom(Backlog, c)

(* recv of a whole message. *)
Received(c) ==
  /\ c \in sockets /\ unread[c] > 0
  /\ unread' = [unread EXCEPT ![c] = @ - 1]
  /\ UNCHANGED <<listening, peerOf, remote, sockets>>

(* Socket::destroy of a set of connections: close, and fd = -1. *)
Destroyed(S) ==
  /\ sockets' = sockets \ S
  /\ unread' = [c \in Conns |-> IF c \in S THEN 0 ELSE unread[c]]
  /\ remote' = [c \in Conns |-> IF c \in S THEN "closed" ELSE remote[c]]
  /\ UNCHANGED peerOf

NetTypeOK ==
  /\ listening \in BOOLEAN
  /\ peerOf \in [Conns -> Peers \union {NoPeer}]
  /\ remote \in [Conns -> {"unused", "backlog", "alive", "closed"}]
  /\ unread \in [Conns -> 0 .. MaxUnread]
  /\ sockets \in SUBSET Conns
=============================================================================
