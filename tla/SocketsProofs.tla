--------------------------- MODULE SocketsProofs ----------------------------
(***************************************************************************)
(* Lemmas about Sockets that the servers' proofs share: connections are    *)
(* made and accepted in the order of their numbers, whatever the peers do  *)
(* and whichever of them the server closes.                                *)
(***************************************************************************)
EXTENDS Sockets, WellFoundedInduction, TLAPS

(* The connections that accept has given out, open or closed since.        *)
Old == {c \in Conns : remote[c] \in {"alive", "closed"}}

(* Connections are made and accepted in the order of their numbers, by     *)
(* peers that have a name.                                                 *)
InOrder ==
  /\ \A b, c \in Conns : b < c =>
       /\ remote[c] # "unused" => remote[b] # "unused"
       /\ c \in Old => b \in Old
  /\ \A c \in Conns : remote[c] # "unused" => peerOf[c] \in Peers
  /\ sockets \subseteq Old

NetInv == NetTypeOK /\ InOrder

(* The least element of a set of numbers, which NextKey and accept take.   *)
LEMMA LeastIsThere ==
  ASSUME NEW S \in SUBSET Nat, S # {}
  PROVE  Min(S) \in S /\ \A y \in S : Min(S) <= y
<1> DEFINE less == {ss \in Nat \X Nat : ss[1] < ss[2]}
<1>1. IsWellFoundedOn(less, Nat)
  BY NatLessThanWellFounded DEF OpToRel
<1> HIDE DEF less
<1>2. PICK x \in S : \A y \in S : ~(<<y, x>> \in less)
  BY <1>1, WFMin
<1>3. \A y, z \in Nat : y < z => <<y, z>> \in less
  BY DEF less
<1>4. ASSUME NEW y \in S PROVE x <= y
  <2>1. x \in Nat /\ y \in Nat /\ ~(y < x)
    BY <1>2, <1>3
  <2> QED
    BY <2>1
<1> QED
  BY <1>4 DEF Min

(* What the kernel and the peers do keeps the order.                       *)
LEMMA NetFrame == NetInv /\ UNCHANGED netVars => NetInv'
  BY DEF NetInv, NetTypeOK, InOrder, Old, netVars

(* A connection is made under the next number, by a peer that has a name.  *)
LEMMA PeersKeepOrder == NetInv /\ NetNext => NetInv' /\ Old' = Old /\ sockets' = sockets
<1> SUFFICES ASSUME NetInv, NetNext PROVE NetInv' /\ Old' = Old /\ sockets' = sockets
  OBVIOUS
<1> USE SocketsAssumption DEF NetInv, NetTypeOK, InOrder, Old, Conns, Peers, NoPeer
<1>1. ASSUME NEW p \in Peers, PeerConnect(p) PROVE NetInv' /\ Old' = Old /\ sockets' = sockets
  BY <1>1 DEF PeerConnect
<1>2. ASSUME NEW c \in Conns, PeerSend(c) PROVE NetInv' /\ Old' = Old /\ sockets' = sockets
  BY <1>2 DEF PeerSend
<1>3. ASSUME NEW c \in Conns, PeerClose(c) PROVE NetInv' /\ Old' = Old /\ sockets' = sockets
  BY <1>3 DEF PeerClose
<1> QED
  BY <1>1, <1>2, <1>3 DEF NetNext

(* accept takes the oldest of the backlog: its number is greater than      *)
(* every number accepted before.                                           *)
LEMMA AcceptKeepsOrder ==
  ASSUME NetInv, NEW c \in Conns, Accepted(c)
  PROVE  /\ NetInv' /\ Old' = Old \union {c} /\ c \notin Old
         /\ sockets' = sockets \union {c} /\ \A b \in Old : b < c
<1> USE DEF NetInv, NetTypeOK
<1>1. c \in Backlog /\ \A b \in Backlog : c <= b
  <2>1. Backlog \in SUBSET Nat /\ Backlog # {} /\ c = Min(Backlog)
    BY DEF Accepted, AcceptedFrom, Backlog, Conns
  <2> QED
    BY <2>1, LeastIsThere
<1>2. /\ remote' = [remote EXCEPT ![c] = "alive"] /\ sockets' = sockets \union {c}
      /\ UNCHANGED <<listening, peerOf, unread>>
  BY DEF Accepted, AcceptedFrom
<1>3. Old' = Old \union {c} /\ c \notin Old
  BY <1>1, <1>2 DEF Backlog, Old
<1>4. \A b \in Conns : b < c => b \in Old
  BY <1>1 DEF Backlog, InOrder, Old, Conns
<1>5. \A b \in Old : b < c
  BY <1>3 DEF InOrder, Old, Conns
<1>6. \A b \in Conns : remote'[b] = "unused" <=> remote[b] = "unused"
  BY <1>1, <1>2 DEF Backlog
<1>7. InOrder'
  BY <1>2, <1>3, <1>4, <1>5, <1>6 DEF InOrder, Conns
<1> QED
  BY <1>2, <1>3, <1>5, <1>7

(* recv takes a message and opens or closes nothing.                       *)
LEMMA ReceiveKeepsOrder ==
  ASSUME NetInv, NEW c, Received(c)
  PROVE  NetInv' /\ Old' = Old /\ sockets' = sockets
BY SocketsAssumption DEF NetInv, NetTypeOK, InOrder, Old, Received, Conns, Peers, NoPeer

(* Closing some of the connections that were accepted keeps the order.     *)
LEMMA DestroyKeepsOrder ==
  ASSUME NetInv, NEW S \in SUBSET Old, listening' \in BOOLEAN, Destroyed(S)
  PROVE  NetInv' /\ Old' = Old /\ sockets' = sockets \ S
<1>1. NetTypeOK'
  BY SocketsAssumption DEF NetInv, NetTypeOK, Destroyed
<1>2. \A c \in Conns :
        remote'[c] = IF c \in S THEN "closed" ELSE remote[c]
  BY DEF Destroyed
<1>3. Old' = Old
  BY <1>2 DEF Old
<1>4. \A c \in Conns : remote'[c] = "unused" <=> remote[c] = "unused"
  BY <1>2 DEF Old
<1> QED
  BY <1>1, <1>3, <1>4 DEF NetInv, InOrder, Destroyed

(* Nothing is connected at first.                                          *)
LEMMA NetInitKeepsOrder == NetInit => NetInv /\ Old = {}
<1> SUFFICES ASSUME NetInit PROVE NetInv /\ Old = {}
  OBVIOUS
<1> USE SocketsAssumption
<1>1. Old = {} /\ sockets = {} /\ \A c \in Conns : remote[c] = "unused"
  BY DEF NetInit, Old
<1>2. NetTypeOK
  <2>1. unread \in [Conns -> 0 .. MaxUnread]
    BY DEF NetInit
  <2>2. /\ remote \in [Conns -> {"unused", "backlog", "alive", "closed"}]
        /\ peerOf \in [Conns -> Peers \union {NoPeer}]
    BY DEF NetInit
  <2> QED
    BY <2>1, <2>2 DEF NetInit, NetTypeOK
<1> QED
  BY <1>1, <1>2 DEF NetInv, InOrder
=============================================================================
