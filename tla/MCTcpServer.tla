---------------------------- MODULE MCTcpServer -----------------------------
(* An instance of TcpServer for TLC: packets are interchangeable. *)
EXTENDS TcpServer, TLC

Symmetry == Permutations(Packets)
=============================================================================
