----------------------------- MODULE MCLazyFSM ------------------------------
(* An instance of LazyFSM for TLC: a cycle through the waiting state 0,    *)
(* with two events of state 1, and one event that leads out of the table.  *)
EXTENDS LazyFSM

Event(s, n) == [state |-> s, nextState |-> n]

MCTable ==
  [e \in Ids |-> CASE e = 1 -> Event(0, 1) [] e = 2 -> Event(1, 2)
                   [] e = 3 -> Event(2, 0) [] e = 4 -> Event(1, 0)
                   [] OTHER -> Event(2, 7)]

MCJunk == -1
=============================================================================
