----------------------------- MODULE ObjectPool -----------------------------
(***************************************************************************)
(* class ObjectPool of tcpserver/src/tcpserver.h: a free list of packets   *)
(* shared by the threads of the server.  Each operation is one critical    *)
(* section under the pool's mutex, hence one action.                       *)
(*                                                                         *)
(* `held' is the client's side of the contract: the packets some thread or *)
(* queue has a pointer to.  A client may also lose its pointer (Forget),   *)
(* as run() of TcpServer does with the packet of a failed recv.            *)
(***************************************************************************)
EXTENDS Naturals, Sequences

CONSTANTS
  Packets,      \* the addresses `new Packet()' can return
  MaxObjects    \* maxObjectCount

ASSUME ObjectPoolAssumption == MaxObjects \in Nat

VARIABLES
  pool,         \* the list `pool', front first
  heap,         \* the packets allocated and not deleted
  held          \* the packets the pool's clients hold

poolVars == <<pool, heap, held>>

InPool == {pool[i] : i \in DOMAIN pool}

PoolInit ==
  /\ pool = <<>>
  /\ heap = {}
  /\ held = {}
-----------------------------------------------------------------------------
(* Broken variant of Fetch.                                                *)
FetchFull(p) ==
  IF pool = <<>>
  THEN p \in Packets \ heap /\ heap' = heap \union {p} /\ pool' = pool
  ELSE p = Head(pool) /\ pool' = Tail(pool) /\ heap' = heap

(* get: the front of the list, or a new packet when the list is empty or   *)
(* holds more than maxObjectCount.                                         *)
Fetch(p) ==
  IF pool = <<>> \/ Len(pool) > MaxObjects
  THEN p \in Packets \ heap /\ heap' = heap \union {p} /\ pool' = pool
  ELSE p = Head(pool) /\ pool' = Tail(pool) /\ heap' = heap

(* push: back to the list, or deleted when the list holds more than        *)
(* maxObjectCount.                                                         *)
Recycle(p) ==
  IF Len(pool) > MaxObjects
  THEN heap' = heap \ {p} /\ pool' = pool
  ELSE pool' = Append(pool, p) /\ heap' = heap

Get(p) == Fetch(p) /\ held' = held \union {p}

Push(p) == p \in held /\ Recycle(p) /\ held' = held \ {p}

Forget(p) == p \in held /\ held' = held \ {p} /\ UNCHANGED <<pool, heap>>

PoolNext == \E p \in Packets : Get(p) \/ Push(p) \/ Forget(p)

PoolSpec == PoolInit /\ [][PoolNext]_poolVars
-----------------------------------------------------------------------------
(* The list holds allocated packets only. *)
PoolTypeOK ==
  /\ pool \in Seq(Packets)
  /\ heap \in SUBSET Packets
  /\ held \in SUBSET heap
  /\ InPool \subseteq heap

(* No packet is handed out twice: a pointer is in the list once, or out    *)
(* with a client, never both, across any number of get and push calls.     *)
PoolNoAlias ==
  /\ InPool \intersect held = {}
  /\ \A i, j \in DOMAIN pool : pool[i] = pool[j] => i = j

(* The list outgrows maxObjectCount by one packet and no more. *)
FreeListBounded == Len(pool) <= MaxObjects + 1

(* The list that has outgrown maxObjectCount is frozen: get allocates past *)
(* it, push deletes past it, and its packets never serve again.            *)
PoolFreezes == [][Len(pool) > MaxObjects => pool' = pool]_poolVars
=============================================================================
