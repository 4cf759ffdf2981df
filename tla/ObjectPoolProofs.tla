-------------------------- MODULE ObjectPoolProofs --------------------------
(***************************************************************************)
(* Theorems about ObjectPool, for any maxObjectCount, any number of        *)
(* packets and any clients.                                                *)
(***************************************************************************)
EXTENDS ObjectPool, TLAPS

Injective(q) == \A i, j \in 1 .. Len(q) : q[i] = q[j] => i = j
RangeOf(q) == {q[i] : i \in 1 .. Len(q)}

PoolInv == PoolTypeOK /\ PoolNoAlias /\ FreeListBounded

(* What pop_front and push_back do to the addresses in the list.           *)
LEMMA TailFacts ==
  ASSUME NEW q \in Seq(Packets), q # <<>>, Injective(q)
  PROVE  /\ Tail(q) \in Seq(Packets) /\ Len(Tail(q)) = Len(q) - 1
         /\ Head(q) \in RangeOf(q)
         /\ RangeOf(Tail(q)) = RangeOf(q) \ {Head(q)}
         /\ Injective(Tail(q))
<1>1. /\ Tail(q) \in Seq(Packets) /\ Len(Tail(q)) = Len(q) - 1
      /\ Head(q) = q[1] /\ 1 \in 1 .. Len(q) /\ Len(q) \in Nat
  OBVIOUS
<1>2. \A i \in 1 .. Len(Tail(q)) : Tail(q)[i] = q[i + 1] /\ i + 1 \in 1 .. Len(q) /\ i + 1 # 1
  OBVIOUS
<1>3. \A i \in (1 .. Len(q)) \ {1} : i - 1 \in 1 .. Len(Tail(q)) /\ q[i] = Tail(q)[i - 1]
  OBVIOUS
<1>4. RangeOf(Tail(q)) = RangeOf(q) \ {Head(q)}
  BY <1>1, <1>2, <1>3 DEF RangeOf, Injective
<1>5. Injective(Tail(q))
  BY <1>1, <1>2 DEF Injective
<1> QED
  BY <1>1, <1>4, <1>5 DEF RangeOf

(* What push_back does to a list that does not hold the packet yet.        *)
LEMMA AppendFacts ==
  ASSUME NEW q \in Seq(Packets), NEW p \in Packets, Injective(q), p \notin RangeOf(q)
  PROVE  /\ Append(q, p) \in Seq(Packets) /\ Len(Append(q, p)) = Len(q) + 1
         /\ RangeOf(Append(q, p)) = RangeOf(q) \union {p}
         /\ Injective(Append(q, p))
<1>1. /\ Append(q, p) \in Seq(Packets) /\ Len(Append(q, p)) = Len(q) + 1
      /\ Append(q, p)[Len(q) + 1] = p /\ Len(q) \in Nat
  OBVIOUS
<1>2. \A i \in 1 .. Len(q) : Append(q, p)[i] = q[i]
  OBVIOUS
<1>3. RangeOf(Append(q, p)) = RangeOf(q) \union {p}
  BY <1>1, <1>2 DEF RangeOf
<1>4. Injective(Append(q, p))
  <2>1. \A i \in 1 .. Len(q) : q[i] # p
    BY DEF RangeOf
  <2> QED
    BY <1>1, <1>2, <2>1 DEF Injective
<1> QED
  BY <1>1, <1>3, <1>4

(* The invariant in terms of the two operators of the lemmas.              *)
LEMMA PoolInvParts ==
  /\ PoolInv <=>
       /\ pool \in Seq(Packets) /\ heap \in SUBSET Packets /\ held \in SUBSET heap
       /\ RangeOf(pool) \subseteq heap /\ RangeOf(pool) \intersect held = {}
       /\ Injective(pool) /\ Len(pool) <= MaxObjects + 1
  /\ PoolInv' <=>
       /\ pool' \in Seq(Packets) /\ heap' \in SUBSET Packets /\ held' \in SUBSET heap'
       /\ RangeOf(pool') \subseteq heap' /\ RangeOf(pool') \intersect held' = {}
       /\ Injective(pool') /\ Len(pool') <= MaxObjects + 1
<1>1. \A q \in Seq(Packets) : DOMAIN q = 1 .. Len(q)
  OBVIOUS
<1> QED
  BY <1>1 DEF PoolInv, PoolTypeOK, PoolNoAlias, FreeListBounded, InPool, RangeOf, Injective

(* get() takes the front of the list, or allocates a packet that is new.   *)
LEMMA GetKeeps ==
  ASSUME PoolInv, NEW p \in Packets, Get(p)
  PROVE  PoolInv'
<1>1. CASE pool = <<>> \/ Len(pool) > MaxObjects
  BY <1>1, PoolInvParts DEF Get, Fetch
<1>2. CASE pool # <<>> /\ ~(Len(pool) > MaxObjects)
  <2>1. p = Head(pool) /\ pool' = Tail(pool) /\ heap' = heap /\ held' = held \union {p}
    BY <1>2 DEF Get, Fetch
  <2>2. Len(pool) \in Nat
    BY PoolInvParts
  <2> QED
    BY <1>2, <2>1, <2>2, TailFacts, PoolInvParts, ObjectPoolAssumption
<1> QED
  BY <1>1, <1>2

(* push() appends the packet it was given, or deletes it.                  *)
LEMMA PushKeeps ==
  ASSUME PoolInv, NEW p \in Packets, Push(p)
  PROVE  PoolInv'
<1>1. p \in held /\ held' = held \ {p} /\ p \in heap /\ p \notin RangeOf(pool)
  BY PoolInvParts DEF Push
<1>2. CASE Len(pool) > MaxObjects
  BY <1>1, <1>2, PoolInvParts DEF Push, Recycle
<1>3. CASE ~(Len(pool) > MaxObjects)
  <2>1. pool' = Append(pool, p) /\ heap' = heap
    BY <1>3 DEF Push, Recycle
  <2>2. Len(pool) \in Nat
    BY PoolInvParts
  <2> QED
    BY <1>1, <1>3, <2>1, <2>2, AppendFacts, PoolInvParts, ObjectPoolAssumption
<1> QED
  BY <1>2, <1>3

(* Every step of the pool, a packet that a caller forgets included, keeps  *)
(* the invariant.                                                          *)
LEMMA PoolStep == PoolInv /\ [PoolNext]_poolVars => PoolInv'
<1> SUFFICES ASSUME PoolInv, [PoolNext]_poolVars PROVE PoolInv'
  OBVIOUS
<1>1. ASSUME NEW p \in Packets, Forget(p) PROVE PoolInv'
  BY <1>1, PoolInvParts DEF Forget
<1>2. CASE UNCHANGED poolVars
  BY <1>2, PoolInvParts DEF poolVars
<1> QED
  BY <1>1, <1>2, GetKeeps, PushKeeps DEF PoolNext

(* The invariant holds along every behaviour of the pool.                  *)
LEMMA PoolInvariance == PoolSpec => []PoolInv
<1>1. PoolInit => PoolInv
  BY PoolInvParts, ObjectPoolAssumption DEF PoolInit, RangeOf, Injective
<1> QED
  BY <1>1, PoolStep, PTL DEF PoolSpec

(* The free list holds allocated packets only: get returns no deleted one. *)
THEOREM PoolTypeCorrect == PoolSpec => []PoolTypeOK
<1>1. PoolInv => PoolTypeOK
  BY DEF PoolInv
<1> QED
  BY <1>1, PoolInvariance, PTL

(* get never hands out a packet that somebody holds.                       *)
THEOREM NoPacketServesTwice == PoolSpec => []PoolNoAlias
<1>1. PoolInv => PoolNoAlias
  BY DEF PoolInv
<1> QED
  BY <1>1, PoolInvariance, PTL

(* The free list never holds more than maxObjectCount + 1 packets.         *)
THEOREM FreeListIsBounded == PoolSpec => []FreeListBounded
<1>1. PoolInv => FreeListBounded
  BY DEF PoolInv
<1> QED
  BY <1>1, PoolInvariance, PTL

(* A free list that has outgrown maxObjectCount never changes again: its   *)
(* maxObjectCount + 1 packets are lost to the server.                      *)
THEOREM FreeListFreezes == PoolSpec => PoolFreezes
<1> DEFINE Frozen == Len(pool) > MaxObjects => pool' = pool
<1>1. PoolInv /\ [PoolNext]_poolVars => [Frozen]_poolVars
  BY DEF PoolNext, Get, Push, Forget, Fetch, Recycle
<1> QED
  BY <1>1, PoolInvariance, PTL DEF PoolSpec, PoolFreezes
=============================================================================
