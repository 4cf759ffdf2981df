--------------------------- MODULE LazyAllocator ----------------------------
(***************************************************************************)
(* class LazyAllocator of src/LazyAlloctor.hpp: freed blocks are kept in a *)
(* multimap by their rounded size and handed out again.  pop and clear are *)
(* one critical section each; push reads container.size() before it locks, *)
(* which makes it two steps.                                               *)
(*                                                                         *)
(* A client pushes a block once and with the size it was popped with: push *)
(* leaves the caller's pointer set when it keeps the block, so nothing in  *)
(* the code holds a client to it.                                          *)
(***************************************************************************)
EXTENDS Naturals, FiniteSets

CONSTANTS
  Threads,
  Blocks,       \* bound: the addresses new T[] can return
  NoBlock,
  Sizes,        \* the sizes clients ask for
  Granule,      \* 1024
  Width,        \* 2^w, for the w bits of std::size_t
  Capacity      \* capacity

ASSUME LazyAllocatorAssumption ==
  /\ IsFiniteSet(Threads) /\ Threads # {}
  /\ IsFiniteSet(Blocks) /\ NoBlock \notin Blocks
  /\ Granule \in Nat \ {0} /\ Capacity \in Nat \ {0}
  /\ Width \in Nat \ {0} /\ Width % Granule = 0
  /\ Sizes \subseteq 0 .. Width - 1

VARIABLES
  where,        \* of each block: "free", "held", "pushing", "pooled", "lost"
  length,       \* the length it was allocated with
  asked,        \* the size it was last popped with
  key,          \* the key it was last filed under
  pushing       \* the block a thread brings between the test and the lock

vars == <<where, length, asked, key, pushing>>

Stages == {"free", "held", "pushing", "pooled", "lost"}
container == {b \in Blocks : where[b] = "pooled"}
Pushers == {t \in Threads : pushing[t] # NoBlock}

Init ==
  /\ where = [b \in Blocks |-> "free"]
  /\ length = [b \in Blocks |-> 0]
  /\ asked = [b \in Blocks |-> 0]
  /\ key = [b \in Blocks |-> 0]
  /\ pushing = [t \in Threads |-> NoBlock]
-----------------------------------------------------------------------------
(* The next multiple of the granule, in the arithmetic of std::size_t. *)
Round(size) ==
  IF size % Granule = 0 THEN size
  ELSE ((size \div Granule + 1) * Granule) % Width

(* pop: a block filed under the rounded size, or a new one of that length. *)
Pop(size) ==
  LET fit == {b \in container : key[b] = Round(size)}
  IN  \E b \in Blocks :
        /\ IF fit # {} THEN b \in fit /\ UNCHANGED length
           ELSE where[b] = "free" /\ length' = [length EXCEPT ![b] = Round(size)]
        /\ where' = [where EXCEPT ![b] = "held"]
        /\ asked' = [asked EXCEPT ![b] = size]
        /\ UNCHANGED <<key, pushing>>

(* Broken variant of PushTests.                                            *)
PushTestsLate(t, b) ==
  /\ where[b] = "held" /\ asked[b] # 0
  /\ pushing[t] = NoBlock
  /\ IF Cardinality(container) <= Capacity
     THEN /\ where' = [where EXCEPT ![b] = "pushing"]
          /\ pushing' = [pushing EXCEPT ![t] = b]
     ELSE where' = [where EXCEPT ![b] = "free"] /\ UNCHANGED pushing
  /\ UNCHANGED <<length, asked, key>>

(* push, before the lock: a full container has the block deleted. *)
PushTests(t, b) ==
  /\ where[b] = "held" /\ asked[b] # 0
  /\ pushing[t] = NoBlock
  /\ IF Cardinality(container) < Capacity
     THEN /\ where' = [where EXCEPT ![b] = "pushing"]
          /\ pushing' = [pushing EXCEPT ![t] = b]
     ELSE where' = [where EXCEPT ![b] = "free"] /\ UNCHANGED pushing
  /\ UNCHANGED <<length, asked, key>>

(* push of a block of size 0 returns at once, and nobody frees it. *)
PushLoses(b) ==
  /\ where[b] = "held" /\ asked[b] = 0
  /\ where' = [where EXCEPT ![b] = "lost"]
  /\ UNCHANGED <<length, asked, key, pushing>>

(* push, under the lock: the rounding of pop, on the size the caller gives. *)
PushFiles(t) ==
  /\ pushing[t] # NoBlock
  /\ where' = [where EXCEPT ![pushing[t]] = "pooled"]
  /\ key' = [key EXCEPT ![pushing[t]] = Round(asked[pushing[t]])]
  /\ pushing' = [pushing EXCEPT ![t] = NoBlock]
  /\ UNCHANGED <<length, asked>>

(* clear: every block of the container is deleted. *)
Clear ==
  /\ where' = [b \in Blocks |-> IF b \in container THEN "free" ELSE where[b]]
  /\ UNCHANGED <<length, asked, key, pushing>>

Next ==
  \/ \E size \in Sizes : Pop(size)
  \/ \E b \in Blocks : PushLoses(b) \/ \E t \in Threads : PushTests(t, b)
  \/ \E t \in Threads : PushFiles(t)
  \/ Clear

Spec == Init /\ [][Next]_vars
-----------------------------------------------------------------------------
(* Types, and one pushing thread for each block on its way to the pool. *)
TypeOK ==
  /\ where \in [Blocks -> Stages]
  /\ length \in [Blocks -> 0 .. Width - 1]
  /\ asked \in [Blocks -> 0 .. Width - 1]
  /\ key \in [Blocks -> 0 .. Width - 1]
  /\ pushing \in [Threads -> Blocks \union {NoBlock}]
  /\ \A t \in Pushers : where[pushing[t]] = "pushing"
  /\ \A t, u \in Pushers : pushing[t] = pushing[u] => t = u

(* The container outgrows its capacity by one block for each thread but    *)
(* one that passed the unlocked test: by no more, however pushes and pops  *)
(* interleave.                                                             *)
PoolBounded ==
  Cardinality(container) + Cardinality(Pushers)
     <= Capacity - 1 + Cardinality(Threads)

(* A pooled block is filed under its length: asked for by one size, given  *)
(* back and asked for by another, it never turns out too short.            *)
FiledByLength == \A b \in container : key[b] = length[b]

(* Who popped a block has room for what was asked for, except for a size   *)
(* in the last granule of std::size_t, whose rounding wraps around to 0.   *)
LongEnough ==
  \A b \in Blocks :
    where[b] \in {"held", "pushing"} =>
      length[b] >= asked[b] \/ asked[b] > Width - Granule

(* Unlocked test and wrapping size included, the pool stays near its       *)
(* capacity, files blocks by their length, and hands out what was asked.   *)
PoolServes == TypeOK /\ PoolBounded /\ FiledByLength /\ LongEnough
=============================================================================
