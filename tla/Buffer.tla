------------------------------- MODULE Buffer -------------------------------
(***************************************************************************)
(* src/buffer.hpp: two halves of one capacity.  write() appends to wData;  *)
(* a write that finds it full swaps the halves instead, answers 1 and      *)
(* drops its data.  It never asks whether the data fits.                   *)
(*                                                                         *)
(* A half is the sequence of the writes that are in it, by their numbers.  *)
(* The members are public, and the user sets them: capacity 0 stands for a *)
(* Buffer that nobody set, where both halves are null.                     *)
(***************************************************************************)
EXTENDS Integers, Sequences

CONSTANTS
  MaxCapacity,  \* bound: the capacities
  MaxLen,       \* bound: the length of a write
  MaxWrites     \* bound: calls of write

VARIABLES
  capacity, wLen, rLen,         \* the members
  wData, rData,                 \* the writes that are in each half
  writes,       \* calls of write
  past,         \* history: the bytes furthest behind a half that were written
  accepted,     \* history: the writes that answered 0, in their order
  swapped       \* history: what was in the halves that were full, in order

halfVars == <<wLen, rLen, wData, rData>>
vars == <<capacity, halfVars, writes, past, accepted, swapped>>

Init ==
  /\ capacity \in 0 .. MaxCapacity
  /\ wLen = 0 /\ rLen = 0 /\ wData = <<>> /\ rData = <<>>
  /\ writes = 0 /\ past = 0 /\ accepted = <<>> /\ swapped = <<>>

(* memcpy, wherever it ends. *)
Appends(len) ==
  /\ wLen < capacity
  /\ wLen' = wLen + len /\ wData' = Append(wData, writes')
  /\ past' = IF wLen' - capacity > past THEN wLen' - capacity ELSE past
  /\ accepted' = Append(accepted, writes')
  /\ UNCHANGED <<rLen, rData, swapped>>

(* Broken variant of Swaps.                                                *)
SwapsData ==
  /\ wLen >= capacity
  /\ rData' = wData /\ rLen' = wLen /\ wData' = <<>>
  /\ swapped' = swapped \o wData
  /\ UNCHANGED <<wLen, past, accepted>>

(* The data of this write goes nowhere. *)
Swaps ==
  /\ wLen >= capacity
  /\ rData' = wData /\ rLen' = wLen
  /\ wData' = <<>> /\ wLen' = 0
  /\ swapped' = swapped \o wData
  /\ UNCHANGED <<past, accepted>>

Write(len) ==
  /\ writes < MaxWrites /\ writes' = writes + 1
  /\ Appends(len) \/ Swaps
  /\ UNCHANGED capacity

Next == \E len \in 0 .. MaxLen : Write(len)

Spec == Init /\ [][Next]_vars
-----------------------------------------------------------------------------
(* The values of the variables. *)
TypeOK ==
  /\ capacity \in 0 .. MaxCapacity
  /\ wLen \in Nat /\ rLen \in Nat /\ past \in Nat
  /\ writes \in 0 .. MaxWrites
  /\ {wData, rData, accepted, swapped} \subseteq Seq(1 .. MaxWrites)

(* What is written behind a half is shorter than the write that did it.    *)
OverrunIsBounded == past <= IF capacity = 0 \/ MaxLen = 0 THEN 0 ELSE MaxLen - 1

(* The halves hand on what was accepted, in order, with nothing between.   *)
InOrder == accepted = swapped \o wData

(* No two writes in a row are dropped, and rData is a full half when there *)
(* is one, unless nobody set the Buffer: that drops every write.           *)
DropsOneOfAHalf ==
  IF capacity = 0 THEN accepted = <<>>
  ELSE /\ rLen = 0 \/ rLen >= capacity
       /\ 2 * Len(accepted) >= writes

(* A Buffer loses one write each time its halves are swapped and no other; *)
(* what it took comes out in order; and it writes behind a half by less    *)
(* than the length of a write.                                             *)
LosesOnePerSwap == TypeOK /\ OverrunIsBounded /\ InOrder /\ DropsOneOfAHalf
=============================================================================
