------------------------------ MODULE Observer ------------------------------
(***************************************************************************)
(* class Subject of src/observer.hpp: observerList, a vector of pointers,  *)
(* and notify(), which walks it with iterators.  The observers are told    *)
(* through updtae(), where they may call attach and detach of the subject  *)
(* that is walking.  An observer's destructor detaches nothing, so what    *)
(* was attached stays in the list when its owner destroys it, as those of  *)
(* test_observer in test/main.cpp do; no new observer takes its address.   *)
(*                                                                         *)
(* slots is the vector's storage.  erase() moves what is behind down by    *)
(* one and leaves the last slot as it was; push_back moves to new storage  *)
(* when the old one is full.                                               *)
(***************************************************************************)
EXTENDS Integers, Sequences, FiniteSets

CONSTANTS
  Observers,
  MaxSlots,     \* bound: slots of the storage
  MaxWalks,     \* bound: calls of notify
  MaxErased,    \* bound: entries erased during a walk
  NoObserver    \* a slot never used

VARIABLES
  slots, size,  \* observerList
  at, end,      \* the iterators of notify: the next slot, and the one behind
                \* the last; 0 and 0 outside of notify
  moved,        \* the storage the iterators point into is freed
  alive,        \* the observers that exist
  proc,         \* the process: "up" or "crashed"
  walks,        \* calls of notify
  told,         \* history: how often the walk has told each observer
  erased,       \* history: entries erased during the walk
  stayed        \* history: observers attached once, before and during it

walkVars == <<at, end, walks>>
pastVars == <<told, erased, stayed>>
vars == <<slots, size, moved, alive, proc, walkVars, pastVars>>

List == SubSeq(slots, 1, size)
Entries(o) == {i \in 1 .. size : slots[i] = o}
Walking == at # 0

Init ==
  /\ slots = <<>> /\ size = 0
  /\ at = 0 /\ end = 0 /\ moved = FALSE
  /\ alive = Observers /\ proc = "up" /\ walks = 0
  /\ told = [o \in Observers |-> 0] /\ erased = 0 /\ stayed = {}
-----------------------------------------------------------------------------
(* attach, from outside or from an updtae; new storage is of any length.   *)
Attach(o) ==
  /\ proc = "up" /\ o \in alive /\ size < MaxSlots
  /\ \E n \in size + 1 .. MaxSlots :
       /\ size < Len(slots) => n = Len(slots)
       /\ slots' = [i \in 1 .. n |->
                      IF i = size + 1 THEN o
                      ELSE IF i \in DOMAIN slots THEN slots[i]
                      ELSE NoObserver]
  /\ size' = size + 1
  /\ moved' = (moved \/ (Walking /\ size = Len(slots)))
  /\ stayed' = stayed \ {o}
  /\ UNCHANGED <<alive, proc, walkVars, told, erased>>

(* Broken variant of Detach.                                               *)
DetachAll(o) ==
  /\ proc = "up" /\ Entries(o) # {} /\ (Walking => erased < MaxErased)
  /\ LET left == SelectSeq(List, LAMBDA x : x # o) IN
     /\ slots' = [i \in DOMAIN slots |->
                    IF i <= Len(left) THEN left[i] ELSE slots[i]]
     /\ size' = Len(left)
     /\ erased' = IF Walking THEN erased + 1 ELSE erased
  /\ stayed' = stayed \ {o}
  /\ UNCHANGED <<moved, alive, proc, walkVars, told>>

(* detach erases the first entry of o, which it compares and never calls.  *)
Detach(o) ==
  /\ proc = "up" /\ Entries(o) # {} /\ (Walking => erased < MaxErased)
  /\ LET first == CHOOSE i \in Entries(o) : \A j \in Entries(o) : i <= j
     IN  slots' = [i \in DOMAIN slots |->
                     IF i \in first .. size - 1 THEN slots[i + 1] ELSE slots[i]]
  /\ size' = size - 1
  /\ erased' = IF Walking THEN erased + 1 ELSE erased
  /\ stayed' = stayed \ {o}
  /\ UNCHANGED <<moved, alive, proc, walkVars, told>>

(* The owner of an observer destroys it, attached or not: ~Observer() is   *)
(* empty, and the entries it has keep its address.                         *)
Destroy(o) ==
  /\ proc = "up" /\ o \in alive
  /\ alive' = alive \ {o}
  /\ UNCHANGED <<slots, size, moved, proc, walkVars, pastVars>>
-----------------------------------------------------------------------------
NotifyBegins ==
  /\ proc = "up" /\ ~Walking /\ walks < MaxWalks
  /\ at' = 1 /\ end' = size + 1 /\ walks' = walks + 1
  /\ told' = [o \in Observers |-> 0] /\ erased' = 0
  /\ stayed' = {o \in Observers : Cardinality(Entries(o)) = 1}
  /\ UNCHANGED <<slots, size, moved, alive, proc>>

(* The call of the observer in the next slot.  A read of freed storage and *)
(* a call of an observer that is destroyed count as a crash.               *)
NotifyTells ==
  /\ proc = "up" /\ Walking /\ at # end
  /\ IF moved \/ slots[at] \notin alive
     THEN proc' = "crashed" /\ UNCHANGED <<at, told>>
     ELSE /\ told' = [told EXCEPT ![slots[at]] = @ + 1]
          /\ at' = at + 1
          /\ UNCHANGED proc
  /\ UNCHANGED <<slots, size, moved, alive, end, walks, erased, stayed>>

NotifyEnds ==
  /\ proc = "up" /\ Walking /\ at = end
  /\ at' = 0 /\ end' = 0 /\ moved' = FALSE
  /\ UNCHANGED <<slots, size, alive, proc, walks, pastVars>>

Next ==
  \/ \E o \in Observers : Attach(o) \/ Detach(o) \/ Destroy(o)
  \/ NotifyBegins \/ NotifyTells \/ NotifyEnds

Spec == Init /\ [][Next]_vars
-----------------------------------------------------------------------------
(* The values of the variables; a slot in use holds an observer that was   *)
(* attached, which need not live.                                          *)
TypeOK ==
  /\ slots \in Seq(Observers \union {NoObserver})
  /\ size \in 0 .. Len(slots)
  /\ \A i \in 1 .. size : slots[i] \in Observers
  /\ at \in 0 .. end /\ end \in 0 .. Len(slots) + 1
  /\ moved \in BOOLEAN /\ alive \in SUBSET Observers
  /\ proc \in {"up", "crashed"} /\ walks \in 0 .. MaxWalks
  /\ told \in [Observers -> Nat] /\ erased \in 0 .. MaxErased
  /\ stayed \in SUBSET Observers

Missed == {o \in stayed : told[o] = 0}
Excess == {o \in stayed : told[o] > 1}

(* Each entry erased while notify walks costs at most one observer that    *)
(* stayed attached its call, and gives at most one a second one, from the  *)
(* stale slot behind the end.                                              *)
ErasedOnesSkip ==
  /\ Cardinality(Excess) <= erased
  /\ walks > 0 /\ ~Walking => Cardinality(Missed) <= erased

(* An observer that was destroyed and not detached.                        *)
Dangling == {i \in 1 .. size : slots[i] \notin alive}

(* Nothing ends the process but an entry erased during the walk, storage   *)
(* that push_back freed during it, or an observer that was destroyed while *)
(* it is attached.                                                         *)
CrashIsByChange == proc = "crashed" => erased > 0 \/ moved \/ Dangling # {}

(* What a walk does when observers attach and detach in it: one erased     *)
(* entry skips at most one observer and repeats at most one, and a list of *)
(* living observers that is not changed is told once each, without a       *)
(* crash.                                                                  *)
WalkSurvives == TypeOK /\ ErasedOnesSkip /\ CrashIsByChange
=============================================================================
