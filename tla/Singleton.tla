----------------------------- MODULE Singleton -----------------------------
(***************************************************************************)
(* src/singleton.hpp: instance() tests ptr without the mutex, tests it     *)
(* again under it, and assigns it.  ptr is a shared_ptr: two words, the    *)
(* object and the counter of its owners, which the assignment stores one   *)
(* after the other, in the order the compiler likes, next to threads that  *)
(* test the first and copy both.  A copy without the counter is no owner.  *)
(*                                                                         *)
(* The threads keep their copy for a while and may call instance() again.  *)
(* The program ends, and destroys ptr, when no thread is in instance().    *)
(***************************************************************************)
EXTENDS Integers, FiniteSets

CONSTANTS Threads, NoThread

Words == {"object", "counter"}

VARIABLES
  stored,       \* the words of ptr that are assigned
  mutex,        \* its holder
  made,         \* objects made
  pc,           \* where each thread is in instance(), or with its copy
  copy,         \* the words of each thread's copy
  static        \* ptr is not yet destroyed

vars == <<stored, mutex, made, pc, copy, static>>

Init ==
  /\ stored = {} /\ mutex = NoThread /\ made = 0
  /\ pc = [t \in Threads |-> "out"] /\ copy = [t \in Threads |-> {}]
  /\ static = TRUE

(* The owners the counter knows: ptr, and each copy that has it.           *)
Owners ==
  {t \in Threads : "counter" \in copy[t]}
    \union (IF static /\ made > 0 THEN {NoThread} ELSE {})

Destroyed == made > 0 /\ Owners = {}

Goes(t, from, to) == pc[t] = from /\ pc' = [pc EXCEPT ![t] = to]
-----------------------------------------------------------------------------
(* The first test.                                                         *)
Tests(t) ==
  /\ static
  /\ Goes(t, "out", IF "object" \in stored THEN "copy" ELSE "lock")
  /\ UNCHANGED <<stored, mutex, made, copy, static>>

Locks(t) ==
  /\ Goes(t, "lock", "second")
  /\ mutex = NoThread /\ mutex' = t
  /\ UNCHANGED <<stored, made, copy, static>>

(* Broken variant of TestsAgain.                                           *)
MakesAnyway(t) ==
  /\ Goes(t, "second", "assign")
  /\ made' = made + 1
  /\ UNCHANGED <<stored, mutex, copy, static>>

(* The second test; make_shared when ptr is null still.                    *)
TestsAgain(t) ==
  /\ IF "object" \in stored
     THEN Goes(t, "second", "copy") /\ mutex' = NoThread /\ UNCHANGED made
     ELSE Goes(t, "second", "assign") /\ made' = made + 1 /\ UNCHANGED mutex
  /\ UNCHANGED <<stored, copy, static>>

(* A word of the assignment; the mutex is released behind the second.      *)
Assigns(t) ==
  /\ \E w \in Words \ stored : stored' = stored \union {w}
  /\ IF stored' = Words
     THEN Goes(t, "assign", "copy") /\ mutex' = NoThread
     ELSE Goes(t, "assign", "assign") /\ UNCHANGED mutex
  /\ UNCHANGED <<made, copy, static>>

(* return ptr. *)
Copies(t) ==
  /\ Goes(t, "copy", "has")
  /\ copy' = [copy EXCEPT ![t] = stored]
  /\ UNCHANGED <<stored, mutex, made, static>>

Drops(t) ==
  /\ Goes(t, "has", "out")
  /\ copy' = [copy EXCEPT ![t] = {}]
  /\ UNCHANGED <<stored, mutex, made, static>>

Exits ==
  /\ static /\ \A t \in Threads : pc[t] \in {"out", "has"}
  /\ static' = FALSE
  /\ UNCHANGED <<stored, mutex, made, pc, copy>>

Next ==
  \/ Exits
  \/ \E t \in Threads :
       \/ Tests(t) \/ Locks(t) \/ TestsAgain(t) \/ Assigns(t)
       \/ Copies(t) \/ Drops(t)

Spec == Init /\ [][Next]_vars
-----------------------------------------------------------------------------
(* The values of the variables.                                            *)
TypeOK ==
  /\ stored \in SUBSET Words /\ mutex \in Threads \union {NoThread}
  /\ made \in Nat /\ static \in BOOLEAN
  /\ pc \in [Threads -> {"out", "lock", "second", "assign", "copy", "has"}]
  /\ copy \in [Threads -> SUBSET Words]

(* The object is made once, under the mutex.                               *)
MadeOnce ==
  /\ made <= 1
  /\ \A t \in Threads : pc[t] \in {"second", "assign"} <=> mutex = t
  /\ stored # {} => made = 1

(* Every call returns the object.                                          *)
ReturnsIt == \A t \in Threads : pc[t] = "has" => "object" \in copy[t]

(* A thread's object is gone only when its copy was taken between the two  *)
(* stores of the assignment, and then not before the program ends.         *)
KeepsIt ==
  \A t \in Threads :
    pc[t] = "has" /\ Destroyed => "counter" \notin copy[t] /\ ~static

(* However the unlocked test falls next to the assignment, there is one    *)
(* object, every call returns it, and it lives until the program ends; who *)
(* tested it in the middle of the assignment may outlive it then.          *)
OneForAll == TypeOK /\ MadeOnce /\ ReturnsIt /\ KeepsIt
=============================================================================
