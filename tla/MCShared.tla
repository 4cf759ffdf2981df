------------------------------ MODULE MCShared ------------------------------
(***************************************************************************)
(* Three components that threads share without a lock where they would     *)
(* need one, checked in one run: the allocator, the singleton and the log. *)
(* They share nothing; a behaviour is a behaviour of one of them, and the  *)
(* others stay at rest in their initial state.  Threads and blocks are     *)
(* interchangeable.                                                        *)
(***************************************************************************)
EXTENDS LazyAllocator, TLC

CONSTANTS
  Users, NoThread,      \* the threads of the singleton
  MaxTime, MaxLines

(* Both locks tell a thread from none. *)
ASSUME SharedAssumption == NoThread \notin Threads \union Users

VARIABLES
  sharedPart,   \* the component that runs
  stored, mutex, made, pc, copy, static,
  writer, on, logMutex, file, now, tm, logPc, show, tt, text, mixed, shown

Si == INSTANCE Singleton WITH Threads <- Users
Lo == INSTANCE Log WITH mutex <- logMutex, pc <- logPc

siVars == <<stored, mutex, made, pc, copy, static>>
loVars ==
  <<writer, on, logMutex, file, now, tm, logPc, show, tt, text, mixed, shown>>

SharedInit ==
  /\ sharedPart \in {"allocator", "singleton", "log"}
  /\ Init /\ Si!Init /\ Lo!Init
  /\ sharedPart = "log" \/ (writer /\ on)

SharedNext ==
  \/ sharedPart = "allocator" /\ Next /\ UNCHANGED <<sharedPart, siVars, loVars>>
  \/ sharedPart = "singleton" /\ Si!Next /\ UNCHANGED <<sharedPart, vars, loVars>>
  \/ sharedPart = "log" /\ Lo!Next /\ UNCHANGED <<sharedPart, vars, siVars>>

SharedSpec == SharedInit /\ [][SharedNext]_<<sharedPart, vars, siVars, loVars>>

Symmetry == Permutations(Threads) \union Permutations(Blocks)
-----------------------------------------------------------------------------
(* Singleton: one object for all threads in instance().                    *)
OneForAll == Si!OneForAll

(* Log: lines with their own times as long as no two calls overlap.        *)
TimesAreTrue == Lo!TimesAreTrue
=============================================================================
