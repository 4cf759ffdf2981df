------------------------------ MODULE LazyFSM -------------------------------
(***************************************************************************)
(* class LazyFSM of src/LazyFsm.h: a table of events, and one thread that  *)
(* executes the action of the current event and moves to an event of the   *)
(* state it leads to.                                                      *)
(*                                                                         *)
(* run() holds the mutex from the end of its wait to the end of its turn,  *)
(* action included, and stop() holds it while it joins; start() and stop() *)
(* read and write `status' without it.  One owner calls registerEvent,     *)
(* start and stop, registerEvent before start; any thread calls setEvent.  *)
(* An action that calls back into the machine is left out: setEvent would  *)
(* lock the mutex its own thread holds.                                    *)
(***************************************************************************)
EXTENDS Integers, FiniteSets

CONSTANTS
  Ids,      \* the event ids a program registers
  Table,    \* the members `state' and `nextState' of each event
  Junk      \* an id nobody registers

ASSUME LazyFSMAssumption ==
  /\ Ids \subseteq Nat
  /\ \A e \in Ids : Table[e].state \in Nat /\ Table[e].nextState \in Nat
  /\ Junk \in Int \ (Ids \union {0})

VARIABLES
  status,           \* the status, without its prefix FSM_
  currentEventID,   \* indeterminate until setEvent or transit assign it
  events,           \* the ids in the map of events
  mutex,            \* "free", or who holds it over actions: "run", "stop"
  pc,               \* listenThread
  owner,            \* the owner's call in progress
  wasSet            \* history: setEvent has assigned currentEventID

vars == <<status, currentEventID, events, mutex, pc, owner, wasSet>>

Statuses == {"NONE", "READY", "WAIT", "TERMINATE"}
RunPc == {"none", "lock", "wait", "check", "exec", "exited", "crashed"}
OwnerPc == {"idle", "start", "stop", "join", "aborted"}

Init ==
  /\ status = "NONE"
  /\ currentEventID \in Ids \union {0, Junk}
  /\ events = {}
  /\ mutex = "free"
  /\ pc = "none"
  /\ owner = "idle"
  /\ wasSet = FALSE
-----------------------------------------------------------------------------
RegisterEvent(id) ==
  /\ owner = "idle" /\ pc = "none"
  /\ events' = events \union {id}
  /\ UNCHANGED <<status, currentEventID, mutex, pc, owner, wasSet>>

(* Broken variant of SetEvent.                                             *)
SetEventSilently(id) ==
  /\ id \in events /\ mutex = "free"
  /\ currentEventID' = id
  /\ status' = "READY"
  /\ wasSet' = TRUE
  /\ UNCHANGED <<events, mutex, pc, owner>>

(* Broken variant of SetEvent.                                             *)
SetAnyEvent(id) ==
  /\ id \in Ids /\ mutex = "free"
  /\ currentEventID' = id
  /\ status' = "READY"
  /\ pc' = IF status # "READY" /\ pc = "wait" THEN "lock" ELSE pc
  /\ wasSet' = TRUE
  /\ UNCHANGED <<events, mutex, owner>>

(* setEvent: an unknown id is ignored; a known one replaces whatever event *)
(* was current, and wakes the thread unless the machine was ready already. *)
SetEvent(id) ==
  /\ id \in events /\ mutex = "free"
  /\ currentEventID' = id
  /\ status' = "READY"
  /\ pc' = IF status # "READY" /\ pc = "wait" THEN "lock" ELSE pc
  /\ wasSet' = TRUE
  /\ UNCHANGED <<events, mutex, owner>>

(* Broken variant of StartTests.                                           *)
StartAnyway ==
  /\ owner = "idle" /\ pc = "none"
  /\ owner' = "start"
  /\ UNCHANGED <<status, currentEventID, events, mutex, pc, wasSet>>

(* start: the test of the status, then the store and the thread. *)
StartTests ==
  /\ owner = "idle" /\ status = "NONE"
  /\ owner' = "start"
  /\ UNCHANGED <<status, currentEventID, events, mutex, pc, wasSet>>

StartSets ==
  /\ owner = "start"
  /\ status' = "READY"
  /\ pc' = "lock"
  /\ owner' = "idle"
  /\ UNCHANGED <<currentEventID, events, mutex, wasSet>>

(* stop: the test of the status, ... *)
StopTests ==
  /\ owner = "idle" /\ status # "NONE" /\ pc # "crashed"
  /\ owner' = "stop"
  /\ UNCHANGED <<status, currentEventID, events, mutex, pc, wasSet>>

(* Broken variant of StopLoop.                                             *)
StopUnlocked ==
  /\ owner \in {"stop", "join"}
  /\ IF owner = "stop"
     THEN /\ status' = "TERMINATE"
          /\ owner' = IF pc = "none" THEN "aborted" ELSE "join"
          /\ UNCHANGED <<mutex, pc>>
     ELSE /\ pc = "exited" /\ pc' = "none"
          /\ owner' = IF status = "NONE" THEN "idle" ELSE "stop"
          /\ UNCHANGED <<status, mutex>>
  /\ UNCHANGED <<currentEventID, events, wasSet>>

(* ... then a loop that locks, stores, and joins with the mutex in hand;   *)
(* without a thread join() throws.                                         *)
StopLoop ==
  /\ owner \in {"stop", "join"}
  /\ IF owner = "stop"
     THEN /\ mutex = "free" /\ mutex' = "stop"
          /\ status' = "TERMINATE"
          /\ owner' = IF pc = "none" THEN "aborted" ELSE "join"
          /\ UNCHANGED pc
     ELSE /\ pc = "exited" /\ pc' = "none"
          /\ mutex' = "free"
          /\ owner' = IF status = "NONE" THEN "idle" ELSE "stop"
          /\ UNCHANGED status
  /\ UNCHANGED <<currentEventID, events, wasSet>>
-----------------------------------------------------------------------------
(* run: the wait and its predicate, a wakeup without a notification, ...   *)
Wait ==
  /\ pc = "lock" /\ mutex = "free"
  /\ IF status = "READY" THEN pc' = "check" /\ mutex' = "run"
                         ELSE pc' = "wait" /\ UNCHANGED mutex
  /\ UNCHANGED <<status, currentEventID, events, owner, wasSet>>

SpuriousWake ==
  /\ pc = "wait"
  /\ pc' = "lock"
  /\ UNCHANGED <<status, currentEventID, events, mutex, owner, wasSet>>

(* ... the test for FSM_TERMINATE, ...                                     *)
Check ==
  /\ pc = "check"
  /\ IF status = "TERMINATE"
     THEN status' = "NONE" /\ pc' = "exited" /\ mutex' = "free"
     ELSE pc' = "exec" /\ UNCHANGED <<status, mutex>>
  /\ UNCHANGED <<currentEventID, events, owner, wasSet>>

(* ... and the action.  For an id that is not in the map, events[id] makes *)
(* an event whose action is null, and calling it kills the process.        *)
Crash ==
  /\ pc = "exec" /\ currentEventID \notin events
  /\ pc' = "crashed"
  /\ UNCHANGED <<status, currentEventID, events, mutex, owner, wasSet>>

(* transit: the first event of the state s, or the id 0 if there is none;  *)
(* state 0 is where the machine waits.                                     *)
Transit(s) ==
  LET found == {e \in events : Table[e].state = s}
  IN  /\ currentEventID' = IF found = {} THEN 0
                           ELSE CHOOSE e \in found : \A f \in found : e <= f
      /\ status' = IF found # {} /\ s = 0 THEN "WAIT" ELSE status

Exec ==
  /\ pc = "exec" /\ currentEventID \in events
  /\ \/ Transit(Table[currentEventID].nextState)        \* exec() == 0
     \/ status' = "WAIT" /\ UNCHANGED currentEventID
  /\ pc' = "lock" /\ mutex' = "free"
  /\ UNCHANGED <<events, owner, wasSet>>
-----------------------------------------------------------------------------
OwnerStep ==
  \/ \E id \in Ids : RegisterEvent(id)
  \/ StartTests \/ StartSets \/ StopTests \/ StopLoop

RunStep == Wait \/ Check \/ Crash \/ Exec

Next ==
  \/ OwnerStep \/ RunStep \/ SpuriousWake
  \/ \E id \in Ids : SetEvent(id)

Spec == Init /\ [][Next]_vars

(* The scheduler runs the thread; against callers of setEvent it gets the  *)
(* mutex, which is free again and again, eventually.                       *)
FairSpec == Spec /\ SF_vars(Wait) /\ WF_vars(Check \/ Crash \/ Exec)
-----------------------------------------------------------------------------
(* The variables keep their types; the thread holds the mutex from the end *)
(* of its wait to the end of its turn, stop from its store on.             *)
TypeOK ==
  /\ status \in Statuses
  /\ currentEventID \in Ids \union {0, Junk}
  /\ events \in SUBSET Ids
  /\ pc \in RunPc /\ owner \in OwnerPc /\ wasSet \in BOOLEAN
  /\ mutex = CASE pc \in {"check", "exec", "crashed"} -> "run"
               [] owner \in {"join", "aborted"} -> "stop"
               [] OTHER -> "free"

(* The thread never sleeps on a machine that is ready: setEvent may skip   *)
(* its notification when the status is FSM_READY already.                  *)
NoSleepWhenReady == pc = "wait" => status # "READY"

(* Every state an event leads to has an event. *)
Closed ==
  \A e \in events : \E f \in events : Table[f].state = Table[e].nextState

(* The thread looks up an id that is not in the map only on a table that   *)
(* is not closed, or when it was faster than the first setEvent: start     *)
(* makes the machine ready before there is a current event.                *)
CrashIsEarlyOrOpen == pc = "crashed" => ~wasSet \/ ~Closed

(* stop and the destructor never return from the join of a thread that was *)
(* started: the thread needs the mutex that stop keeps, and the predicate  *)
(* of its wait is deaf to FSM_TERMINATE, so the branch that would end it   *)
(* is never taken.                                                         *)
StopNeverReturns == [][owner = "join" => owner' = "join"]_vars

(* A machine that has a status, but no thread and no start() between its   *)
(* test and its thread, never gets one: setEvent made it FSM_READY, which  *)
(* start takes for `started' from then on.                                 *)
SetBeforeStartIsFatal ==
  [](status # "NONE" /\ pc = "none" /\ owner # "start" => [](pc = "none"))

(* A machine that is ready, with its thread running, executes an action,   *)
(* however often events are set; only stop prevents it.                    *)
Reacts ==
  (status = "READY" /\ pc \in {"lock", "wait"})
     ~> (pc \in {"exec", "crashed"} \/ owner \in {"stop", "join"})
=============================================================================
