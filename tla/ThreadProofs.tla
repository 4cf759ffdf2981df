---------------------------- MODULE ThreadProofs ----------------------------
(***************************************************************************)
(* Theorems about the three classes that own one thread and join it: for   *)
(* LazyFSM with any table of events, for the TcpClient of the daemon, and  *)
(* for that of tcppipe.                                                    *)
(***************************************************************************)
EXTENDS LazyFSM, TcpClient, PipeClient, WellFoundedInduction, TLAPS

(* The thread passes its wait with the status FSM_READY and keeps it, as   *)
(* everybody who could change it lacks the mutex; so it never leaves.  And *)
(* there is a thread from the first start on, so nobody starts another.    *)
RunInv ==
  /\ pc \in {"check", "exec"} => status = "READY"
  /\ pc \in {"check", "exec", "crashed"} => owner \notin {"join", "aborted"}
  /\ pc # "exited"
  /\ owner = "start" => pc = "none"
  /\ owner = "aborted" => pc = "none"
  /\ status = "NONE" => pc = "none"
  /\ owner = "join" => pc # "none"

IInv == TypeOK /\ NoSleepWhenReady /\ RunInv
-----------------------------------------------------------------------------
(* The map has a first event of a state, if it has one at all.             *)
LEMMA FirstExists ==
  ASSUME NEW S \in SUBSET Nat, S # {}
  PROVE  \E e \in S : \A f \in S : e <= f
<1>1. PICK e \in S : \A f \in S : ~(<<f, e>> \in OpToRel(<, Nat))
  BY NatLessThanWellFounded, WFMin
<1>2. \A f \in S : ~(f < e)
  BY <1>1 DEF OpToRel
<1> QED
  BY <1>2

(* transit() finds an event that was registered, or takes the id 0.        *)
LEMMA TransitType ==
  ASSUME events \in SUBSET Ids, NEW s, Transit(s)
  PROVE  /\ currentEventID' \in Ids \union {0}
         /\ status' = status \/ status' = "WAIT"
<1> DEFINE found == {e \in events : Table[e].state = s}
<1>1. found \in SUBSET Nat /\ found \subseteq Ids
  BY LazyFSMAssumption
<1>2. ASSUME found # {}
      PROVE  (CHOOSE e \in found : \A f \in found : e <= f) \in Ids
  <2>1. \E e \in found : \A f \in found : e <= f
    BY <1>1, <1>2, FirstExists
  <2> QED
    BY <1>1, <2>1
<1> QED
  BY <1>2 DEF Transit

(* A machine starts without a thread, where each part holds.               *)
LEMMA InitIInv == Init => IInv
  BY DEF Init, IInv, TypeOK, Statuses, RunPc, OwnerPc, NoSleepWhenReady, RunInv

(* Every step keeps the invariant: only start makes a thread, and only the *)
(* thread could leave FSM_TERMINATE.                                       *)
LEMMA StepIInv ==
  ASSUME IInv, [Next]_vars
  PROVE  IInv'
<1> USE DEF IInv, TypeOK, Statuses, RunPc, OwnerPc, NoSleepWhenReady, RunInv
<1>1. ASSUME NEW id \in Ids, RegisterEvent(id) PROVE IInv'
  BY <1>1 DEF RegisterEvent
<1>2. ASSUME NEW id \in Ids, SetEvent(id) PROVE IInv'
  BY <1>2 DEF SetEvent
<1>3. CASE StartTests
  BY <1>3 DEF StartTests
<1>4. CASE StartSets
  BY <1>4 DEF StartSets
<1>5. CASE StopTests
  BY <1>5 DEF StopTests
<1>6. CASE StopLoop
  BY <1>6 DEF StopLoop
<1>7. CASE Wait
  BY <1>7 DEF Wait
<1>8. CASE SpuriousWake
  BY <1>8 DEF SpuriousWake
<1>9. CASE Check
  BY <1>9 DEF Check
<1>10. CASE Crash
  BY <1>10 DEF Crash
<1>11. CASE Exec
  <2>1. currentEventID' \in Ids \union {0, Junk} /\ status' \in {status, "WAIT"}
    BY <1>11, TransitType DEF Exec
  <2>2. /\ pc = "exec" /\ pc' = "lock" /\ mutex' = "free"
        /\ UNCHANGED <<events, owner, wasSet>>
    BY <1>11 DEF Exec
  <2> QED
    BY <2>1, <2>2
<1>12. CASE UNCHANGED vars
  BY <1>12 DEF vars
<1> QED
  BY <1>1, <1>2, <1>3, <1>4, <1>5, <1>6, <1>7, <1>8, <1>9, <1>10, <1>11, <1>12
     DEF Next, OwnerStep, RunStep

(* The invariant holds along every behaviour of the machine.               *)
LEMMA Invariance == Init /\ [][Next]_vars => []IInv
  BY InitIInv, StepIInv, PTL

(* The types, and who holds the mutex of LazyFSM at each place.            *)
THEOREM TypeCorrect == Spec => []TypeOK
<1>1. IInv => TypeOK
  BY DEF IInv
<1> QED
  BY <1>1, Invariance, PTL DEF Spec

(* setEvent may skip the notification of a machine that is ready.          *)
THEOREM NoLostWakeup == Spec => []NoSleepWhenReady
<1>1. IInv => NoSleepWhenReady
  BY DEF IInv
<1> QED
  BY <1>1, Invariance, PTL DEF Spec

(* stop(), and with it the destructor, hangs on every started machine.     *)
THEOREM StopHangs == Spec => StopNeverReturns
<1> DEFINE Stuck == owner = "join" => owner' = "join"
<1>1. IInv /\ [Next]_vars => [Stuck]_vars
  BY DEF IInv, RunInv, Next, OwnerStep, RunStep, RegisterEvent, SetEvent, StartTests,
         StartSets, StopTests, StopLoop, Wait, SpuriousWake, Check, Crash, Exec
<1> QED
  BY <1>1, Invariance, PTL DEF Spec, StopNeverReturns

(* A machine that was given an event before start never gets its thread:   *)
(* start() needs FSM_NONE, which only a thread that ends would store.      *)
THEOREM SetBeforeStartHasNoThread == Spec => SetBeforeStartIsFatal
<1> DEFINE Dead == status # "NONE" /\ pc = "none" /\ owner # "start"
<1>1. IInv /\ Dead /\ [Next]_vars => Dead'
  <2> SUFFICES ASSUME IInv, Dead, [Next]_vars PROVE Dead'
    OBVIOUS
  <2>1. CASE StartTests
    BY <2>1 DEF StartTests
  <2>2. CASE StopLoop
    BY <2>2 DEF StopLoop, IInv, RunInv
  <2>3. ASSUME ~StartTests, ~StopLoop PROVE Dead'
    BY <2>3 DEF vars, Next, OwnerStep, RunStep, RegisterEvent, SetEvent, StartSets,
           StopTests, Wait, SpuriousWake, Check, Crash, Exec
  <2> QED
    BY <2>1, <2>2, <2>3
<1>2. Dead => pc = "none"
  OBVIOUS
<1> HIDE DEF Dead
<1>3. Spec => [](Dead => []Dead)
  BY <1>1, Invariance, PTL DEF Spec
<1>4. Spec => [](Dead => [](pc = "none"))
  BY <1>2, <1>3, PTL
<1> QED
  BY <1>4 DEF Dead, SetBeforeStartIsFatal

(* Once an event was set, the current one is in the map, until transit     *)
(* finds none for its state; a thread that crashed has one that is not.    *)
EventInv ==
  /\ wasSet => currentEventID \in events \/ (pc # "none" /\ ~Closed)
  /\ pc = "crashed" => currentEventID \notin events

(* setEvent and transit keep the current event in the map, but for a       *)
(* transit into a state that has none.                                     *)
LEMMA StepEventInv ==
  ASSUME IInv, EventInv, [Next]_vars
  PROVE  EventInv'
<1> USE DEF IInv, TypeOK, RunInv, EventInv
<1>1. ASSUME NEW id \in Ids, RegisterEvent(id) PROVE EventInv'
  BY <1>1 DEF RegisterEvent
<1>2. ASSUME NEW id \in Ids, SetEvent(id) PROVE EventInv'
  BY <1>2 DEF SetEvent
<1>3. ASSUME UNCHANGED <<currentEventID, events, wasSet>>,
             pc # "none" => pc' # "none", pc' = "crashed" => pc = "crashed"
      PROVE  EventInv'
  BY <1>3 DEF Closed
<1>4. CASE StartTests
  BY <1>3, <1>4 DEF StartTests
<1>5. CASE StartSets
  BY <1>3, <1>5 DEF StartSets
<1>6. CASE StopTests
  BY <1>3, <1>6 DEF StopTests
<1>7. CASE StopLoop
  BY <1>3, <1>7 DEF StopLoop
<1>8. CASE Wait
  BY <1>3, <1>8 DEF Wait
<1>9. CASE SpuriousWake
  BY <1>3, <1>9 DEF SpuriousWake
<1>10. CASE Check
  BY <1>3, <1>10 DEF Check
<1>11. CASE Crash
  BY <1>11 DEF Crash, Closed
<1>12. CASE Exec
  <2> DEFINE s == Table[currentEventID].nextState
             found == {e \in events : Table[e].state = s}
  <2>1. /\ currentEventID \in events /\ pc' = "lock"
        /\ UNCHANGED <<events, wasSet>>
    BY <1>12 DEF Exec
  <2>2. CASE UNCHANGED currentEventID
    BY <2>1, <2>2
  <2>3. CASE Transit(s) /\ found = {}
    <3>1. ~Closed /\ ~Closed'
      BY <2>1, <2>3 DEF Closed
    <3> QED
      BY <2>1, <3>1
  <2>4. CASE Transit(s) /\ found # {}
    <3>1. found \in SUBSET Nat
      BY LazyFSMAssumption
    <3>2. \E e \in found : \A f \in found : e <= f
      BY <2>4, <3>1, FirstExists
    <3>3. currentEventID' \in found
      BY <2>4, <3>2 DEF Transit
    <3> QED
      BY <2>1, <3>3
  <2> QED
    BY <1>12, <2>2, <2>3, <2>4 DEF Exec
<1>13. CASE UNCHANGED vars
  BY <1>3, <1>13 DEF vars
<1> QED
  BY <1>1, <1>2, <1>4, <1>5, <1>6, <1>7, <1>8, <1>9, <1>10, <1>11, <1>12,
     <1>13 DEF Next, OwnerStep, RunStep

(* For any table: the thread looks up an event that is not there only when *)
(* it ran before the first setEvent, or its table leads out of itself.     *)
THEOREM CrashHasTwoCauses == Spec => []CrashIsEarlyOrOpen
<1>1. Init => EventInv
  BY DEF Init, EventInv
<1>2. IInv /\ EventInv /\ [Next]_vars => EventInv'
  BY StepEventInv
<1>3. EventInv => CrashIsEarlyOrOpen
  BY DEF EventInv, CrashIsEarlyOrOpen
<1> QED
  BY <1>1, <1>2, <1>3, Invariance, PTL DEF Spec
-----------------------------------------------------------------------------
(* Each place of main() in the daemon's client, and what stop() has done   *)
(* to the flag, the thread and the descriptor by then.                     *)
MainTells ==
  /\ main \in {"stop", "join", "destroy"} => signalled
  /\ isRunning <=> main \notin {"join", "destroy"}
  /\ rx = "joined" <=> main = "destroy"
  /\ fd = "closed" => main = "destroy"
  /\ rx = "exited" => ~isRunning

ClientInv == ClientTypeOK /\ MainTells

(* For the client of the daemon: every step keeps the invariant.           *)
LEMMA ClientStep ==
  ASSUME ClientInv, [ClientNext]_clientVars
  PROVE  ClientInv'
<1> USE ConnectionAssumption DEF ClientInv, ClientTypeOK, MainTells, MainAt, RxAt
<1>1. CASE Start
  BY <1>1 DEF Start
<1>2. CASE MainLoops
  BY <1>2 DEF MainLoops
<1>3. CASE MainSends
  BY <1>3 DEF MainSends
<1>4. CASE MainWakes
  BY <1>4 DEF MainWakes
<1>5. CASE StopStores
  BY <1>5 DEF StopStores
<1>6. CASE StopJoins
  BY <1>6 DEF StopJoins
<1>7. CASE StopEnds
  BY <1>7 DEF StopEnds
<1>8. CASE RxChecks
  BY <1>8 DEF RxChecks
<1>9. CASE RxReceives
  BY <1>9 DEF RxReceives
<1>10. CASE RxIsEmpty
  BY <1>10 DEF RxIsEmpty
<1>11. CASE RxHandles
  BY <1>11 DEF RxHandles
<1>12. CASE SignalMain
  BY <1>12 DEF SignalMain
<1>13. CASE SignalRx
  BY <1>13 DEF SignalRx
<1>14. CASE ServerSends
  BY <1>14 DEF ServerSends
<1>15. CASE ServerCloses
  BY <1>15 DEF ServerCloses
<1>16. CASE UNCHANGED clientVars
  BY <1>16 DEF clientVars
<1> QED
  BY <1>1, <1>2, <1>3, <1>4, <1>5, <1>6, <1>7, <1>8, <1>9, <1>10, <1>11, <1>12,
     <1>13, <1>14, <1>15, <1>16 DEF ClientNext, MainStep, RxStep

(* recvThread of the daemon's client ends by a signal and stop() only, and *)
(* stop() closes the descriptor after the thread was joined.               *)
THEOREM ClientEndsInOrder == ClientSpec => []EndsInOrder
<1>1. ClientInit => ClientInv
  <2>1. ClientInit => ClientTypeOK
    <3>1. ClientInit => unread \in 0 .. MaxUnread
      BY ConnectionAssumption DEF ClientInit
    <3> QED
      BY <3>1, Zenon DEF ClientInit, ClientTypeOK
  <2>2. ClientInit => MainTells
    BY Zenon DEF ClientInit, MainTells
  <2> QED
    BY <2>1, <2>2 DEF ClientInv
<1>2. ClientInv /\ [ClientNext]_clientVars => ClientInv'
  BY ClientStep
<1>3. ClientInv => EndsInOrder
  BY DEF ClientInv, MainTells, ClientTypeOK, EndsInOrder
<1> QED
  BY <1>1, <1>2, <1>3, PTL DEF ClientSpec
-----------------------------------------------------------------------------
(* A TcpPipe that is connected has its thread, and isRunning is true while *)
(* it lives; one that is not has neither.  What the server of the same     *)
(* program sends is nothing.                                               *)
UserTells ==
  /\ rx = "none" <=> fd = "none"
  /\ user = "new" => rx = "none"
  /\ user = "idle" /\ fd = "open" => isRunning
  /\ rx = "joined" <=> user = "gone"
  /\ rx = "exited" => user = "join"
  /\ proc = "aborted" => fd = "none"
  /\ server \in {"none", "own"} => unread = 0
  /\ server = "none" <=> fd = "none"

PipeInv == PipeTypeOK /\ UserTells

(* For the client of tcppipe: every step keeps the invariant.              *)
LEMMA PipeStep ==
  ASSUME PipeInv, [PipeNext]_pipeVars
  PROVE  PipeInv'
<1> USE ConnectionAssumption DEF PipeInv, PipeTypeOK, UserTells, UserAt, ReceiveAt
<1>1. CASE Connects
  BY <1>1 DEF Connects
<1>2. CASE ConnectFails
  BY <1>2 DEF ConnectFails
<1>3. CASE Pushes
  BY <1>3 DEF Pushes
<1>4. CASE DtorStores
  BY <1>4 DEF DtorStores
<1>5. CASE DtorJoins
  BY <1>5 DEF DtorJoins
<1>6. CASE DtorThrows
  BY <1>6 DEF DtorThrows
<1>7. CASE ReceiveChecks
  BY <1>7 DEF ReceiveChecks
<1>8. CASE ReceiveTakes
  BY <1>8 DEF ReceiveTakes
<1>9. CASE ReceiveIsEmpty
  BY <1>9 DEF ReceiveIsEmpty
<1>10. CASE OtherSends
  BY <1>10 DEF OtherSends
<1>11. CASE OtherCloses
  BY <1>11 DEF OtherCloses
<1>12. CASE UNCHANGED pipeVars
  BY <1>12 DEF pipeVars
<1> QED
  BY <1>1, <1>2, <1>3, <1>4, <1>5, <1>6, <1>7, <1>8, <1>9, <1>10, <1>11, <1>12
     DEF PipeNext, UserStep, ReceiveStep

(* The invariant of tcppipe's client, along a behaviour.                   *)
LEMMA PipeInvariance == PipeInit /\ [][PipeNext]_pipeVars => []PipeInv
<1>1. PipeInit => PipeInv
  BY ConnectionAssumption DEF PipeInit, PipeInv, PipeTypeOK, UserTells
<1>2. PipeInv /\ [PipeNext]_pipeVars => PipeInv'
  BY PipeStep
<1> QED
  BY <1>1, <1>2, PTL

(* A TcpPipe receives as long as it lives, whatever isRunning was at first;*)
(* without a connection it takes the process along when it is destroyed.   *)
THEOREM PipeLivesAndJoins == PipeSpec => []PipeSafe
<1>1. PipeInv => PipeSafe
  BY DEF PipeInv, UserTells, PipeTypeOK, PipeSafe, ReceivesWhileAlive,
         FailedConnectIsFatal
<1> QED
  BY <1>1, PipeInvariance, PTL DEF PipeSpec

(* A TcpPipe whose thread is in recv from the server of its own program    *)
(* stays there: this server sends nothing and does not close, so the       *)
(* thread never sees what the destructor stored, and its join never ends.  *)
THEOREM OwnServerKeepsTheThread == PipeSpec => OwnServerKeepsIt
<1> DEFINE Kept == server = "own" /\ rx = "recv"
<1>1. PipeInv /\ Kept /\ [PipeNext]_pipeVars => Kept'
  BY DEF PipeInv, PipeTypeOK, UserTells, PipeNext, UserStep, ReceiveStep, UserAt,
         ReceiveAt, Connects, ConnectFails, Pushes, DtorStores, DtorJoins,
         DtorThrows, ReceiveChecks, ReceiveTakes, ReceiveIsEmpty, OtherSends,
         OtherCloses, pipeVars
<1>2. PipeInv /\ Kept => user # "gone"
  BY DEF PipeInv, UserTells
<1> QED
  BY <1>1, <1>2, PipeInvariance, PTL DEF PipeSpec, OwnServerKeepsIt
=============================================================================
