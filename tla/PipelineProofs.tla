--------------------------- MODULE PipelineProofs ---------------------------
(***************************************************************************)
(* Theorems about Pipeline, for any number of workers and any data.        *)
(***************************************************************************)
EXTENDS Pipeline, FiniteSetTheorems, TLAPS

(* stop is in its joins only after the loop has read STATE_NONE, and no    *)
(* state that would let a worker move on can follow.                       *)
JoinSeesNone == owner = "join" => state = "NONE"

(* Between a stop and the next one no thread is on its way out.            *)
QuietOutsideStop ==
  owner \in {"idle", "spawn"} =>
    state # "TERMINATE" /\ \A w \in Workers : pc[w] # "exit"

(* A stop that has not stored STATE_TERMINATE yet finds the pipeline up.   *)
UpAtStop == owner \in {"check", "set"} /\ passes = 0 => state \in {"IDEL", "READY"}

(* A pipeline that was never stopped keeps no items while it is down.      *)
FreshIsEmpty ==
  passes = 0 /\ owner \notin {"check", "set"} /\ state \in {"NONE", "IDEL"} => queue = <<>>

StopInv == JoinSeesNone /\ QuietOutsideStop /\ UpAtStop /\ FreshIsEmpty

IInv == TypeOK /\ ReadyHasData /\ StopInv
-----------------------------------------------------------------------------
(* Waking threads leaves every thread that does not sleep where it is.     *)
LEMMA WakeAllType ==
  ASSUME NEW f \in [Workers -> WorkerPc]
  PROVE  /\ WakeAll(f) \in [Workers -> WorkerPc]
         /\ \A w \in Workers : f[w] # "wait" => WakeAll(f)[w] = f[w]
         /\ \A w \in Workers : f[w] = "wait" => WakeAll(f)[w] = "lock"
  BY DEF WakeAll, WorkerPc

(* So does the notification of one.                                        *)
LEMMA WakeOneType ==
  ASSUME pc \in [Workers -> WorkerPc], WakeOne
  PROVE  /\ pc' \in [Workers -> WorkerPc]
         /\ \A w \in Workers : pc[w] # "wait" => pc'[w] = pc[w]
         /\ \A w \in Workers : pc[w] = "wait" => pc'[w] \in {"wait", "lock"}
  BY DEF WakeOne, WorkerPc

(* A pipeline starts without workers and items, where each part holds.     *)
LEMMA InitIInv == Init => IInv
  BY PipelineAssumption
     DEF Init, IInv, TypeOK, ReadyHasData, StopInv, JoinSeesNone, QuietOutsideStop,
         UpAtStop, FreshIsEmpty, States, WorkerPc, OwnerPc

(* Each step keeps the types.  Only Take needs more than TypeOK: that the  *)
(* queue of a pipeline in STATE_READY has a front.                         *)
LEMMA StepTypeOK ==
  ASSUME TypeOK, ReadyHasData, [Next]_vars
  PROVE  TypeOK'
<1> USE PipelineAssumption DEF TypeOK, States, WorkerPc, OwnerPc
<1>1. ASSUME NEW d \in Data, Dispatch(d) PROVE TypeOK'
  <2>1. /\ pc' \in [Workers -> WorkerPc]
        /\ \A w \in Workers : pc[w] # "wait" => pc'[w] = pc[w]
        /\ \A w \in Workers : pc[w] = "wait" => pc'[w] \in {"wait", "lock"}
    BY <1>1, WakeOneType DEF Dispatch
  <2>2. queue' \in Seq(Data)
    BY <1>1 DEF Dispatch
  <2> QED
    BY <1>1, <2>1, <2>2 DEF Dispatch
<1>2. ASSUME NEW t \in Types, RegisterHandler(t) PROVE TypeOK'
  BY <1>2 DEF RegisterHandler
<1>3. CASE Start
  <2>1. /\ pc' \in [Workers -> WorkerPc]
        /\ \A w \in Workers : pc[w] # "wait" => pc'[w] = pc[w]
        /\ \A w \in Workers : pc[w] = "wait" => pc'[w] = "lock"
    BY <1>3, WakeAllType DEF Start
  <2> QED
    BY <1>3, <2>1 DEF Start
<1>4. ASSUME NEW w \in Workers, Spawn(w) PROVE TypeOK'
  BY <1>4 DEF Spawn
<1>5. CASE Stop
  BY <1>5 DEF Stop
<1>6. CASE StopCheck
  BY <1>6 DEF StopCheck
<1>7. CASE StopSet
  <2>1. /\ pc' \in [Workers -> WorkerPc]
        /\ \A w \in Workers : pc[w] # "wait" => pc'[w] = pc[w]
        /\ \A w \in Workers : pc[w] = "wait" => pc'[w] = "lock"
    BY <1>7, WakeAllType DEF StopSet
  <2>2. passes' \in Nat
    BY <1>7 DEF StopSet
  <2> QED
    BY <1>7, <2>1, <2>2 DEF StopSet
<1>8. CASE Join
  BY <1>8 DEF Join
<1>9. ASSUME NEW w \in Workers, Sleep(w) PROVE TypeOK'
  BY <1>9 DEF Sleep
<1>10. ASSUME NEW w \in Workers, SpuriousWake(w) PROVE TypeOK'
  BY <1>10 DEF SpuriousWake
<1>11. ASSUME NEW w \in Workers, Leave(w) PROVE TypeOK'
  BY <1>11 DEF Leave
<1>12. ASSUME NEW w \in Workers, Take(w) PROVE TypeOK'
  <2>1. queue # <<>>
    BY <1>12 DEF Take, ReadyHasData
  <2>2. Head(queue) \in Data /\ Tail(queue) \in Seq(Data)
    BY <2>1
  <2>3. /\ WakeAll(pc) \in [Workers -> WorkerPc]
        /\ \A v \in Workers : pc[v] # "wait" => WakeAll(pc)[v] = pc[v]
        /\ \A v \in Workers : pc[v] = "wait" => WakeAll(pc)[v] = "lock"
    BY WakeAllType
  <2>4. /\ pc' \in [Workers -> WorkerPc]
        /\ pc'[w] = "lookup"
        /\ \A v \in Workers \ {w} : pc'[v] \in {"lookup", "call"} <=> pc[v] \in {"lookup", "call"}
    BY <1>12, <2>3 DEF Take
  <2> QED
    BY <1>12, <2>2, <2>4 DEF Take
<1>13. ASSUME NEW w \in Workers, Lookup(w) PROVE TypeOK'
  BY <1>13 DEF Lookup, EndTurn
<1>14. ASSUME NEW w \in Workers, Handle(w) PROVE TypeOK'
  BY <1>14 DEF Handle, EndTurn
<1>15. CASE UNCHANGED vars
  BY <1>15 DEF vars
<1> QED
  BY <1>1, <1>2, <1>3, <1>4, <1>5, <1>6, <1>7, <1>8, <1>9, <1>10, <1>11, <1>12,
     <1>13, <1>14, <1>15 DEF Next, OwnerStep, WorkerStep

(* What stop may rely on.  Only the actions that move the owner, the state *)
(* or a worker out of its loop matter.                                     *)
LEMMA StepStopInv ==
  ASSUME TypeOK, ReadyHasData, StopInv, [Next]_vars
  PROVE  ReadyHasData' /\ StopInv'
<1> USE PipelineAssumption
    DEF TypeOK, ReadyHasData, StopInv, JoinSeesNone, QuietOutsideStop, UpAtStop,
        FreshIsEmpty, States, WorkerPc, OwnerPc
<1>1. ASSUME NEW d \in Data, Dispatch(d) PROVE ReadyHasData' /\ StopInv'
  <2>1. /\ \A w \in Workers : pc[w] # "wait" => pc'[w] = pc[w]
        /\ \A w \in Workers : pc[w] = "wait" => pc'[w] \in {"wait", "lock"}
    BY <1>1, WakeOneType DEF Dispatch
  <2>2. queue' # <<>>
    BY <1>1 DEF Dispatch
  <2> QED
    BY <1>1, <2>1, <2>2 DEF Dispatch
<1>2. ASSUME NEW t \in Types, RegisterHandler(t) PROVE ReadyHasData' /\ StopInv'
  BY <1>2 DEF RegisterHandler
<1>3. CASE Start
  <2>1. /\ \A w \in Workers : pc[w] # "wait" => pc'[w] = pc[w]
        /\ \A w \in Workers : pc[w] = "wait" => pc'[w] = "lock"
    BY <1>3, WakeAllType DEF Start
  <2> QED
    BY <1>3, <2>1 DEF Start
<1>4. ASSUME NEW w \in Workers, Spawn(w) PROVE ReadyHasData' /\ StopInv'
  BY <1>4 DEF Spawn
<1>5. CASE Stop
  BY <1>5 DEF Stop
<1>6. CASE StopCheck
  BY <1>6 DEF StopCheck
<1>7. CASE StopSet
  <2>1. passes' > 0
    BY <1>7, FS_CardinalityType DEF StopSet
  <2> QED
    BY <1>7, <2>1 DEF StopSet
<1>8. CASE Join
  BY <1>8 DEF Join
<1>9. ASSUME NEW w \in Workers, Sleep(w) PROVE ReadyHasData' /\ StopInv'
  BY <1>9 DEF Sleep
<1>10. ASSUME NEW w \in Workers, SpuriousWake(w) PROVE ReadyHasData' /\ StopInv'
  BY <1>10 DEF SpuriousWake
<1>11. ASSUME NEW w \in Workers, Leave(w) PROVE ReadyHasData' /\ StopInv'
  BY <1>11 DEF Leave
<1>12. ASSUME NEW w \in Workers, Take(w) PROVE ReadyHasData' /\ StopInv'
  <2>1. \A v \in Workers : WakeAll(pc)[v] = "exit" => pc[v] = "exit"
    BY WakeAllType
  <2>2. \A v \in Workers : pc'[v] = "exit" => pc[v] = "exit"
    BY <1>12, <2>1, WakeAllType DEF Take
  <2> QED
    BY <1>12, <2>2 DEF Take
<1>13. ASSUME NEW w \in Workers, Lookup(w) PROVE ReadyHasData' /\ StopInv'
  BY <1>13 DEF Lookup, EndTurn
<1>14. ASSUME NEW w \in Workers, Handle(w) PROVE ReadyHasData' /\ StopInv'
  BY <1>14 DEF Handle, EndTurn
<1>15. CASE UNCHANGED vars
  BY <1>15 DEF vars
<1> QED
  BY <1>1, <1>2, <1>3, <1>4, <1>5, <1>6, <1>7, <1>8, <1>9, <1>10, <1>11, <1>12,
     <1>13, <1>14, <1>15 DEF Next, OwnerStep, WorkerStep

(* The invariant of every behaviour of Pipeline the theorems below cite.   *)
LEMMA Invariance == Spec => []IInv
<1>1. IInv /\ [Next]_vars => IInv'
  BY StepTypeOK, StepStopInv DEF IInv
<1> QED
  BY InitIInv, <1>1, PTL DEF Spec

(* Every variable of impl, start, stop and dispatch keeps its type, and a  *)
(* worker holds an item exactly while it handles one.                      *)
THEOREM TypeCorrect == Spec => []TypeOK
<1>1. IInv => TypeOK
  BY DEF IInv
<1> QED
  BY <1>1, Invariance, PTL

(* dataQueue.front() and pop() in impl are always defined.                 *)
THEOREM FrontIsDefined == Spec => []ReadyHasData
<1>1. IInv => ReadyHasData
  BY DEF IInv
<1> QED
  BY <1>1, Invariance, PTL

(* Until the first stop, STATE_IDEL hides no item from the workers.        *)
THEOREM IdleIsEmpty == Spec => []IdleMeansEmpty
<1>1. IInv => IdleMeansEmpty
  BY DEF IInv, StopInv, FreshIsEmpty, IdleMeansEmpty
<1> QED
  BY <1>1, Invariance, PTL

(* StateTells: what the workers read of the state is true of the queue.    *)
THEOREM StateIsTrue == Spec => []StateTells
  BY FrontIsDefined, IdleIsEmpty, PTL DEF StateTells

(* A worker that is alive when the loop of stop ends never leaves, so the  *)
(* join of stop waits for it for ever.                                     *)
THEOREM JoinIsTooLate == Spec => NobodyLeavesDuringJoin
<1> DEFINE Late == owner = "join" => \A w \in Workers : pc'[w] = "exit" => pc[w] = "exit"
<1>1. IInv /\ [Next]_vars => [Late]_vars
  <2> SUFFICES ASSUME IInv, Next, owner = "join", NEW w \in Workers, pc'[w] = "exit"
               PROVE  pc[w] = "exit"
    OBVIOUS
  <2> USE DEF IInv, TypeOK, StopInv, JoinSeesNone, WorkerPc
  <2>1. state = "NONE"
    OBVIOUS
  <2>2. CASE Join
    BY <2>2 DEF Join
  <2>3. ASSUME NEW v \in Workers, Sleep(v) \/ SpuriousWake(v) PROVE pc[w] = "exit"
    BY <2>3 DEF Sleep, SpuriousWake
  <2>4. ASSUME NEW v \in Workers, Lookup(v) \/ Handle(v) PROVE pc[w] = "exit"
    BY <2>4 DEF Lookup, Handle, EndTurn
  <2>5. ASSUME NEW v \in Workers PROVE ~Leave(v) /\ ~Take(v)
    BY <2>1 DEF Leave, Take
  <2>6. ASSUME NEW d \in Data PROVE ~Dispatch(d)
    BY <2>1 DEF Dispatch
  <2> QED
    BY <2>2, <2>3, <2>4, <2>5, <2>6
       DEF Next, OwnerStep, WorkerStep, Start, Spawn, Stop, StopCheck, StopSet,
           RegisterHandler
<1> QED
  BY <1>1, Invariance, PTL DEF Spec, NobodyLeavesDuringJoin
-----------------------------------------------------------------------------
Exits == {w \in Workers : pc[w] = "exit"}
Armed == IF state = "TERMINATE" THEN 1 ELSE 0

(* OneExitPerPass counted: the exits, and one that STATE_TERMINATE has in  *)
(* store, are at most the passes of stop.                                  *)
LEMMA OneExitPerPassSum ==
  /\ OneExitPerPass <=> Cardinality(Exits) + Armed <= passes
  /\ OneExitPerPass' <=> Cardinality(Exits') + Armed' <= passes'
  BY DEF OneExitPerPass, Exits, Armed

(* Of the actions, StopSet pays for one exit in advance, Leave uses the    *)
(* payment up, and Stop starts from nothing.                               *)
LEMMA StepOneExitPerPass ==
  ASSUME IInv, OneExitPerPass, [Next]_vars
  PROVE  OneExitPerPass'
<1> USE PipelineAssumption
    DEF IInv, TypeOK, StopInv, JoinSeesNone, QuietOutsideStop, WorkerPc, States
<1>1. /\ IsFiniteSet(Exits) /\ Cardinality(Exits) \in Nat
      /\ Cardinality(Exits) <= Cardinality(Workers) /\ Cardinality(Workers) \in Nat
      /\ Cardinality(Exits) + Armed <= passes /\ Armed \in {0, 1}
      /\ passes \in Nat
  BY FS_Subset, FS_CardinalityType, OneExitPerPassSum DEF Exits, Armed
<1>2. ASSUME Exits' = Exits, state' = "TERMINATE" => state = "TERMINATE",
             passes' = passes
      PROVE  OneExitPerPass'
  BY <1>1, <1>2, OneExitPerPassSum DEF Armed
<1>3. ASSUME NEW d \in Data, Dispatch(d) PROVE OneExitPerPass'
  <2>1. \A w \in Workers : pc'[w] = "exit" <=> pc[w] = "exit"
    BY <1>3, WakeOneType DEF Dispatch
  <2> QED
    BY <1>2, <1>3, <2>1 DEF Dispatch, Exits
<1>4. CASE Start
  <2>1. \A w \in Workers : pc'[w] = "exit" <=> pc[w] = "exit"
    BY <1>4, WakeAllType DEF Start
  <2> QED
    BY <1>2, <1>4, <2>1 DEF Start, Exits
<1>5. ASSUME NEW w \in Workers, Spawn(w) PROVE OneExitPerPass'
  BY <1>2, <1>5 DEF Spawn, Exits
<1>6. CASE Stop
  <2>1. Exits = {} /\ Exits' = {} /\ state' # "TERMINATE" /\ passes' = 0
    BY <1>6 DEF Stop, Exits
  <2> QED
    BY <1>1, <2>1, FS_EmptySet, OneExitPerPassSum DEF Armed
<1>7. CASE StopCheck
  BY <1>2, <1>7 DEF StopCheck, Exits
<1>8. CASE StopSet
  <2>1. \A w \in Workers : pc'[w] = "exit" <=> pc[w] = "exit"
    BY <1>8, WakeAllType DEF StopSet
  <2>2. Exits' = Exits /\ state' = "TERMINATE"
    BY <1>8, <2>1 DEF StopSet, Exits
  <2>3. passes' \in Nat /\ Cardinality(Exits) + 1 <= passes'
    BY <1>1, <1>8 DEF StopSet
  <2> QED
    BY <1>1, <2>2, <2>3, OneExitPerPassSum DEF Armed
<1>9. CASE Join
  <2>1. Exits' = {} /\ state' # "TERMINATE" /\ passes' = passes
    BY <1>9 DEF Join, Exits
  <2> QED
    BY <1>1, <2>1, FS_EmptySet, OneExitPerPassSum DEF Armed
<1>10. ASSUME NEW w \in Workers, Leave(w) PROVE OneExitPerPass'
  <2>1. Exits' = Exits \union {w} /\ w \notin Exits
    BY <1>10 DEF Leave, Exits
  <2>2. Cardinality(Exits') = Cardinality(Exits) + 1
    BY <1>1, <2>1, FS_AddElement
  <2>3. state = "TERMINATE" /\ state' # "TERMINATE" /\ passes' = passes
    BY <1>10 DEF Leave
  <2> QED
    BY <1>1, <2>2, <2>3, OneExitPerPassSum DEF Armed
<1>11. ASSUME NEW w \in Workers, Sleep(w) \/ SpuriousWake(w) PROVE OneExitPerPass'
  BY <1>2, <1>11 DEF Sleep, SpuriousWake, Exits
<1>12. ASSUME NEW w \in Workers, Take(w) PROVE OneExitPerPass'
  <2>1. \A v \in Workers : WakeAll(pc)[v] = "exit" <=> pc[v] = "exit"
    BY WakeAllType
  <2>2. WakeAll(pc) \in [Workers -> WorkerPc]
    BY WakeAllType
  <2>3. \A v \in Workers : pc'[v] = "exit" <=> pc[v] = "exit"
    BY <1>12, <2>1, <2>2 DEF Take
  <2> QED
    BY <1>2, <1>12, <2>3 DEF Take, Exits
<1>13. ASSUME NEW w \in Workers, Lookup(w) \/ Handle(w) PROVE OneExitPerPass'
  BY <1>2, <1>13 DEF Lookup, Handle, EndTurn, Exits
<1>14. ASSUME NEW t \in Types, RegisterHandler(t) PROVE OneExitPerPass'
  BY <1>2, <1>14 DEF RegisterHandler, Exits
<1>15. CASE UNCHANGED vars
  BY <1>2, <1>15 DEF vars, Exits
<1> QED
  BY <1>3, <1>4, <1>5, <1>6, <1>7, <1>8, <1>9, <1>10, <1>11, <1>12, <1>13,
     <1>14, <1>15 DEF Next, OwnerStep, WorkerStep

(* One store of STATE_TERMINATE by stop releases one worker at most, for   *)
(* any number of workers.                                                  *)
THEOREM OneStoreOneExit == Spec => []OneExitPerPass
<1>1. Init => OneExitPerPass
  <2> SUFFICES ASSUME Init PROVE OneExitPerPass
    OBVIOUS
  <2>1. {w \in Workers : pc[w] = "exit"} = {}
    BY DEF Init
  <2> QED
    BY <2>1, FS_EmptySet DEF Init, OneExitPerPass
<1>2. IInv /\ OneExitPerPass /\ [Next]_vars => OneExitPerPass'
  BY StepOneExitPerPass
<1> QED
  BY <1>1, <1>2, Invariance, PTL DEF Spec
-----------------------------------------------------------------------------
(* No item is in two places, and none is anywhere twice.                   *)
Unique ==
  /\ \A i, j \in 1 .. Len(queue) : queue[i] = queue[j] => i = j
  /\ \A v, w \in Workers : value[v] = value[w] /\ value[v] # NoData => v = w
  /\ InQueue \intersect InHand = {}
  /\ (InQueue \union InHand) \intersect finished = {}

(* What Dispatch and Take do to the set of queued items.                   *)
LEMMA AppendRange ==
  ASSUME NEW q \in Seq(Data), NEW d \in Data
  PROVE  {Append(q, d)[i] : i \in DOMAIN Append(q, d)} = {q[i] : i \in DOMAIN q} \union {d}
  <1>1. \A i \in DOMAIN q : Append(q, d)[i] = q[i] /\ i \in DOMAIN Append(q, d)
    OBVIOUS
  <1>2. Append(q, d)[Len(q) + 1] = d /\ Len(q) + 1 \in DOMAIN Append(q, d)
    OBVIOUS
  <1>3. \A i \in DOMAIN Append(q, d) : i \in DOMAIN q \/ i = Len(q) + 1
    OBVIOUS
  <1> QED
    BY <1>1, <1>2, <1>3

(* Taking the front of a queue that holds nothing twice takes this one     *)
(* item out of the set of its items.                                       *)
LEMMA TailRange ==
  ASSUME NEW q \in Seq(Data), q # <<>>,
         \A i, j \in 1 .. Len(q) : q[i] = q[j] => i = j
  PROVE  {Tail(q)[i] : i \in DOMAIN Tail(q)} = {q[i] : i \in DOMAIN q} \ {Head(q)}
  <1>1. \A i \in DOMAIN Tail(q) : Tail(q)[i] = q[i + 1] /\ i + 1 \in DOMAIN q /\ i + 1 # 1
    OBVIOUS
  <1>2. \A i \in DOMAIN q \ {1} : i - 1 \in DOMAIN Tail(q) /\ q[i] = Tail(q)[i - 1]
    OBVIOUS
  <1>3. Head(q) = q[1] /\ 1 \in DOMAIN q /\ DOMAIN q = 1 .. Len(q)
    OBVIOUS
  <1> QED
    BY <1>1, <1>2, <1>3

(* Dispatch appends an item that is nowhere yet.                           *)
LEMMA DispatchImplements ==
  ASSUME IInv, Unique, NEW d \in Data, Dispatch(d)
  PROVE  Unique' /\ WQ!WQNext
<1> USE DEF IInv, TypeOK
<1>1. queue' = Append(queue, d) /\ value' = value /\ finished' = finished
  BY DEF Dispatch
<1>2. InQueue' = InQueue \union {d} /\ InHand' = InHand
  BY <1>1, AppendRange DEF InQueue, InHand
<1>3. d \notin InQueue \union InHand \union finished
  BY DEF Dispatch
<1>4. \A i, j \in 1 .. Len(queue') : queue'[i] = queue'[j] => i = j
  <2>1. Len(queue') = Len(queue) + 1 /\ queue'[Len(queue) + 1] = d
    BY <1>1
  <2>2. \A i \in 1 .. Len(queue) : queue'[i] = queue[i] /\ queue[i] # d
    BY <1>1, <1>3 DEF InQueue
  <2> QED
    BY <2>1, <2>2 DEF Unique
<1>5. Unique'
  BY <1>1, <1>2, <1>3, <1>4 DEF Unique
<1>6. WQ!Submit(d)
  BY <1>1, <1>2, <1>3 DEF WQ!Submit, WQ!Known, InQueue
<1> QED
  BY <1>5, <1>6 DEF WQ!WQNext

(* Take moves the front of the queue into the hands of one worker.         *)
LEMMA TakeImplements ==
  ASSUME IInv, Unique, NEW w \in Workers, Take(w)
  PROVE  Unique' /\ WQ!WQNext
<1> USE PipelineAssumption DEF IInv, TypeOK
<1>1. queue # <<>> /\ Head(queue) \in Data /\ Head(queue) # NoData
  BY DEF Take, ReadyHasData
<1>2. queue' = Tail(queue) /\ value' = [value EXCEPT ![w] = Head(queue)] /\ finished' = finished
  BY DEF Take
<1>3. value[w] = NoData
  BY DEF Take
<1>4. Head(queue) \in InQueue
  BY <1>1 DEF InQueue
<1>5. InQueue' = InQueue \ {Head(queue)}
  <2>1. \A i, j \in 1 .. Len(queue) : queue[i] = queue[j] => i = j
    BY DEF Unique
  <2>2. {Tail(queue)[i] : i \in DOMAIN Tail(queue)} = {queue[i] : i \in DOMAIN queue} \ {Head(queue)}
    BY <1>1, <2>1, TailRange
  <2> QED
    BY <1>2, <2>2 DEF InQueue
<1>6. InHand' = InHand \union {Head(queue)}
  BY <1>1, <1>2, <1>3 DEF InHand
<1>7. \A i, j \in 1 .. Len(queue') : queue'[i] = queue'[j] => i = j
  <2>1. Len(queue') = Len(queue) - 1
    BY <1>1, <1>2
  <2>2. \A i \in 1 .. Len(queue') : queue'[i] = queue[i + 1] /\ i + 1 \in 1 .. Len(queue)
    BY <1>1, <1>2, <2>1
  <2> QED
    BY <2>1, <2>2 DEF Unique
<1>8. \A v \in Workers : value[v] # Head(queue)
  BY <1>1, <1>4 DEF Unique, InHand
<1>9. \A u, v \in Workers : value'[u] = value'[v] /\ value'[u] # NoData => u = v
  BY <1>2, <1>8 DEF Unique
<1>10. InQueue' \intersect InHand' = {} /\ (InQueue' \union InHand') \intersect finished' = {}
  BY <1>2, <1>4, <1>5, <1>6 DEF Unique
<1>11. Unique'
  BY <1>7, <1>9, <1>10 DEF Unique
<1>12. WQ!Take
  BY <1>1, <1>2, <1>4, <1>6 DEF WQ!Take, Unique
<1> QED
  BY <1>11, <1>12 DEF WQ!WQNext

(* The end of a turn, with a handler or without one, finishes the item.    *)
LEMMA EndTurnImplements ==
  ASSUME IInv, Unique, NEW w \in Workers, pc[w] \in {"lookup", "call"},
         EndTurn(w), queue' = queue
  PROVE  Unique' /\ WQ!WQNext
<1> USE PipelineAssumption DEF IInv, TypeOK
<1>1. value[w] \in Data /\ value[w] # NoData /\ value[w] \in InHand
  BY DEF InHand
<1>2. value' = [value EXCEPT ![w] = NoData] /\ finished' = finished \union {value[w]}
  BY DEF EndTurn
<1>3. InQueue' = InQueue
  BY DEF InQueue
<1>4. InHand' = InHand \ {value[w]}
  BY <1>1, <1>2 DEF InHand, Unique
<1>5. Unique'
  <2>1. \A u, v \in Workers : value'[u] = value'[v] /\ value'[u] # NoData => u = v
    BY <1>2 DEF Unique
  <2> QED
    BY <1>1, <1>2, <1>3, <1>4, <2>1 DEF Unique
<1>6. WQ!Finish(value[w])
  BY <1>1, <1>2, <1>4 DEF WQ!Finish
<1> QED
  BY <1>1, <1>5, <1>6 DEF WQ!WQNext

(* Every other step leaves the items where they are.                       *)
LEMMA StepImplements ==
  ASSUME IInv, Unique, [Next]_vars
  PROVE  Unique' /\ [WQ!WQNext]_(WQ!wqVars)
<1>1. ASSUME UNCHANGED <<queue, value, finished>>
      PROVE  Unique' /\ UNCHANGED WQ!wqVars
  BY <1>1 DEF Unique, InQueue, InHand, WQ!wqVars
<1>2. ASSUME NEW d \in Data, Dispatch(d) PROVE Unique' /\ WQ!WQNext
  BY <1>2, DispatchImplements
<1>3. ASSUME NEW w \in Workers, Take(w) PROVE Unique' /\ WQ!WQNext
  BY <1>3, TakeImplements
<1>4. ASSUME NEW w \in Workers, Lookup(w) PROVE Unique' /\ [WQ!WQNext]_(WQ!wqVars)
  BY <1>1, <1>4, EndTurnImplements DEF Lookup
<1>5. ASSUME NEW w \in Workers, Handle(w) PROVE Unique' /\ WQ!WQNext
  BY <1>5, EndTurnImplements DEF Handle
<1>6. ASSUME NEW w \in Workers, Sleep(w) \/ SpuriousWake(w) \/ Leave(w) \/ Spawn(w)
      PROVE  UNCHANGED <<queue, value, finished>>
  BY <1>6 DEF Sleep, SpuriousWake, Leave, Spawn
<1>7. ASSUME Start \/ Stop \/ StopCheck \/ StopSet \/ Join
      PROVE  UNCHANGED <<queue, value, finished>>
  BY <1>7 DEF Start, Stop, StopCheck, StopSet, Join
<1>8. ASSUME NEW t \in Types, RegisterHandler(t) PROVE UNCHANGED <<queue, value, finished>>
  BY <1>8 DEF RegisterHandler
<1>9. UNCHANGED vars => UNCHANGED <<queue, value, finished>>
  BY DEF vars
<1> QED
  BY <1>1, <1>2, <1>3, <1>4, <1>5, <1>6, <1>7, <1>8, <1>9
     DEF Next, OwnerStep, WorkerStep

(* Pipeline implements WorkQueue: whatever start, stop, dispatch and any   *)
(* number of workers do, the items are taken first in first out, each by   *)
(* one worker, once, and none is forgotten while it is handled.            *)
THEOREM ImplementsWorkQueue == Spec => WQSpec
<1>1. Init => Unique /\ WQ!WQInit
  <2> SUFFICES ASSUME Init PROVE Unique /\ WQ!WQInit
    OBVIOUS
  <2>1. InQueue = {} /\ InHand = {}
    BY DEF Init, InQueue, InHand
  <2> QED
    BY <2>1 DEF Init, Unique, WQ!WQInit
<1>2. IInv /\ Unique /\ [Next]_vars => Unique' /\ [WQ!WQNext]_(WQ!wqVars)
  BY StepImplements
<1> QED
  BY <1>1, <1>2, Invariance, PTL DEF Spec, WQSpec, WQ!WQSpec
=============================================================================
