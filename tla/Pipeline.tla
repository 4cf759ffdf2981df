------------------------------ MODULE Pipeline ------------------------------
(***************************************************************************)
(* src/pipeline.hpp: one queue drained by max_thread_num worker threads.   *)
(*                                                                         *)
(* Every critical section of the class is bounded and holds one mutex, so  *)
(* a section is one action; the only blocking point inside a section is    *)
(* condit.wait, which splits the worker's section at pc = "wait".  start   *)
(* and stop also read `state' outside the mutex: those reads are actions   *)
(* of their own and see the value of the moment.                           *)
(*                                                                         *)
(* start, stop and registerHandler are called by one owner thread, and     *)
(* handlers are registered while no worker runs (mapper has no lock);      *)
(* dispatch may be called by any thread at any time.  Each item is         *)
(* dispatched at most once, which names the copies the program makes.      *)
(***************************************************************************)
EXTENDS Naturals, Sequences, FiniteSets

CONSTANTS
  Workers,    \* the threads of the array `threads'
  Data,       \* the items callers dispatch
  Types,      \* the values of T::Type
  TypeOf,     \* the member `type' of an item
  NoData      \* a default constructed T: the worker holds no item

ASSUME PipelineAssumption ==
  /\ Workers # {} /\ IsFiniteSet(Workers)
  /\ TypeOf \in [Data -> Types]
  /\ NoData \notin Data

VARIABLES
  state,      \* Pipeline::state
  queue,      \* dataQueue
  mapper,     \* the types that have a handler
  pc,         \* where each worker is in impl()
  value,      \* the local `value' of each worker
  owner,      \* where the owner is in start() or stop()
  finished,   \* history: items whose turn of the loop is over
  passes      \* history: turns of the last stop()'s loop, counted up to
              \* |Workers| + 1

vars == <<state, queue, mapper, pc, value, owner, finished, passes>>

(* "none": the thread does not exist; "lock": about to lock the mutex and  *)
(* evaluate the wait predicate; "wait": in the wait set of condit;         *)
(* "lookup": mapper.find; "call": in the handler; "exit": impl() returned. *)
WorkerPc == {"none", "lock", "wait", "lookup", "call", "exit"}
OwnerPc == {"idle", "spawn", "check", "set", "join"}
States == {"NONE", "IDEL", "READY", "TERMINATE"}

InQueue == {queue[i] : i \in DOMAIN queue}
InHand == {value[w] : w \in Workers} \ {NoData}

Init ==
  /\ state = "NONE"
  /\ queue = <<>>
  /\ mapper = {}
  /\ pc = [w \in Workers |-> "none"]
  /\ value = [w \in Workers |-> NoData]
  /\ owner = "idle"
  /\ finished = {}
  /\ passes = 0
-----------------------------------------------------------------------------
(* condit.notify_all, on the worker's program counters f. *)
WakeAll(f) == [w \in Workers |-> IF f[w] = "wait" THEN "lock" ELSE f[w]]

(* condit.notify_one: one waiting thread, if there is one. *)
WakeOne ==
  \/ \E w \in Workers : pc[w] = "wait" /\ pc' = [pc EXCEPT ![w] = "lock"]
  \/ (\A w \in Workers : pc[w] # "wait") /\ pc' = pc

RegisterHandler(t) ==
  /\ owner = "idle"
  /\ \A w \in Workers : pc[w] = "none"
  /\ mapper' = mapper \union {t}
  /\ UNCHANGED <<state, queue, pc, value, owner, finished, passes>>

(* Broken variant of Dispatch.                                             *)
DispatchSilently(d) ==
  /\ d \notin InQueue \union InHand \union finished
  /\ state \notin {"NONE", "TERMINATE"}
  /\ queue' = Append(queue, d)
  /\ state' = "READY"
  /\ UNCHANGED <<mapper, pc, value, owner, finished, passes>>

(* dispatch: an item that comes before start or after stop is dropped. *)
Dispatch(d) ==
  /\ d \notin InQueue \union InHand \union finished
  /\ state \notin {"NONE", "TERMINATE"}
  /\ queue' = Append(queue, d)
  /\ state' = "READY"
  /\ WakeOne
  /\ UNCHANGED <<mapper, value, owner, finished, passes>>
-----------------------------------------------------------------------------
(* start: the state first, then the threads one by one. *)
Start ==
  /\ owner = "idle" /\ state = "NONE"
  /\ state' = "IDEL"
  /\ pc' = WakeAll(pc)
  /\ owner' = "spawn"
  /\ UNCHANGED <<queue, mapper, value, finished, passes>>

Spawn(w) ==
  /\ owner = "spawn" /\ pc[w] = "none"
  /\ pc' = [pc EXCEPT ![w] = "lock"]
  /\ owner' = IF \E v \in Workers \ {w} : pc[v] = "none" THEN "spawn" ELSE "idle"
  /\ UNCHANGED <<state, queue, mapper, value, finished, passes>>

(* stop: a call on a stopped pipeline returns at once. *)
Stop ==
  /\ owner = "idle" /\ state # "NONE"
  /\ owner' = "check"
  /\ passes' = 0
  /\ UNCHANGED <<state, queue, mapper, pc, value, finished>>

(* Broken variant of StopCheck.                                            *)
StopOnce ==
  /\ owner = "check"
  /\ owner' = IF state \in {"NONE", "TERMINATE"} THEN "join" ELSE "set"
  /\ UNCHANGED <<state, queue, mapper, pc, value, finished, passes>>

(* while (state != STATE_NONE): the condition, read without the mutex ... *)
StopCheck ==
  /\ owner = "check"
  /\ owner' = IF state = "NONE" THEN "join" ELSE "set"
  /\ UNCHANGED <<state, queue, mapper, pc, value, finished, passes>>

(* Broken variant of StopSet.                                              *)
StopSetSilently ==
  /\ owner = "set"
  /\ state' = "TERMINATE"
  /\ owner' = "check"
  /\ passes' = IF passes <= Cardinality(Workers) THEN passes + 1 ELSE passes
  /\ UNCHANGED <<queue, mapper, pc, value, finished>>

(* ... and the body, under it. *)
StopSet ==
  /\ owner = "set"
  /\ state' = "TERMINATE"
  /\ pc' = WakeAll(pc)
  /\ owner' = "check"
  /\ passes' = IF passes <= Cardinality(Workers) THEN passes + 1 ELSE passes
  /\ UNCHANGED <<queue, mapper, value, finished>>

Join ==
  /\ owner = "join" /\ \A w \in Workers : pc[w] = "exit"
  /\ pc' = [w \in Workers |-> "none"]
  /\ owner' = "idle"
  /\ UNCHANGED <<state, queue, mapper, value, finished, passes>>
-----------------------------------------------------------------------------
(* impl: the predicate is false, the thread sleeps and gives the mutex up. *)
Sleep(w) ==
  /\ pc[w] = "lock" /\ state \notin {"READY", "TERMINATE"}
  /\ pc' = [pc EXCEPT ![w] = "wait"]
  /\ UNCHANGED <<state, queue, mapper, value, owner, finished, passes>>

(* A wait may return without a notification. *)
SpuriousWake(w) ==
  /\ pc[w] = "wait"
  /\ pc' = [pc EXCEPT ![w] = "lock"]
  /\ UNCHANGED <<state, queue, mapper, value, owner, finished, passes>>

(* Broken variant of Leave.                                                *)
LeaveArmed(w) ==
  /\ pc[w] = "lock" /\ state = "TERMINATE"
  /\ pc' = [pc EXCEPT ![w] = "exit"]
  /\ UNCHANGED <<state, queue, mapper, value, owner, finished, passes>>

(* The thread that sees TERMINATE takes it down and leaves. *)
Leave(w) ==
  /\ pc[w] = "lock" /\ state = "TERMINATE"
  /\ state' = "NONE"
  /\ pc' = [pc EXCEPT ![w] = "exit"]
  /\ UNCHANGED <<queue, mapper, value, owner, finished, passes>>

(* Broken variant of Take.                                                 *)
TakeStaysReady(w) ==
  /\ pc[w] = "lock" /\ state = "READY"
  /\ value' = [value EXCEPT ![w] = Head(queue)]
  /\ queue' = Tail(queue)
  /\ pc' = [pc EXCEPT ![w] = "lookup"]
  /\ UNCHANGED <<state, mapper, owner, finished, passes>>

(* Broken variant of Take.                                                 *)
TakeKeepsFront(w) ==
  /\ pc[w] = "lock" /\ state = "READY"
  /\ value' = [value EXCEPT ![w] = Head(queue)]
  /\ pc' = [pc EXCEPT ![w] = "lookup"]
  /\ UNCHANGED <<state, queue, mapper, owner, finished, passes>>

(* The front of the queue; front() of an empty queue would be undefined,   *)
(* so the action has no guard against it and ReadyHasData rules it out.    *)
Take(w) ==
  /\ pc[w] = "lock" /\ state = "READY"
  /\ value' = [value EXCEPT ![w] = Head(queue)]
  /\ queue' = Tail(queue)
  /\ IF Tail(queue) = <<>>
     THEN state' = "IDEL" /\ pc' = [WakeAll(pc) EXCEPT ![w] = "lookup"]
     ELSE state' = state /\ pc' = [pc EXCEPT ![w] = "lookup"]
  /\ UNCHANGED <<mapper, owner, finished, passes>>

(* The item is over: the local value dies with the turn of the loop. *)
EndTurn(w) ==
  /\ value' = [value EXCEPT ![w] = NoData]
  /\ finished' = finished \union {value[w]}
  /\ pc' = [pc EXCEPT ![w] = "lock"]

(* mapper.find: an item of an unregistered type is skipped. *)
Lookup(w) ==
  /\ pc[w] = "lookup"
  /\ \/ /\ TypeOf[value[w]] \in mapper
        /\ pc' = [pc EXCEPT ![w] = "call"]
        /\ UNCHANGED <<value, finished>>
     \/ /\ TypeOf[value[w]] \notin mapper
        /\ EndTurn(w)
  /\ UNCHANGED <<state, queue, mapper, owner, passes>>

(* The handler returns. *)
Handle(w) ==
  /\ pc[w] = "call"
  /\ EndTurn(w)
  /\ UNCHANGED <<state, queue, mapper, owner, passes>>
-----------------------------------------------------------------------------
WorkerStep(w) ==
  \/ Sleep(w) \/ Leave(w) \/ Take(w) \/ Lookup(w) \/ Handle(w)

OwnerStep == Start \/ (\E w \in Workers : Spawn(w)) \/ Stop \/ StopCheck \/ StopSet \/ Join

Next ==
  \/ \E d \in Data : Dispatch(d)
  \/ \E t \in Types : RegisterHandler(t)
  \/ OwnerStep
  \/ \E w \in Workers : WorkerStep(w) \/ SpuriousWake(w)

Spec == Init /\ [][Next]_vars

(* The scheduler runs every thread that can run.  A worker competes for    *)
(* the mutex with the loop of stop, which takes and frees it without       *)
(* pause: that a worker gets it eventually is strong fairness.  Nobody     *)
(* owes a call of start, stop or dispatch, nor a spurious wakeup.          *)
Fairness ==
  /\ \A w \in Workers :
       SF_vars(Sleep(w) \/ Leave(w) \/ Take(w)) /\ WF_vars(Lookup(w) \/ Handle(w))
  /\ \A w \in Workers : WF_vars(Spawn(w))
  /\ WF_vars(StopCheck \/ StopSet \/ Join)

FairSpec == Spec /\ Fairness
-----------------------------------------------------------------------------
(* Every variable keeps its type, and a worker holds an item exactly while *)
(* it is between taking it from the queue and the end of its turn.         *)
TypeOK ==
  /\ state \in States
  /\ queue \in Seq(Data)
  /\ mapper \in SUBSET Types
  /\ pc \in [Workers -> WorkerPc]
  /\ value \in [Workers -> Data \union {NoData}]
  /\ owner \in OwnerPc
  /\ finished \in SUBSET Data
  /\ passes \in Nat
  /\ \A w \in Workers : value[w] # NoData <=> pc[w] \in {"lookup", "call"}

(* READY is only shown over a queue that has an item, so the front() and   *)
(* pop() of a worker that passed the wait predicate are always defined,    *)
(* whichever workers emptied the queue before it.                          *)
ReadyHasData == state = "READY" => queue # <<>>

(* Before the first stop an idle pipeline has nothing left to do: IDEL     *)
(* hides no item.  (After a stop it does: stop keeps the queue, start sets *)
(* IDEL, and the items wait for the next dispatch.)                        *)
IdleMeansEmpty ==
  (state = "IDEL" /\ passes = 0 /\ owner \notin {"check", "set"}) => queue = <<>>

(* state tells the workers the truth about the queue at every step of any  *)
(* of them: they never take from an empty one, nor sleep over a full one.  *)
StateTells == ReadyHasData /\ IdleMeansEmpty

(* One store of TERMINATE in the loop of stop releases at most one worker, *)
(* so stop cannot return before it has stored it once per worker.          *)
OneExitPerPass ==
  Cardinality({w \in Workers : pc[w] = "exit"})
     + (IF state = "TERMINATE" THEN 1 ELSE 0) <= passes

(* The joins of stop gain nothing: a worker that is still alive when the   *)
(* loop of stop ends never leaves, and stop never returns.                 *)
NobodyLeavesDuringJoin ==
  [][owner = "join" => \A w \in Workers : pc'[w] = "exit" => pc[w] = "exit"]_vars

(* Under any interleaving of callers and workers the pipeline is a work    *)
(* queue: first in first out, every item taken once and finished once.     *)
WQ == INSTANCE WorkQueue WITH pending <- queue, inHand <- InHand
WQSpec == WQ!WQSpec

(* No wakeup is lost: an item accepted by a running pipeline is finished,  *)
(* unless stop overtakes it.                                               *)
Served ==
  \A d \in Data :
    (d \in InQueue /\ state = "READY")
      ~> (d \in finished \/ state \in {"TERMINATE", "NONE"})

(* A stop that was begun gets at least one worker out of its loop, however *)
(* many items are queued and whatever the workers are doing.               *)
StopReleasesAWorker ==
  (owner = "check") ~> (\E w \in Workers : pc[w] = "exit")
=============================================================================
