------------------------------ MODULE WorkQueue ------------------------------
(***************************************************************************)
(* What a queue served by a pool of threads promises its clients: every    *)
(* accepted item leaves the queue once, in the order of acceptance, into   *)
(* the hands of one thread, and is finished once.  The module knows no     *)
(* threads, no locks and no life cycle; Pipeline is shown to implement it. *)
(***************************************************************************)
EXTENDS Sequences

CONSTANT Data       \* the items that may be submitted, each at most once

VARIABLES
  pending,          \* accepted items that nobody has taken, oldest first
  inHand,           \* items taken and not yet finished
  finished          \* items whose processing is over

wqVars == <<pending, inHand, finished>>

Known == {pending[i] : i \in DOMAIN pending} \union inHand \union finished

WQInit ==
  /\ pending = <<>>
  /\ inHand = {}
  /\ finished = {}

Submit(d) ==
  /\ d \notin Known
  /\ pending' = Append(pending, d)
  /\ UNCHANGED <<inHand, finished>>

Take ==
  /\ pending # <<>>
  /\ Head(pending) \notin inHand \union finished
  /\ inHand' = inHand \union {Head(pending)}
  /\ pending' = Tail(pending)
  /\ UNCHANGED finished

Finish(d) ==
  /\ d \in inHand
  /\ inHand' = inHand \ {d}
  /\ finished' = finished \union {d}
  /\ UNCHANGED pending

WQNext ==
  \/ \E d \in Data : Submit(d) \/ Finish(d)
  \/ Take

WQSpec == WQInit /\ [][WQNext]_wqVars
=============================================================================
