---------------------------- MODULE MCLifetimes -----------------------------
(***************************************************************************)
(* Five components that hold pointers to what others own, checked in one   *)
(* run: the packet pool, the subject with its observers, the loader with   *)
(* its library, the Animals over theirs, and the registries.  They share   *)
(* nothing; a behaviour is a behaviour of one of them, and the others stay *)
(* at rest in their initial state.                                         *)
(***************************************************************************)
EXTENDS ObjectPool, FiniteSets, TLC

CONSTANTS
  Observers, MaxSlots, MaxWalks, MaxErased, NoObserver,
  MaxOpens,
  Animal,
  Names, Types, Signatures, Addresses

ASSUME LifetimesAssumption ==
  /\ IsFiniteSet(Observers) /\ NoObserver \notin Observers
  /\ {MaxSlots, MaxWalks, MaxErased, MaxOpens} \subseteq Nat

VARIABLES
  part,         \* the component that runs
  slots, listSize, at, end, moved, alive, walks, told, erased, stayed, obProc,
  windows, handle, refs, opened, func, life, opens, failed, freed, plProc,
  exports, lives, handles, impl, mute, anProc,
  instanceMap, there, standing, methods, registered, by, last, reProc

Ob == INSTANCE Observer WITH size <- listSize, proc <- obProc
Pl == INSTANCE PluginLoader WITH proc <- plProc
An == INSTANCE Animals WITH life <- lives, proc <- anProc
Re == INSTANCE Registries WITH Places <- Addresses, proc <- reProc

obVars ==
  <<slots, listSize, at, end, moved, alive, walks, told, erased, stayed, obProc>>
plVars ==
  <<windows, handle, refs, opened, func, life, opens, failed, freed, plProc>>
anVars == <<exports, lives, handles, impl, mute, anProc>>
reVars ==
  <<instanceMap, there, standing, methods, registered, by, last, reProc>>

LifetimesInit ==
  /\ part \in {"pool", "observer", "loader", "animals", "registries"}
  /\ PoolInit /\ Ob!Init /\ Pl!Init /\ An!Init /\ Re!Init
  /\ windows => part = "loader"
  /\ exports = An!Functions \/ part = "animals"

LifetimesNext ==
  \/ /\ part = "pool" /\ PoolNext
     /\ UNCHANGED <<part, obVars, plVars, anVars, reVars>>
  \/ /\ part = "observer" /\ Ob!Next
     /\ UNCHANGED <<part, poolVars, plVars, anVars, reVars>>
  \/ /\ part = "loader" /\ Pl!Next
     /\ UNCHANGED <<part, poolVars, obVars, anVars, reVars>>
  \/ /\ part = "animals" /\ An!Next
     /\ UNCHANGED <<part, poolVars, obVars, plVars, reVars>>
  \/ /\ part = "registries" /\ Re!Next
     /\ UNCHANGED <<part, poolVars, obVars, plVars, anVars>>

LifetimesSpec ==
  /\ LifetimesInit
  /\ [][LifetimesNext]_<<part, poolVars, obVars, plVars, anVars, reVars>>
-----------------------------------------------------------------------------
(* Observer: what attach and detach during notify() cost.                  *)
WalkSurvives == Ob!WalkSurvives

(* PluginLoader: the handle against the library, on both platforms.        *)
HandleTells == Pl!HandleTells

(* Animals: several of them over one library and its one impl.             *)
AnimalsAgree == An!AnimalsAgree

(* Registries: what get and invoke find under a name.                      *)
LookupsTell == Re!LookupsTell
=============================================================================
