------------------------------- MODULE Animals -------------------------------
(***************************************************************************)
(* testplugin: class Animal of main.cpp, a PluginLoader that opens         *)
(* libanimal.so in its constructor, and the library behind it,             *)
(* lib/animal.cpp, with its one static impl.  main() makes one Animal; the *)
(* class allows several, which share the library and its impl.             *)
(*                                                                         *)
(* The dynamic linker counts the Animals that hold the library, and drops  *)
(* it, impl included, with the last of them.  A library that opens may     *)
(* lack any of the four functions; the shipped one, whose header has them  *)
(* extern "C", has them all.                                               *)
(***************************************************************************)
CONSTANT Animal

VARIABLES
  exports,      \* the functions that the library has
  life,         \* each Animal: "new", "made" or "gone"
  handles,      \* those whose handle is the library's
  impl,         \* the static of the library is not null
  proc,         \* the process: "up" or "crashed"
  mute          \* history: Animals during whose life another one was destroyed

vars == <<exports, life, handles, impl, proc, mute>>

Called == {"animal_deinit", "animal_setText", "animal_speak"}
Functions == Called \union {"animal_init"}

Init ==
  /\ exports \in SUBSET Functions
  /\ life = [a \in Animal |-> "new"] /\ handles = {} /\ impl = FALSE
  /\ proc = "up" /\ mute = {}

Made(a) == proc = "up" /\ life[a] = "made"

(* The pointers of a that parse() has set; the others stay null.           *)
Found(a) == IF a \in handles THEN exports ELSE {}

(* The constructor, when open fails ...                                    *)
ConstructsWithout(a) ==
  /\ proc = "up" /\ life[a] = "new"
  /\ life' = [life EXCEPT ![a] = "made"]
  /\ UNCHANGED <<exports, handles, impl, proc, mute>>

(* ... and when it does not: animal_init runs when it is found.            *)
Constructs(a) ==
  /\ proc = "up" /\ life[a] = "new"
  /\ life' = [life EXCEPT ![a] = "made"]
  /\ handles' = handles \union {a}
  /\ impl' = (impl \/ "animal_init" \in exports)
  /\ UNCHANGED <<exports, proc, mute>>

(* setText, speak or the destructor, through a pointer that is null still. *)
CallsNull(a) ==
  /\ Made(a) /\ ~(Called \subseteq Found(a))
  /\ proc' = "crashed"
  /\ UNCHANGED <<exports, life, handles, impl, mute>>

(* Broken variant of Destructs.                                            *)
DestructsOnly(a) ==
  /\ Made(a) /\ "animal_deinit" \in Found(a)
  /\ life' = [life EXCEPT ![a] = "gone"]
  /\ handles' = handles \ {a}
  /\ mute' = mute \union {b \in Animal \ {a} : life[b] = "made"}
  /\ UNCHANGED <<exports, impl, proc>>

(* The destructor: animal_deinit, then close, which the linker may refuse. *)
Destructs(a) ==
  /\ Made(a) /\ "animal_deinit" \in Found(a)
  /\ life' = [life EXCEPT ![a] = "gone"]
  /\ impl' = FALSE
  /\ handles' \in {handles, handles \ {a}}
  /\ mute' = mute \union {b \in Animal \ {a} : life[b] = "made"}
  /\ UNCHANGED <<exports, proc>>

Next ==
  \E a \in Animal :
    ConstructsWithout(a) \/ Constructs(a) \/ CallsNull(a) \/ Destructs(a)

Spec == Init /\ [][Next]_vars
-----------------------------------------------------------------------------
(* The values of the variables.                                            *)
TypeOK ==
  /\ exports \in SUBSET Functions
  /\ life \in [Animal -> {"new", "made", "gone"}]
  /\ handles \in SUBSET {a \in Animal : life[a] # "new"}
  /\ impl \in BOOLEAN
  /\ proc \in {"up", "crashed"} /\ mute \in SUBSET Animal

(* impl is there only while an Animal is that has the library: it is       *)
(* deleted before the library goes.                                        *)
NoImplLeft ==
  impl => \E a \in handles : life[a] = "made"

(* An Animal that has the library and is mute lost its impl to the         *)
(* destructor of another one, or the library has no animal_init.           *)
MuteByAnother ==
  \A a \in handles :
    life[a] = "made" /\ ~impl => a \in mute \/ "animal_init" \notin exports

(* The process dies of an Animal that calls a function it has not found,   *)
(* for want of the library or of the function, and of that only.           *)
CrashIsUnfound ==
  proc = "crashed" =>
    \E a \in Animal : life[a] = "made" /\ ~(Called \subseteq Found(a))

(* Several Animals over one library and its one impl: nobody is mute but   *)
(* by the end of another one or a library without animal_init, no impl is  *)
(* left behind, and only a library that did not open, or lacks one of the  *)
(* other functions, is fatal.                                              *)
AnimalsAgree == TypeOK /\ NoImplLeft /\ MuteByAnother /\ CrashIsUnfound
=============================================================================
