---------------------------- MODULE PluginLoader ----------------------------
(***************************************************************************)
(* src/pluginloader.h, its class for Windows and its class for the rest,   *)
(* and the dynamic linker as it uses it: opening a library that is loaded  *)
(* counts one more reference, closing takes one, the last one unloads it.  *)
(*                                                                         *)
(* A handle that is not null is the library's address.  The user parses    *)
(* one function, keeps what he got, and calls it unless it is null.        *)
(***************************************************************************)
EXTENDS Integers

CONSTANT MaxOpens       \* bound: calls of open that reach the linker

VARIABLES
  windows,      \* the platform
  handle,       \* hModule, or handle: "null" or "lib"
  refs,         \* references to the library the linker counts
  opened,       \* what open last answered
  func,         \* what parse last answered: "null", "code" or "junk"
  life,         \* the loader: "alive" or "gone"
  proc,         \* the process: "up" or "crashed"
  opens,        \* calls of open that reached the linker
  failed, freed \* history: a close the linker refused; one it granted

loaderVars == <<handle, refs, opened, func, life>>
vars == <<windows, loaderVars, proc, opens, failed, freed>>

Init ==
  /\ windows \in BOOLEAN
  /\ handle = "null" /\ refs = 0 /\ opened = FALSE /\ func = "null"
  /\ life = "alive" /\ proc = "up" /\ opens = 0
  /\ failed = FALSE /\ freed = FALSE

Alive == life = "alive" /\ proc = "up"
-----------------------------------------------------------------------------
(* open, of an empty name or when there is a handle: the platforms differ  *)
(* in what they say of the latter.                                         *)
OpenRefuses ==
  /\ Alive
  /\ \/ opened' = FALSE
     \/ handle # "null" /\ opened' = windows
  /\ UNCHANGED <<windows, handle, refs, func, life, proc, opens, failed, freed>>

OpenLoads ==
  /\ Alive /\ handle = "null" /\ opens < MaxOpens
  /\ opens' = opens + 1
  /\ \/ handle' = "lib" /\ refs' = refs + 1 /\ opened' = TRUE
     \/ opened' = FALSE /\ UNCHANGED <<handle, refs>>
  /\ UNCHANGED <<windows, func, life, proc, failed, freed>>

(* The linker: granted, it takes a reference; it may refuse, and refuses   *)
(* when there is none.                                                     *)
Frees == refs > 0 /\ refs' = refs - 1 /\ freed' = TRUE /\ UNCHANGED failed
Refuses == failed' = (failed \/ refs > 0) /\ UNCHANGED <<refs, freed>>

(* Broken variant of CloseElsewhere.                                       *)
CloseForgets ==
  /\ ~windows /\ handle' = "null"
  /\ Frees \/ Refuses

(* dlclose: the handle goes when it was granted.                           *)
CloseElsewhere ==
  /\ ~windows
  /\ \/ handle # "null" /\ Frees /\ handle' = "null"
     \/ handle # "null" /\ Refuses /\ UNCHANGED handle

(* FreeLibrary: its answer is read the wrong way round, and the handle     *)
(* goes when it was refused.                                               *)
CloseOnWindows ==
  /\ windows
  /\ \/ handle # "null" /\ Frees /\ UNCHANGED handle
     \/ Refuses /\ handle' = "null"

Close ==
  /\ Alive
  /\ CloseElsewhere \/ CloseOnWindows
  /\ UNCHANGED <<windows, opened, func, life, proc, opens>>

(* parse: indeterminate for an empty name.  dlsym with a null handle looks *)
(* into the program itself.                                                *)
Parse ==
  /\ Alive
  /\ func' \in {"junk", "null"}
               \union (IF handle # "null" /\ refs > 0 THEN {"code"} ELSE {})
               \union (IF handle = "null" /\ ~windows THEN {"program"} ELSE {})
  /\ UNCHANGED <<windows, handle, refs, opened, life, proc, opens, failed, freed>>

Calls ==
  /\ proc = "up" /\ func # "null"
  /\ proc' \in CASE func = "junk" -> {"up", "crashed"}
               [] func = "code" /\ refs = 0 -> {"crashed"}
               [] OTHER -> {"up"}
  /\ UNCHANGED <<windows, loaderVars, opens, failed, freed>>

(* The destructor of Windows closes when there is nothing to close; the    *)
(* other class has none.                                                   *)
Destroy ==
  /\ Alive
  /\ life' = "gone"
  /\ UNCHANGED <<windows, handle, refs, opened, func, proc, opens, failed, freed>>

Next == OpenRefuses \/ OpenLoads \/ Close \/ Parse \/ Calls \/ Destroy

Spec == Init /\ [][Next]_vars
-----------------------------------------------------------------------------
(* The values of the variables.                                            *)
TypeOK ==
  /\ windows \in BOOLEAN /\ opened \in BOOLEAN
  /\ handle \in {"null", "lib"} /\ refs \in 0 .. MaxOpens
  /\ func \in {"null", "code", "program", "junk"}
  /\ life \in {"alive", "gone"} /\ proc \in {"up", "crashed"}
  /\ opens \in 0 .. MaxOpens

(* Elsewhere the handle is there exactly while the library is loaded, once.*)
HandleIsTrueElsewhere ==
  ~windows => refs = IF handle = "lib" THEN 1 ELSE 0

(* On Windows the two part only by a close: one that was granted leaves a  *)
(* handle of nothing, one that was refused a library without a handle.     *)
HandleIsFalseByClose ==
  windows => /\ handle = "lib" /\ refs = 0 => freed
             /\ refs > (IF handle = "lib" THEN 1 ELSE 0) => failed

(* The handle tells whether the library is loaded, but for what close on   *)
(* Windows makes of it; and a function crashes only when it was asked for  *)
(* without a name or its library was unloaded.                             *)
HandleTells ==
  /\ TypeOK /\ HandleIsTrueElsewhere /\ HandleIsFalseByClose
  /\ proc = "crashed" => func = "junk" \/ freed
=============================================================================
