----------------------------- MODULE Registries -----------------------------
(***************************************************************************)
(* Two tables of names.  Factory of src/factory.hpp keeps a plain pointer  *)
(* to each FactoryRegister that registered, under the name it gave; none   *)
(* of them ever leaves the table.  Interfaces of src/interface.hpp keeps   *)
(* methods whose type is forgotten and which invoke casts to the type of   *)
(* its own call.                                                           *)
(*                                                                         *)
(* Registrars live at addresses, which are used again.  A call on the      *)
(* memory of a destroyed one makes what was there last, or crashes.        *)
(***************************************************************************)
EXTENDS Integers

CONSTANTS
  Names,
  Types,        \* the classes a factory makes
  Signatures,   \* the types of methods and of calls of invoke
  Places        \* the addresses of registrars

VARIABLES
  instanceMap,  \* of Factory: names to addresses, or "absent"
  there,        \* the registrar at each address: its type, or "none"
  standing,     \* the addresses whose registrar is not yet destroyed
  methods,      \* of Interfaces: names to signatures, or "absent"
  proc,         \* the process: "up" or "crashed"
  registered,   \* history: the type last registered under each name
  by,           \* history: the names whose last registrar still stands
  last          \* history: the last get or invoke, what it should make or run
                \* and what it did; "stale" is a get whose registrar is gone

factoryVars == <<instanceMap, there, standing, registered, by>>
vars == <<factoryVars, methods, proc, last>>

NoCall == [op |-> "none", due |-> "none", ran |-> "none"]

Init ==
  /\ instanceMap = [n \in Names |-> "absent"]
  /\ there = [p \in Places |-> "none"] /\ standing = {}
  /\ methods = [n \in Names |-> "absent"]
  /\ proc = "up" /\ last = NoCall
  /\ registered = [n \in Names |-> "none"] /\ by = {}
-----------------------------------------------------------------------------
(* Broken variant of Register.                                             *)
RegisterFirst(n, p, t) ==
  /\ proc = "up" /\ p \notin standing
  /\ there' = [there EXCEPT ![p] = t] /\ standing' = standing \union {p}
  /\ instanceMap' = IF instanceMap[n] = "absent"
                    THEN [instanceMap EXCEPT ![n] = p] ELSE instanceMap
  /\ registered' = [registered EXCEPT ![n] = t] /\ by' = by \union {n}
  /\ UNCHANGED <<methods, proc, last>>

(* A FactoryRegister is made: registerType takes its this.                 *)
Register(n, p, t) ==
  /\ proc = "up" /\ p \notin standing
  /\ there' = [there EXCEPT ![p] = t] /\ standing' = standing \union {p}
  /\ instanceMap' = [instanceMap EXCEPT ![n] = p]
  /\ registered' = [registered EXCEPT ![n] = t] /\ by' = by \union {n}
  /\ UNCHANGED <<methods, proc, last>>

(* It is destroyed, and its entry stays. *)
Unregister(p) ==
  /\ proc = "up" /\ p \in standing
  /\ standing' = standing \ {p}
  /\ by' = by \ {n \in Names : instanceMap[n] = p}
  /\ UNCHANGED <<instanceMap, there, methods, proc, registered, last>>

(* get.  An unknown name gets a null entry, and the call on it is fatal.   *)
Get(n) ==
  /\ proc = "up"
  /\ LET p == instanceMap[n] IN
     \/ /\ p # "absent"
        /\ last' = [op |-> IF n \in by THEN "get" ELSE "stale",
                    due |-> registered[n], ran |-> there[p]]
        /\ UNCHANGED proc
     \/ /\ p = "absent" \/ p \notin standing
        /\ last' = [NoCall EXCEPT !.op = "stale"]
        /\ proc' = "crashed"
  /\ UNCHANGED <<factoryVars, methods>>
-----------------------------------------------------------------------------
RegisterMethod(n, s) ==
  /\ proc = "up"
  /\ methods' = [methods EXCEPT ![n] = s]
  /\ UNCHANGED <<factoryVars, proc, last>>

(* invoke.  An unknown name gets a null entry, and the call on it is       *)
(* fatal; a method of another type is called with the wrong arguments, or  *)
(* that is fatal too.                                                      *)
Invoke(n, s) ==
  /\ proc = "up"
  /\ last' = [op |-> "invoke", due |-> s, ran |-> methods[n]]
  /\ \/ methods[n] # "absent" /\ UNCHANGED proc
     \/ methods[n] # s /\ proc' = "crashed"
  /\ UNCHANGED <<factoryVars, methods>>

Next ==
  \/ \E n \in Names, p \in Places, t \in Types : Register(n, p, t)
  \/ \E p \in Places : Unregister(p)
  \/ \E n \in Names : Get(n)
  \/ \E n \in Names, s \in Signatures : RegisterMethod(n, s) \/ Invoke(n, s)

Spec == Init /\ [][Next]_vars
-----------------------------------------------------------------------------
(* The values of the variables.                                            *)
TypeOK ==
  /\ instanceMap \in [Names -> Places \union {"absent"}]
  /\ there \in [Places -> Types \union {"none"}] /\ standing \in SUBSET Places
  /\ methods \in [Names -> Signatures \union {"absent"}]
  /\ proc \in {"up", "crashed"}
  /\ registered \in [Names -> Types \union {"none"}] /\ by \in SUBSET Names

(* Names whose registrar stands lead to it, however addresses are reused.  *)
EntriesLeadThere ==
  \A n \in by : instanceMap[n] \in standing /\ there[instanceMap[n]] = registered[n]

(* What get makes is of the type last registered under the name as long as *)
(* that registrar stands, however addresses are used again; later it may   *)
(* be the type of another registrar at the same address.                   *)
GetTells == last.op = "get" => last.ran = last.due

(* The process ends by a stale or unknown name, or a method of another     *)
(* type, and by nothing else.                                              *)
CrashIsStale == proc = "crashed" => last.op = "stale" \/ last.ran # last.due

LookupsTell == TypeOK /\ EntriesLeadThere /\ GetTells /\ CrashIsStale

(* invoke runs a method with the type it was registered with, as the test  *)
(* of src/test/main.cpp has it.                                            *)
RunsAsRegistered == last.op = "invoke" => last.ran = last.due
=============================================================================
