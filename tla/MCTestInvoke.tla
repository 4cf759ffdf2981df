---------------------------- MODULE MCTestInvoke ----------------------------
(* test_invoke of src/test/main.cpp: three methods are registered, and     *)
(* each is invoked once; A-Show, registered with an object and a text, is  *)
(* invoked with the text alone.                                            *)
EXTENDS Registries, Sequences

VARIABLE line

Script == <<
  [op |-> "register", name |-> "A-Show", type |-> "void(A, string)"],
  [op |-> "register", name |-> "show", type |-> "void(string)"],
  [op |-> "register", name |-> "add", type |-> "int(int, int, int)"],
  [op |-> "invoke", name |-> "show", type |-> "void(string)"],
  [op |-> "invoke", name |-> "add", type |-> "int(int, int, int)"],
  [op |-> "invoke", name |-> "A-Show", type |-> "void(string)"] >>

TestNext ==
  /\ line <= Len(Script) /\ line' = line + 1
  /\ LET call == Script[line] IN
     \/ call.op = "register" /\ RegisterMethod(call.name, call.type)
     \/ call.op = "invoke" /\ Invoke(call.name, call.type)

TestSpec == Init /\ line = 1 /\ [][TestNext]_<<vars, line>>
=============================================================================
