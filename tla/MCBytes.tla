------------------------------ MODULE MCBytes -------------------------------
(***************************************************************************)
(* Three components that move bytes from one place to another, checked in  *)
(* one run: the send loops, the double buffer and the protocol.  They      *)
(* share nothing; a behaviour is a behaviour of one of them, and the       *)
(* others stay at rest in an initial state.                                *)
(***************************************************************************)
EXTENDS SendLoop

CONSTANTS
  MaxCapacity, MaxWrite, MaxWrites,     \* of Buffer
  Tokens, MaxTokens                     \* of Protocol

ASSUME BytesAssumption ==
  {MaxCapacity, MaxWrite, MaxWrites, MaxTokens} \subseteq Nat

VARIABLES
  bytesPart,    \* the component that runs
  capacity, wLen, rLen, wData, rData, writes, wPast, accepted, swapped,
  destination, data, message, parsed

Bu == INSTANCE Buffer WITH MaxLen <- MaxWrite, past <- wPast
Pr == INSTANCE Protocol WITH MaxLen <- MaxTokens, result <- parsed

buVars ==
  <<capacity, wLen, rLen, wData, rData, writes, wPast, accepted, swapped>>
prVars == <<destination, data, message, parsed>>

BytesInit ==
  /\ bytesPart \in {"send", "buffer", "protocol"}
  /\ bytesPart # "send" => loop = "packet" /\ size = 0
  /\ bytesPart # "buffer" => capacity = 0
  /\ bytesPart # "protocol" => destination = <<>> /\ data = <<>>
  /\ SendInit /\ Bu!Init /\ Pr!Init

BytesNext ==
  \/ bytesPart = "send" /\ SendNext /\ UNCHANGED <<bytesPart, buVars, prVars>>
  \/ bytesPart = "buffer" /\ Bu!Next /\ UNCHANGED <<bytesPart, sendVars, prVars>>
  \/ bytesPart = "protocol" /\ Pr!Next /\ UNCHANGED <<bytesPart, sendVars, buVars>>

BytesSpec == BytesInit /\ [][BytesNext]_<<bytesPart, sendVars, buVars, prVars>>
-----------------------------------------------------------------------------
(* Buffer: one write is lost per swap, the rest comes out in order.        *)
LosesOnePerSwap == Bu!LosesOnePerSwap

(* Protocol: what parse makes of what build made.                          *)
DataNeverArrives == Pr!DataNeverArrives
=============================================================================
