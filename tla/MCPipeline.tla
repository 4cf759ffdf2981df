----------------------------- MODULE MCPipeline -----------------------------
(* An instance of Pipeline for TLC. *)
EXTENDS Pipeline

CONSTANTS d1, d2, known, unknown

(* Two types, each of which the owner may register or leave out. *)
MCTypeOf == [d \in Data |-> IF d = d1 THEN unknown ELSE known]

=============================================================================
