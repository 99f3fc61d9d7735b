---------------------------- MODULE MCSumController ----------------------------
(* Small instances of SumController: two listeners of one page generation,    *)
(* and a model whose instructions name the same one or another.               *)
EXTENDS SumController, TLC

CONSTANTS left, right

MCGeneration == (left :> "v1") @@ (right :> "v1")
=============================================================================
