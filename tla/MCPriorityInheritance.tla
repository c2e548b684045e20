----------------------- MODULE MCPriorityInheritance -----------------------
(* An instance of PriorityInheritance for TLC: one task of each priority. *)
EXTENDS PriorityInheritance, TLC

CONSTANTS t1, t2, t3

LowMiddleHigh == t1 :> 0 @@ t2 :> 1 @@ t3 :> 2
=============================================================================
