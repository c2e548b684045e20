----------------------------- MODULE MCListHeap -----------------------------
(* An instance of ListHeap for TLC: one list of each kind, three items.    *)
EXTENDS ListHeap
=============================================================================
