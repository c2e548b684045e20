--------------------------- MODULE MCSwitchHooks ---------------------------
(* An instance of SwitchHooks for TLC: one build per option. *)
EXTENDS SwitchHooks

EachAlone == {{o} : o \in Options}
=============================================================================
