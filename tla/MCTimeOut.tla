----------------------------- MODULE MCTimeOut -----------------------------
(* An instance of TimeOut for TLC. *)
EXTENDS TimeOut
=============================================================================
