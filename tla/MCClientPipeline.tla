-------------------------- MODULE MCClientPipeline --------------------------
(* ClientPipeline for TLC: more blocks than either channel or any stage takes. *)
EXTENDS ClientPipeline
=============================================================================
