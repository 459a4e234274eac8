-------------------------- MODULE MCClientRuntime --------------------------
(* ClientRuntime on small instances; the constants are given in the cfgs.   *)
EXTENDS ClientRuntime
=============================================================================
