--------------------------- MODULE MCGatewayStop ---------------------------
(* The connections with stop() and wait(); the constants are given in the   *)
(* cfg.                                                                     *)
EXTENDS GatewayStop
=============================================================================
