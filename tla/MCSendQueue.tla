---------------------------- MODULE MCSendQueue ----------------------------
(* The send queues alone; the constants are given in the cfg.               *)
EXTENDS SendQueue
=============================================================================
