----------------------------- MODULE MCAppHost -----------------------------
(* The AppHost with one thread of the plugin beside the reader; the          *)
(* constants are given in the cfg.                                          *)
EXTENDS AppHost
=============================================================================
