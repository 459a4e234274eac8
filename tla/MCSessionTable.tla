--------------------------- MODULE MCSessionTable ---------------------------
(* SessionTable on a small instance.  Handles and pids are interchangeable, *)
(* and only safety is checked, so their permutations are a symmetry.        *)
EXTENDS SessionTable, TLC

HandleSymmetry ==
    Permutations(Clients) \cup Permutations(AppHosts) \cup Permutations(Pids)
=============================================================================
