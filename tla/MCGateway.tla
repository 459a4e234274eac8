----------------------------- MODULE MCGateway -----------------------------
(* Gateway on small instances: how many sessions there are, and which      *)
(* events happen around them.  One Client and one session meet every       *)
(* event; the larger instances are given the events their properties need. *)
EXTENDS Gateway, TLC

\* Two sessions side by side: every Client's packets name either of them,
\* AppHosts send and close, and Clients leave.
ForwardAndLeave == {"client_data", "client_disconnect", "apphost_data",
                    "apphost_close"}

\* One Client that may ask twice and may leave, and AppHosts that fail to
\* start, close, hang or crash.
LossAndTimeout == {"client_disconnect", "fork_failure", "spawn_timeout",
                   "apphost_close", "apphost_exit"}

\* A CLOSE_SESSION from the Client and the death of the AppHost.
CloseAndExit == {"client_close", "apphost_exit"}

\* The Client only connects, asks and disconnects.
ClientLeaves == {"client_disconnect"}

\* Clients differ in name only, and so do AppHost processes.
PeerSymmetry == Permutations(Clients) \cup Permutations(AppHosts)
=============================================================================
