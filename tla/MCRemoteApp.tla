---------------------------- MODULE MCRemoteApp ----------------------------
(* RemoteApp with a board of 2 by 2, small enough to be played to its end.  *)
EXTENDS RemoteApp

\* Points of a display of 320 by 160 on both sides of the small rectangle's
\* edges, at the far corner of the window and off the window.
MCPoints == {<<79, 60>>, <<80, 40>>, <<159, 119>>, <<160, 60>>, <<319, 159>>,
             <<-15, -9>>}

\* The arrows, F2, F1, and a key that no plugin knows.
MCKeys == {37, 38, 39, 40, 112, 113, 65}
=============================================================================
