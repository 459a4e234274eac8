------------------------ MODULE ClientRuntimeProofs ------------------------
(***************************************************************************)
(* The client's two threads proved for any number of starts, inputs,       *)
(* heartbeats and frames, and whatever the Gateway does.                   *)
(***************************************************************************)
EXTENDS ClientRuntime, TLAPS

Sending == {"lock", "write", "rest"}

\* run() before anything of its SPAWN_APP has been sent.
Fresh ==
    \/ at["net"] \in {"open", "announce", "timeout"}
    \/ at["net"] \in {"lock", "write"} /\ packet["net"] = SpawnApp

\* What may be in a stream from the Gateway, or stitched together of two.
Downs == [cmd : {"SESSION_ACK"}, num : Connections]
         \cup [cmd : {"PIXEL_DATA"}, num : 0 .. MaxFrames] \cup {Notice}
Pieces == [part : {"whole", "first", "rest"}, packet : UpPackets]
Typed == Types /\ wire \in Seq(Pieces) /\ ready \in Seq(Downs) /\ down \in Seq(Downs)

\* How far the two threads may be from each other.
Places ==
    /\ at["ui"] = "launch" => at["net"] = "none"
    /\ at["net"] # "none" => conn > 0
    /\ at["ui"] = "launch" \/ (at["ui"] \in Stopping /\ ui_then = "launch")
         => conn < MaxStarts
    /\ stop_requested /\ at["ui"] \notin Stopping => at["net"] = "none"
    /\ at["net"] \in {"none", "open", "announce", "ended"} => ~connected
    /\ ready # <<>> => at["net"] \in {"handle", "repaint"}

\* Only the connection's descriptor is ever open, and socket_ holds it; a
\* thread is past close() only when it is closed.
Descriptors ==
    /\ fds \subseteq {conn} /\ socket \in {0, conn}
    /\ fds # {} => socket = conn
    /\ at["net"] \in {"none", "open", "disconnect", "ended"} => fds = {} /\ socket = 0
    /\ at["ui"] \in {"closing", "unset"} => at["net"] \notin {"none", "open"}
    /\ \A t \in Threads : at[t] = "unset" => fds = {}

\* A packet is finished by the thread that began it, under send_mutex_, or
\* never: then nothing can be sent on this connection any more.
Locked == \A t \in Threads : send_lock = t <=> at[t] \in {"write", "rest"}
Mute == socket \notin fds \/ peer \in {"reset", "dead"}
Begun(p) == wire # <<>> /\ wire[Len(wire)] = [part |-> "first", packet |-> p]
Finishing ==
    /\ \A t \in Threads : at[t] = "rest" => Begun(packet[t])
    /\ wire # <<>> /\ wire[Len(wire)].part = "first"
         => Mute \/ \E t \in Threads : at[t] = "rest"

\* Before SPAWN_APP nothing is sent, by either thread.
SpawnFirst ==
    /\ at["net"] = "none" \/ Fresh => wire = <<>> /\ at["ui"] \notin Sending
    /\ Fresh => session_id = 0
    /\ at["net"] = "none" => down = <<>>
    /\ sent.acked => wire # <<>>

\* What this connection's stream, if it started clean, gives of the session.
OwnAck(p) == p.cmd = "SESSION_ACK" => p.num = conn /\ sent.acked
OwnSession ==
    clean_start /\ at["net"] # "none" =>
      /\ parser \in {"between", "inside"}
      /\ session_id # 0 => session_id = conn /\ sent.acked
      /\ \A i \in DOMAIN down : OwnAck(down[i])
      /\ \A i \in DOMAIN ready : OwnAck(ready[i])
      /\ \A t \in Threads : at[t] \in Sending =>
           \/ t = "net" /\ packet[t] = SpawnApp
           \/ packet[t] # SpawnApp /\ packet[t].sid = conn /\ sent.acked

ClientInv ==
    /\ Typed /\ Places /\ Descriptors /\ Locked /\ Finishing /\ WireNotTorn
    /\ SpawnFirst /\ OwnSession /\ OneSessionPerConnection /\ RepaintComes

-----------------------------------------------------------------------------
(* The invariant at the start, and what all the steps need.                *)

LEMMA InitHolds == Init => ClientInv
<1> SUFFICES ASSUME Init PROVE ClientInv
  OBVIOUS
<1> USE DEF Init
<1>1. Typed
  <2>1. SpawnApp \in UpPackets /\ NothingSent \in [acked : BOOLEAN, frames : 0 .. MaxFrames, noticed : BOOLEAN]
        /\ FullQuota \in [inputs : 0 .. MaxInputs, beats : 0 .. MaxBeats]
        /\ <<0, 0>> \in Frames
    BY ClientAssumption
    DEF SpawnApp, UpPackets, Connections, NothingSent, FullQuota, Frames
  <2>2. at \in [Threads -> UiPlaces \cup NetPlaces]
    BY DEF Threads, UiPlaces, NetPlaces
  <2>3. /\ at["ui"] \in UiPlaces /\ at["net"] \in NetPlaces
        /\ send_lock \in Threads \cup {"none"}
        /\ \A i \in DOMAIN wire : FALSE
        /\ packet \in [Threads -> UpPackets]
    BY <2>1 DEF UiPlaces, NetPlaces
  <2>4. /\ wire \in Seq(Pieces) /\ ready \in Seq(Downs) /\ down \in Seq(Downs)
        /\ ready \in Seq(DownPackets) /\ down \in Seq(DownPackets)
    OBVIOUS
  <2>0. /\ stop_requested \in BOOLEAN /\ connected \in BOOLEAN
        /\ timeout_set \in BOOLEAN /\ clean_start \in BOOLEAN
    OBVIOUS
  <2>5. /\ session_id \in Connections /\ socket \in Connections /\ conn \in Connections
        /\ fds \subseteq Connections \ {0}
        /\ last_frame_seq \in Nat /\ repaints \in Nat
    BY ClientAssumption DEF Connections
  <2>6. /\ ui_then \in {"idle", "launch"} /\ errno \in {"timeout", "other"}
        /\ parser \in {"between", "inside", "astray", "mute"}
        /\ peer \in {"open", "closed", "reset", "dead"}
        /\ shown \in Frames /\ drawn \in Frames
        /\ sent \in [acked : BOOLEAN, frames : 0 .. MaxFrames, noticed : BOOLEAN]
        /\ quota \in [inputs : 0 .. MaxInputs, beats : 0 .. MaxBeats]
    BY <2>1
  <2> HIDE DEF Init
  <2>7. Types
    BY <2>0, <2>2, <2>3, <2>4, <2>5, <2>6 DEF Types
  <2> QED BY <2>4, <2>7 DEF Typed
<1>2. Places /\ Descriptors /\ Locked /\ SpawnFirst /\ OwnSession
  BY DEF Places, Stopping, Descriptors, Locked, SpawnFirst, Fresh, Sending,
         OwnSession, Threads, NothingSent
<1>3. Finishing /\ WireNotTorn /\ OneSessionPerConnection
  <2>1. wire = <<>> /\ \A i \in DOMAIN wire : FALSE
    OBVIOUS
  <2> QED BY <2>1 DEF Finishing, WireNotTorn, OneSessionPerConnection, Threads
<1>4. RepaintComes
  BY DEF RepaintComes
<1> QED BY <1>1, <1>2, <1>3, <1>4 DEF ClientInv

\* A thread moves and the other stays.
LEMMA Moved ==
    ASSUME Types, NEW t \in Threads, NEW p, Goto(t, p),
           t = "ui" => p \in UiPlaces, t = "net" => p \in NetPlaces
    PROVE  /\ at' \in [Threads -> UiPlaces \cup NetPlaces]
           /\ at'["ui"] \in UiPlaces /\ at'["net"] \in NetPlaces
           /\ at'["ui"] = IF t = "ui" THEN p ELSE at["ui"]
           /\ at'["net"] = IF t = "net" THEN p ELSE at["net"]
  BY DEF Goto, Types, Threads

-----------------------------------------------------------------------------
(* close_socket(), of either thread.                                       *)

LEMMA CloseTestKeeps ==
    ASSUME ClientInv, NEW t \in Threads, CloseTest(t) PROVE ClientInv'
<1> USE DEF ClientInv
<1> DEFINE p == IF socket = 0 THEN AfterClose(t) ELSE "closing"
<1>1. /\ at[t] = "close" /\ Goto(t, p)
      /\ UNCHANGED <<ui_then, packet, send_lock, runtime, stream, screen, gateway,
                     wire, history>>
  BY DEF CloseTest
<1> USE <1>1 DEF runtime, stream, screen, gateway, history
<1>2. /\ at' \in [Threads -> UiPlaces \cup NetPlaces]
      /\ at'["ui"] \in UiPlaces /\ at'["net"] \in NetPlaces
      /\ at'["ui"] = IF t = "ui" THEN p ELSE at["ui"]
      /\ at'["net"] = IF t = "net" THEN p ELSE at["net"]
      /\ p \in {"closing", IF t = "ui" THEN "join" ELSE "disconnect"}
      /\ socket = 0 <=> p # "closing"
  BY Moved DEF Typed, UiPlaces, NetPlaces, Stopping, AfterClose, Threads
<1> HIDE DEF p
<1>3. Typed'
  BY <1>2 DEF Typed, Types
<1>4. Places'
  BY <1>2 DEF Places, Stopping, Threads
<1>5. Descriptors'
  BY <1>2 DEF Descriptors, Threads, Places, Typed, Types
<1>6. Locked' /\ Finishing' /\ WireNotTorn'
  BY <1>2 DEF Locked, Finishing, Begun, Mute, WireNotTorn, Threads
<1>7. SpawnFirst'
  BY <1>2 DEF SpawnFirst, Fresh, Sending, Threads
<1>8. OwnSession' /\ OneSessionPerConnection'
  BY <1>2 DEF OwnSession, OwnAck, OneSessionPerConnection, Threads, Sending
<1>9. RepaintComes'
  BY <1>2 DEF RepaintComes, Threads
<1> QED BY <1>3, <1>4, <1>5, <1>6, <1>7, <1>8, <1>9


LEMMA CloseDescriptorKeeps ==
    ASSUME ClientInv, NEW t \in Threads, CloseDescriptor(t) PROVE ClientInv'
<1> USE DEF ClientInv
<1>1. /\ at[t] = "closing" /\ Goto(t, "unset") /\ fds' = fds \ {socket}
      /\ UNCHANGED <<ui_then, packet, send_lock, stop_requested, connected, session_id,
                     socket, timeout_set, errno, stream, screen, gateway, wire, history>>
  BY DEF CloseDescriptor
<1> USE <1>1 DEF stream, screen, gateway, history
<1>2. /\ at' \in [Threads -> UiPlaces \cup NetPlaces]
      /\ at'["ui"] \in UiPlaces /\ at'["net"] \in NetPlaces
      /\ at'["ui"] = IF t = "ui" THEN "unset" ELSE at["ui"]
      /\ at'["net"] = IF t = "net" THEN "unset" ELSE at["net"]
  BY Moved DEF Typed, UiPlaces, NetPlaces, Stopping
<1>3. Typed'
  BY <1>2 DEF Typed, Types
<1>4. Places'
  BY <1>2 DEF Places, Stopping, Threads
<1>5. Descriptors'
  BY <1>2 DEF Descriptors, Threads, Places, Typed, Types
<1>6. Locked' /\ Finishing' /\ WireNotTorn'
  BY <1>2 DEF Locked, Finishing, Begun, Mute, WireNotTorn, Threads
<1>7. SpawnFirst'
  BY <1>2 DEF SpawnFirst, Fresh, Sending, Threads
<1>8. OwnSession' /\ OneSessionPerConnection'
  BY <1>2 DEF OwnSession, OwnAck, OneSessionPerConnection, Threads, Sending
<1>9. RepaintComes'
  BY <1>2 DEF RepaintComes, Threads
<1> QED BY <1>3, <1>4, <1>5, <1>6, <1>7, <1>8, <1>9

LEMMA UnsetSocketKeeps ==
    ASSUME ClientInv, NEW t \in Threads, UnsetSocket(t) PROVE ClientInv'
<1> USE DEF ClientInv
<1> DEFINE p == AfterClose(t)
<1>1. /\ at[t] = "unset" /\ Goto(t, p) /\ socket' = 0
      /\ UNCHANGED <<ui_then, packet, send_lock, stop_requested, connected, session_id,
                     fds, timeout_set, errno, stream, screen, gateway, wire, history>>
  BY DEF UnsetSocket
<1> USE <1>1 DEF stream, screen, gateway, history
<1>2. /\ at' \in [Threads -> UiPlaces \cup NetPlaces]
      /\ at'["ui"] \in UiPlaces /\ at'["net"] \in NetPlaces
      /\ at'["ui"] = IF t = "ui" THEN p ELSE at["ui"]
      /\ at'["net"] = IF t = "net" THEN p ELSE at["net"]
      /\ p = IF t = "ui" THEN "join" ELSE "disconnect"
  BY Moved DEF Typed, UiPlaces, NetPlaces, Stopping, AfterClose, Threads
<1> HIDE DEF p
<1>3. Typed'
  BY <1>2, ClientAssumption DEF Typed, Types, Connections
<1>4. Places'
  BY <1>2 DEF Places, Stopping, Threads
<1>5. Descriptors'
  BY <1>2 DEF Descriptors, Threads, Places, Typed, Types
<1>6. Locked' /\ Finishing' /\ WireNotTorn'
  BY <1>2 DEF Locked, Finishing, Begun, Mute, WireNotTorn, Threads, Descriptors
<1>7. SpawnFirst'
  BY <1>2 DEF SpawnFirst, Fresh, Sending, Threads
<1>8. OwnSession' /\ OneSessionPerConnection'
  BY <1>2 DEF OwnSession, OwnAck, OneSessionPerConnection, Threads, Sending
<1>9. RepaintComes'
  BY <1>2 DEF RepaintComes, Threads
<1> QED BY <1>3, <1>4, <1>5, <1>6, <1>7, <1>8, <1>9

-----------------------------------------------------------------------------
(* The UI thread.                                                          *)

\* Start() and stop() up to close_socket().
LEMMA StopKeeps ==
    ASSUME ClientInv, Start \/ Stop PROVE ClientInv'
<1> USE DEF ClientInv
<1>1. /\ at["ui"] = "idle" /\ Goto("ui", "close") /\ stop_requested'
      /\ \/ ui_then' = "launch" /\ conn < MaxStarts
         \/ ui_then' = "idle"
      /\ \/ /\ last_frame_seq' = 0 /\ shown' = <<0, 0>> /\ drawn' = shown'
         \/ UNCHANGED <<last_frame_seq, shown, drawn>>
      /\ UNCHANGED <<packet, send_lock, connected, session_id, socket, fds, timeout_set,
                     errno, stream, repaints, gateway, wire, history>>
  BY DEF Start, Stop, screen
<1> USE <1>1 DEF stream, gateway, history
<1>2. /\ at' \in [Threads -> UiPlaces \cup NetPlaces]
      /\ at'["ui"] = "close" /\ at'["ui"] \in UiPlaces
      /\ at'["net"] = at["net"] /\ at'["net"] \in NetPlaces
  BY Moved DEF Typed, UiPlaces, Stopping, Threads
<1>3. Typed'
  <2>1. stop_requested' \in BOOLEAN /\ ui_then' \in {"idle", "launch"}
    BY DEF Start, Stop
  <2>2. last_frame_seq \in Nat /\ shown \in Frames /\ drawn \in Frames
    BY DEF Typed, Types
  <2>3. <<0, 0>> \in Frames
    BY ClientAssumption DEF Frames
  <2>4. last_frame_seq' \in Nat /\ shown' \in Frames /\ drawn' \in Frames
    BY <2>2, <2>3
  <2> QED BY <1>2, <2>1, <2>4 DEF Typed, Types
<1>4. Places'
  BY <1>2 DEF Places, Stopping
<1>5. Descriptors'
  BY <1>2 DEF Descriptors, Threads
<1>6. Locked' /\ Finishing' /\ WireNotTorn'
  BY <1>2 DEF Locked, Finishing, Begun, Mute, WireNotTorn, Threads
<1>7. SpawnFirst'
  BY <1>2 DEF SpawnFirst, Fresh, Sending
<1>8. OwnSession' /\ OneSessionPerConnection'
  BY <1>2 DEF OwnSession, OwnAck, OneSessionPerConnection, Threads, Sending
<1>9. RepaintComes'
  BY <1>2 DEF RepaintComes
<1> QED BY <1>3, <1>4, <1>5, <1>6, <1>7, <1>8, <1>9

LEMMA JoinKeeps == ASSUME ClientInv, Join PROVE ClientInv'
<1> USE DEF ClientInv
<1>1. /\ at["ui"] = "join" /\ at["net"] \in {"none", "ended"}
      /\ connected' = FALSE /\ at' = [ui |-> ui_then, net |-> "none"]
      /\ ForgetConnection
      /\ UNCHANGED <<ui_then, send_lock, stop_requested, session_id, socket, fds,
                     stream, screen, conn, clean_start>>
  BY DEF Join
<1> USE <1>1 DEF stream, screen
<1>2. /\ at' \in [Threads -> UiPlaces \cup NetPlaces]
      /\ at'["ui"] = ui_then /\ ui_then \in {"idle", "launch"} /\ at'["net"] = "none"
      /\ at'["ui"] \in UiPlaces /\ at'["net"] \in NetPlaces
  BY DEF Typed, Types, UiPlaces, NetPlaces, Threads
<1>3. Typed'
  <2>1. /\ SpawnApp \in UpPackets
        /\ sent' \in [acked : BOOLEAN, frames : 0 .. MaxFrames, noticed : BOOLEAN]
        /\ quota' \in [inputs : 0 .. MaxInputs, beats : 0 .. MaxBeats]
    BY ClientAssumption DEF SpawnApp, UpPackets, Connections, ForgetConnection,
                            NothingSent, FullQuota
  <2>2. packet' \in [Threads -> UpPackets]
    BY <2>1 DEF ForgetConnection
  <2>3. /\ timeout_set' \in BOOLEAN /\ errno' \in {"timeout", "other"}
        /\ peer' \in {"open", "closed", "reset", "dead"}
        /\ wire' = <<>> /\ down' = <<>>
    BY DEF ForgetConnection
  <2>4. /\ <<>> \in Seq(Pieces) /\ <<>> \in Seq(Downs) /\ <<>> \in Seq(DownPackets)
        /\ DOMAIN <<>> = {}
    OBVIOUS
  <2> QED BY <1>2, <2>1, <2>2, <2>3, <2>4 DEF Typed, Types
<1>4. Places'
  BY <1>2 DEF Places, Stopping
<1>5. Descriptors'
  BY <1>2 DEF Descriptors, Threads
<1>6. Locked' /\ Finishing' /\ WireNotTorn' /\ OneSessionPerConnection'
  <2>1. wire' = <<>> /\ DOMAIN <<>> = {}
    BY DEF ForgetConnection
  <2> QED BY <1>2, <2>1 DEF Locked, Finishing, WireNotTorn, OneSessionPerConnection, Threads
<1>7. SpawnFirst' /\ OwnSession'
  BY <1>2 DEF SpawnFirst, Fresh, Sending, OwnSession, ForgetConnection, NothingSent
<1>8. RepaintComes'
  BY <1>2 DEF RepaintComes
<1> QED BY <1>3, <1>4, <1>5, <1>6, <1>7, <1>8

LEMMA LaunchKeeps == ASSUME ClientInv, Launch PROVE ClientInv'
<1> USE DEF ClientInv
<1>1. /\ at["ui"] = "launch" /\ at["net"] = "none"
      /\ stop_requested' = FALSE /\ connected' = FALSE /\ session_id' = 0
      /\ at' = [ui |-> "idle", net |-> "open"]
      /\ conn' = conn + 1 /\ clean_start' = (parser = "between")
      /\ parser' = (IF parser = "inside" THEN "astray" ELSE parser)
      /\ UNCHANGED <<ui_then, packet, send_lock, socket, fds, timeout_set, errno, ready,
                     screen, gateway, wire, quota>>
  BY DEF Launch, Places
<1> USE <1>1 DEF screen, gateway
<1>2. /\ at' \in [Threads -> UiPlaces \cup NetPlaces]
      /\ at'["ui"] = "idle" /\ at'["net"] = "open"
      /\ at'["ui"] \in UiPlaces /\ at'["net"] \in NetPlaces
  BY DEF UiPlaces, NetPlaces, Threads
<1>3. conn \in Nat /\ conn < MaxStarts /\ conn' \in Connections /\ conn' > 0
  BY ClientAssumption DEF Typed, Types, Connections, Places
<1>4. Typed'
  <2>1. /\ session_id' \in Connections
        /\ parser' \in {"between", "inside", "astray", "mute"}
    BY ClientAssumption DEF Typed, Types, Connections
  <2>2. stop_requested' \in BOOLEAN /\ connected' \in BOOLEAN /\ clean_start' \in BOOLEAN
    BY Zenon
  <2> QED BY <1>2, <1>3, <2>1, <2>2 DEF Typed, Types
<1>5. Places'
  BY <1>2, <1>3 DEF Places, Stopping
<1>6. Descriptors'
  BY <1>2, <1>3 DEF Descriptors, Threads, Stopping
<1>7. wire = <<>> /\ down = <<>> /\ ready = <<>> /\ DOMAIN <<>> = {} /\ ~sent.acked
  BY DEF SpawnFirst, Places
<1>8. Locked' /\ Finishing' /\ WireNotTorn' /\ OneSessionPerConnection'
  BY <1>2, <1>7 DEF Locked, Finishing, WireNotTorn, OneSessionPerConnection, Threads
<1>9. SpawnFirst'
  BY <1>2, <1>7 DEF SpawnFirst, Fresh, Sending
<1>10. OwnSession'
  BY <1>2, <1>7 DEF OwnSession, OwnAck, Threads, Sending
<1>11. RepaintComes'
  BY <1>2 DEF RepaintComes
<1> QED BY <1>4, <1>5, <1>6, <1>8, <1>9, <1>10, <1>11


\* send_input_event() up to send_packet(): there is an acknowledged session.
LEMMA SendInputKeeps == ASSUME ClientInv, SendInput PROVE ClientInv'
<1> USE DEF ClientInv
<1> DEFINE p == [cmd |-> "INPUT_EVENT", sid |-> session_id]
<1>1. /\ at["ui"] = "idle" /\ Goto("ui", "lock")
      /\ quota.inputs > 0 /\ session_id # 0 /\ connected
      /\ packet' = [packet EXCEPT !["ui"] = p]
      /\ quota' = [quota EXCEPT !.inputs = @ - 1]
      /\ UNCHANGED <<ui_then, send_lock, runtime, stream, screen, gateway, wire, conn,
                     clean_start>>
  BY DEF SendInput
<1> USE <1>1 DEF runtime, stream, screen, gateway
<1>2. /\ at' \in [Threads -> UiPlaces \cup NetPlaces]
      /\ at'["ui"] = "lock" /\ at'["ui"] \in UiPlaces
      /\ at'["net"] = at["net"] /\ at'["net"] \in NetPlaces
  BY Moved DEF Typed, UiPlaces, Threads
<1>3. p \in UpPackets /\ p # SpawnApp /\ p.sid = session_id
  BY DEF Typed, Types, UpPackets, SpawnApp
<1> HIDE DEF p
<1>4. packet' \in [Threads -> UpPackets] /\ packet'["ui"] = p /\ packet'["net"] = packet["net"]
  BY <1>3 DEF Typed, Types, Threads
<1>5. Typed'
  <2>1. /\ quota \in [inputs : 0 .. MaxInputs, beats : 0 .. MaxBeats]
        /\ quota.inputs - 1 \in 0 .. MaxInputs
    BY ClientAssumption DEF Typed, Types
  <2>2. quota' \in [inputs : 0 .. MaxInputs, beats : 0 .. MaxBeats]
    BY <2>1
  <2> QED BY <1>2, <1>4, <2>2 DEF Typed, Types
<1>6. Places'
  BY <1>2 DEF Places, Stopping
<1>7. Descriptors'
  BY <1>2 DEF Descriptors, Threads
<1>8. Locked' /\ Finishing' /\ WireNotTorn'
  BY <1>2, <1>4 DEF Locked, Finishing, Begun, Mute, WireNotTorn, Threads
<1>9. at["net"] # "none" /\ ~Fresh
  BY DEF SpawnFirst, Places
<1>10. SpawnFirst'
  BY <1>2, <1>4, <1>9 DEF SpawnFirst, Fresh
<1>11. OwnSession' /\ OneSessionPerConnection'
  BY <1>2, <1>3, <1>4, <1>9 DEF OwnSession, OwnAck, OneSessionPerConnection, Threads, Sending
<1>12. RepaintComes'
  BY <1>2 DEF RepaintComes
<1> QED BY <1>5, <1>6, <1>7, <1>8, <1>10, <1>11, <1>12

LEMMA DrawKeeps == ASSUME ClientInv, Draw PROVE ClientInv'
<1> USE DEF ClientInv
<1>1. /\ repaints > 0 /\ repaints' = repaints - 1 /\ drawn' = shown
      /\ UNCHANGED <<at, ui_then, packet, send_lock, runtime, stream, last_frame_seq,
                     shown, gateway, wire, history>>
  BY DEF Draw
<1> USE <1>1 DEF runtime, stream, gateway, history
<1>2. Typed'
  BY DEF Typed, Types
<1>3. Places' /\ Descriptors' /\ RepaintComes'
  BY DEF Places, Descriptors, RepaintComes
<1>4. Locked' /\ Finishing' /\ WireNotTorn' /\ SpawnFirst'
  BY DEF Locked, Finishing, Begun, Mute, WireNotTorn, SpawnFirst, Fresh
<1>5. OwnSession' /\ OneSessionPerConnection'
  BY DEF OwnSession, OwnAck, OneSessionPerConnection
<1> QED BY <1>2, <1>3, <1>4, <1>5

-----------------------------------------------------------------------------
(* run(): connecting, the loop and recv().                                 *)

LEMMA OpenSocketKeeps == ASSUME ClientInv, OpenSocket PROVE ClientInv'
<1> USE DEF ClientInv
<1> DEFINE p == at'["net"]
<1>1. /\ at["net"] = "open"
      /\ \/ /\ socket' = conn /\ fds' = fds \cup {conn}
            /\ peer' = "open" /\ Goto("net", "announce")
         \/ Goto("net", "ended") /\ UNCHANGED <<socket, fds, peer>>
      /\ UNCHANGED <<ui_then, packet, send_lock, stop_requested, connected, session_id,
                     timeout_set, errno, stream, screen, down, sent, wire, history>>
  BY DEF OpenSocket
<1> USE <1>1 DEF stream, screen, history
<1>2. /\ at' \in [Threads -> UiPlaces \cup NetPlaces]
      /\ at'["ui"] = at["ui"] /\ at'["ui"] \in UiPlaces /\ at'["net"] \in NetPlaces
      /\ \/ at'["net"] = "announce" /\ socket' = conn /\ fds' = fds \cup {conn}
         \/ at'["net"] = "ended" /\ UNCHANGED <<socket, fds>>
  <2>1. CASE Goto("net", "announce")
    BY <2>1, Moved DEF Typed, NetPlaces, Threads
  <2>2. CASE Goto("net", "ended")
    BY <2>2, Moved DEF Typed, NetPlaces, Threads
  <2> QED BY <2>1, <2>2
<1>3. Typed'
  <2>1. conn \in Connections \ {0}
    BY ClientAssumption DEF Typed, Types, Places, Connections
  <2> QED BY <1>2, <2>1 DEF Typed, Types
<1>4. Places'
  BY <1>2 DEF Places, Stopping
<1>5. Descriptors'
  BY <1>2 DEF Descriptors, Threads
<1>6. wire = <<>> /\ DOMAIN <<>> = {}
  BY DEF SpawnFirst, Fresh
<1>7. Locked' /\ Finishing' /\ WireNotTorn'
  BY <1>2, <1>6 DEF Locked, Finishing, Begun, WireNotTorn, Threads
<1>8. SpawnFirst'
  BY <1>2 DEF SpawnFirst, Fresh
<1>9. OwnSession' /\ OneSessionPerConnection'
  BY <1>2 DEF OwnSession, OwnAck, OneSessionPerConnection, Threads, Sending
<1>10. RepaintComes'
  BY <1>2 DEF RepaintComes
<1> QED BY <1>3, <1>4, <1>5, <1>7, <1>8, <1>9, <1>10

LEMMA AnnounceKeeps == ASSUME ClientInv, Announce PROVE ClientInv'
<1> USE DEF ClientInv
<1>1. /\ at["net"] = "announce" /\ Goto("net", "timeout") /\ connected' = TRUE
      /\ UNCHANGED <<ui_then, packet, send_lock, stop_requested, session_id, socket, fds,
                     timeout_set, errno, stream, screen, gateway, wire, history>>
  BY DEF Announce
<1> USE <1>1 DEF stream, screen, gateway, history
<1>2. /\ at' \in [Threads -> UiPlaces \cup NetPlaces]
      /\ at'["ui"] = at["ui"] /\ at'["ui"] \in UiPlaces
      /\ at'["net"] = "timeout" /\ at'["net"] \in NetPlaces
  BY Moved DEF Typed, NetPlaces, Threads
<1>3. Typed'
  <2>1. connected' \in BOOLEAN
    OBVIOUS
  <2> QED BY <1>2, <2>1 DEF Typed, Types
<1>4. Places'
  BY <1>2 DEF Places, Stopping
<1>5. Descriptors'
  BY <1>2 DEF Descriptors, Threads
<1>6. Locked' /\ Finishing' /\ WireNotTorn'
  BY <1>2 DEF Locked, Finishing, Begun, Mute, WireNotTorn, Threads
<1>7. SpawnFirst'
  BY <1>2 DEF SpawnFirst, Fresh
<1>8. OwnSession' /\ OneSessionPerConnection'
  BY <1>2 DEF OwnSession, OwnAck, OneSessionPerConnection, Threads, Sending
<1>9. RepaintComes'
  BY <1>2 DEF RepaintComes
<1> QED BY <1>3, <1>4, <1>5, <1>6, <1>7, <1>8, <1>9

LEMMA SetTimeoutKeeps == ASSUME ClientInv, SetTimeout PROVE ClientInv'
<1> USE DEF ClientInv
<1>1. /\ at["net"] = "timeout" /\ Goto("net", "lock")
      /\ timeout_set' = (socket \in fds)
      /\ packet' = [packet EXCEPT !["net"] = SpawnApp]
      /\ UNCHANGED <<ui_then, send_lock, stop_requested, connected, session_id, socket,
                     fds, errno, stream, screen, gateway, wire, history>>
  BY DEF SetTimeout
<1> USE <1>1 DEF stream, screen, gateway, history
<1>2. /\ at' \in [Threads -> UiPlaces \cup NetPlaces]
      /\ at'["ui"] = at["ui"] /\ at'["ui"] \in UiPlaces
      /\ at'["net"] = "lock" /\ at'["net"] \in NetPlaces
  BY Moved DEF Typed, NetPlaces, Threads
<1>3. SpawnApp \in UpPackets
  BY ClientAssumption DEF SpawnApp, UpPackets, Connections
<1>4. /\ packet' \in [Threads -> UpPackets]
      /\ packet'["net"] = SpawnApp /\ packet'["ui"] = packet["ui"]
  BY <1>3 DEF Typed, Types, Threads
<1>5. Typed'
  <2>1. timeout_set' \in BOOLEAN
    OBVIOUS
  <2> QED BY <1>2, <1>4, <2>1 DEF Typed, Types
<1>6. Places'
  BY <1>2 DEF Places, Stopping
<1>7. Descriptors'
  BY <1>2 DEF Descriptors, Threads
<1>8. wire = <<>> /\ DOMAIN <<>> = {}
  BY DEF SpawnFirst, Fresh
<1>9. Locked' /\ Finishing' /\ WireNotTorn'
  BY <1>2, <1>4, <1>8 DEF Locked, Finishing, Begun, WireNotTorn, Threads
<1>10. SpawnFirst'
  BY <1>2, <1>4 DEF SpawnFirst, Fresh
<1>11. OwnSession' /\ OneSessionPerConnection'
  BY <1>2, <1>4 DEF OwnSession, OwnAck, OneSessionPerConnection, Threads, Sending
<1>12. RepaintComes'
  BY <1>2 DEF RepaintComes
<1> QED BY <1>5, <1>6, <1>7, <1>9, <1>10, <1>11, <1>12

\* The head of the loop: on to close_socket(), to recv(), or to a heartbeat of
\* the acknowledged session.
LEMMA LoopHeadKeeps == ASSUME ClientInv, LoopHead PROVE ClientInv'
<1> USE DEF ClientInv
<1> DEFINE p == [cmd |-> "HEARTBEAT", sid |-> session_id]
           goal == {"close", "call", "lock"}
<1>1. PICK to \in goal :
      /\ at["net"] = "loop" /\ Goto("net", to)
      /\ \/ to # "lock" /\ UNCHANGED <<packet, quota>>
         \/ /\ to = "lock" /\ session_id # 0 /\ quota.beats > 0
            /\ packet' = [packet EXCEPT !["net"] = p]
            /\ quota' = [quota EXCEPT !.beats = @ - 1]
      /\ UNCHANGED <<ui_then, send_lock, runtime, stream, screen, gateway, wire, conn,
                     clean_start>>
  BY DEF LoopHead
<1> USE <1>1 DEF runtime, stream, screen, gateway
<1>2. /\ at' \in [Threads -> UiPlaces \cup NetPlaces]
      /\ at'["ui"] = at["ui"] /\ at'["ui"] \in UiPlaces
      /\ at'["net"] = to /\ at'["net"] \in NetPlaces
  BY Moved DEF Typed, NetPlaces, Threads
<1>3. p \in UpPackets /\ p # SpawnApp /\ p.sid = session_id
  BY DEF Typed, Types, UpPackets, SpawnApp
<1> HIDE DEF p
<1>4. /\ packet' \in [Threads -> UpPackets] /\ packet'["ui"] = packet["ui"]
      /\ to = "lock" => packet'["net"] = p
  BY <1>3 DEF Typed, Types, Threads
<1>5. Typed'
  <2>1. quota' \in [inputs : 0 .. MaxInputs, beats : 0 .. MaxBeats]
    BY ClientAssumption DEF Typed, Types
  <2> QED BY <1>2, <1>4, <2>1 DEF Typed, Types
<1>6. Places'
  BY <1>2 DEF Places, Stopping
<1>7. Descriptors'
  BY <1>2 DEF Descriptors, Threads
<1>8. Locked' /\ Finishing' /\ WireNotTorn'
  BY <1>2, <1>4 DEF Locked, Finishing, Begun, Mute, WireNotTorn, Threads
<1>9. SpawnFirst'
  BY <1>2, <1>3, <1>4 DEF SpawnFirst, Fresh
<1>10. OwnSession' /\ OneSessionPerConnection'
  BY <1>2, <1>3, <1>4 DEF OwnSession, OwnAck, OneSessionPerConnection, Threads, Sending
<1>11. RepaintComes'
  BY <1>2 DEF RepaintComes
<1> QED BY <1>5, <1>6, <1>7, <1>8, <1>9, <1>10, <1>11


\* recv() is entered or fails at once, or what was given out is handled.
LEMMA LoopMovesKeep == ASSUME ClientInv, CallRecv \/ Handled PROVE ClientInv'
<1> USE DEF ClientInv
<1>1. PICK to \in {"recv", "close", "loop"} :
      /\ at["net"] \in {"call", "handle"} /\ Goto("net", to)
      /\ at["net"] = "handle" => ready = <<>>
      /\ errno' \in {errno, "other"}
      /\ UNCHANGED <<ui_then, packet, send_lock, stop_requested, connected, session_id,
                     socket, fds, timeout_set, stream, screen, gateway, wire, history>>
  BY DEF CallRecv, Handled, AfterFailure, runtime
<1> USE <1>1 DEF stream, screen, gateway, history
<1>2. /\ at' \in [Threads -> UiPlaces \cup NetPlaces]
      /\ at'["ui"] = at["ui"] /\ at'["ui"] \in UiPlaces
      /\ at'["net"] = to /\ at'["net"] \in NetPlaces
  BY Moved DEF Typed, NetPlaces, Threads
<1>3. Typed'
  BY <1>2 DEF Typed, Types
<1>4. Places'
  BY <1>2 DEF Places, Stopping
<1>5. Descriptors'
  BY <1>2 DEF Descriptors, Threads
<1>6. Locked' /\ Finishing' /\ WireNotTorn'
  BY <1>2 DEF Locked, Finishing, Begun, Mute, WireNotTorn, Threads
<1>7. SpawnFirst'
  BY <1>2 DEF SpawnFirst, Fresh
<1>8. OwnSession' /\ OneSessionPerConnection'
  BY <1>2 DEF OwnSession, OwnAck, OneSessionPerConnection, Threads, Sending
<1>9. RepaintComes'
  BY <1>2 DEF RepaintComes
<1> QED BY <1>3, <1>4, <1>5, <1>6, <1>7, <1>8, <1>9

LEMMA RecvNothingKeeps == ASSUME ClientInv, RecvNothing PROVE ClientInv'
<1> USE DEF ClientInv
<1>1. PICK to \in {"close", "loop"} :
      /\ at["net"] = "recv" /\ Goto("net", to) /\ down = <<>>
      /\ errno' \in {errno, "timeout", "other"}
      /\ peer' = peer \/ (peer = "reset" /\ peer' = "dead")
      /\ UNCHANGED <<ui_then, packet, send_lock, stop_requested, connected, session_id,
                     socket, fds, timeout_set, stream, screen, down, sent, wire, history>>
  BY DEF RecvNothing, AfterFailure
<1> USE <1>1 DEF stream, screen, history
<1>2. /\ at' \in [Threads -> UiPlaces \cup NetPlaces]
      /\ at'["ui"] = at["ui"] /\ at'["ui"] \in UiPlaces
      /\ at'["net"] = to /\ at'["net"] \in NetPlaces
  BY Moved DEF Typed, NetPlaces, Threads
<1>3. Typed'
  BY <1>2 DEF Typed, Types
<1>4. Places'
  BY <1>2 DEF Places, Stopping
<1>5. Descriptors'
  BY <1>2 DEF Descriptors, Threads
<1>6. Locked' /\ Finishing' /\ WireNotTorn'
  BY <1>2 DEF Locked, Finishing, Begun, Mute, WireNotTorn, Threads
<1>7. SpawnFirst'
  BY <1>2 DEF SpawnFirst, Fresh
<1>8. OwnSession' /\ OneSessionPerConnection'
  BY <1>2 DEF OwnSession, OwnAck, OneSessionPerConnection, Threads, Sending
<1>9. RepaintComes'
  BY <1>2 DEF RepaintComes
<1> QED BY <1>3, <1>4, <1>5, <1>6, <1>7, <1>8, <1>9

\* The first n items of a stream, and the rest.
LEMMA Cut ==
    ASSUME NEW S, NEW q \in Seq(S), NEW n \in 0 .. Len(q)
    PROVE  /\ SubSeq(q, 1, n) \in Seq(S)
           /\ SubSeq(q, n + 1, Len(q)) \in Seq(S)
           /\ \A i \in DOMAIN SubSeq(q, 1, n) : i \in DOMAIN q /\ SubSeq(q, 1, n)[i] = q[i]
           /\ \A i \in DOMAIN SubSeq(q, n + 1, Len(q)) :
                 n + i \in DOMAIN q /\ SubSeq(q, n + 1, Len(q))[i] = q[n + i]
  OBVIOUS

LEMMA DownsAreTyped == Downs \subseteq DownPackets /\ Seq(Downs) \subseteq Seq(DownPackets)
<1>1. Downs \subseteq DownPackets
  BY ClientAssumption DEF Downs, DownPackets, Connections, Notice
<1>2. ASSUME NEW q \in Seq(Downs) PROVE q \in Seq(DownPackets)
  <2>1. \A i \in 1 .. Len(q) : q[i] \in DownPackets
    BY <1>1
  <2> QED BY <2>1
<1> QED BY <1>1, <1>2

\* What parser_ makes of a stream: of one that started clean, its packets.
LEMMA RecvDataKeeps == ASSUME ClientInv, RecvData PROVE ClientInv'
<1> USE DEF ClientInv
<1>1. PICK n \in 0 .. Len(down), cut \in BOOLEAN :
         Feed(n, cut) /\ down' = SubSeq(down, n + 1, Len(down))
  BY DEF RecvData
<1>2. /\ at["net"] = "recv" /\ Goto("net", "handle")
      /\ UNCHANGED <<ui_then, packet, send_lock, runtime, screen, peer, sent, wire, history>>
  BY DEF RecvData
<1> USE <1>2 DEF runtime, screen, history
<1>3. /\ at' \in [Threads -> UiPlaces \cup NetPlaces]
      /\ at'["ui"] = at["ui"] /\ at'["ui"] \in UiPlaces
      /\ at'["net"] = "handle" /\ at'["net"] \in NetPlaces
  BY Moved DEF Typed, NetPlaces, Threads
<1>4. /\ down' \in Seq(Downs) /\ SubSeq(down, 1, n) \in Seq(Downs)
      /\ \A i \in DOMAIN down' : n + i \in DOMAIN down /\ down'[i] = down[n + i]
  BY <1>1, Cut DEF Typed
<1>5. /\ parser' \in {"between", "inside", "astray", "mute"}
      /\ parser \in {"between", "inside"} => /\ parser' \in {"between", "inside"}
                                             /\ ready' = SubSeq(down, 1, n)
  BY <1>1 DEF Feed, Typed, Types
<1>6. ready' \in Seq(Downs)
  <2>1. \A p \in Stitched : p \in Downs
    BY ClientAssumption
    DEF Stitched, Ack, Frame, Downs, Connections, Typed, Types, Places
  <2>2. \A p \in Downs : <<p>> \in Seq(Downs)
    OBVIOUS
  <2>3. <<>> \in Seq(Downs)
    OBVIOUS
  <2> QED BY <1>1, <1>4, <2>1, <2>2, <2>3 DEF Feed
<1>7. Typed'
  <2>1. ready' \in Seq(DownPackets) /\ down' \in Seq(DownPackets)
    BY <1>4, <1>6, DownsAreTyped
  <2> QED BY <1>3, <1>4, <1>5, <1>6, <2>1 DEF Typed, Types
<1>8. Places' /\ RepaintComes'
  BY <1>3 DEF Places, Stopping, RepaintComes
<1>9. Descriptors'
  BY <1>3 DEF Descriptors, Threads
<1>10. Locked' /\ Finishing' /\ WireNotTorn'
  BY <1>3 DEF Locked, Finishing, Begun, Mute, WireNotTorn, Threads
<1>11. SpawnFirst' /\ OneSessionPerConnection'
  BY <1>3 DEF SpawnFirst, Fresh, OneSessionPerConnection
<1>12. OwnSession'
  <2> SUFFICES ASSUME clean_start PROVE OwnSession'
    BY DEF OwnSession
  <2>1. /\ parser \in {"between", "inside"}
        /\ \A i \in DOMAIN down : OwnAck(down[i])
    BY DEF OwnSession
  <2>2. (\A i \in DOMAIN down : OwnAck(down[i]))'
    BY <1>4, <2>1 DEF OwnAck
  <2>3. (\A i \in DOMAIN ready : OwnAck(ready[i]))'
    <3>1. \A i \in DOMAIN ready' : i \in DOMAIN down /\ ready'[i] = down[i]
      BY <1>5, <2>1, Cut DEF Typed
    <3> QED BY <2>1, <3>1 DEF OwnAck
  <2>4. parser' \in {"between", "inside"}
    BY <1>5, <2>1
  <2>5. \A t \in Threads : at'[t] \in Sending =>
           \/ t = "net" /\ packet'[t] = SpawnApp
           \/ packet'[t] # SpawnApp /\ packet'[t].sid = conn' /\ sent'.acked
    BY <1>3 DEF OwnSession, Threads, Sending
  <2> QED BY <2>2, <2>3, <2>4, <2>5 DEF OwnSession
<1> QED BY <1>7, <1>8, <1>9, <1>10, <1>11, <1>12

\* handle_packet(): only a SESSION_ACK gives a session, only a frame paints.
LEMMA HandlePacketKeeps == ASSUME ClientInv, HandlePacket PROVE ClientInv'
<1> USE DEF ClientInv
<1> DEFINE p == Head(ready)
<1>1. /\ at["net"] = "handle" /\ ready # <<>> /\ ready' = Tail(ready)
      /\ \/ /\ p.cmd = "SESSION_ACK" /\ session_id' = p.num
            /\ UNCHANGED <<at, last_frame_seq, shown>>
         \/ p.cmd = "PIXEL_DATA" /\ ApplyFrame(p.num) /\ UNCHANGED session_id
         \/ p = Notice /\ UNCHANGED <<at, session_id, last_frame_seq, shown>>
      /\ UNCHANGED <<ui_then, packet, send_lock, stop_requested, connected, socket, fds,
                     timeout_set, errno, parser, drawn, repaints, gateway, wire, history>>
  BY DEF HandlePacket
<1> USE <1>1 DEF gateway, history
<1>2. /\ p \in Downs /\ ready' \in Seq(Downs) /\ p = ready[1] /\ 1 \in DOMAIN ready
      /\ \A i \in DOMAIN ready' : i + 1 \in DOMAIN ready /\ ready'[i] = ready[i + 1]
  BY DEF Typed
<1>3. /\ p.cmd = "SESSION_ACK" => p.num \in Connections
      /\ p.cmd = "PIXEL_DATA" => p.num \in 0 .. MaxFrames
  BY <1>2 DEF Downs, Notice
<1>4. \/ p.cmd = "SESSION_ACK" /\ session_id' = p.num
      \/ UNCHANGED session_id
  OBVIOUS
<1>5. \/ UNCHANGED <<at, last_frame_seq, shown>>
      \/ /\ p.cmd = "PIXEL_DATA" /\ last_frame_seq' = p.num /\ shown' = <<conn, p.num>>
         /\ Goto("net", "repaint")
  BY DEF ApplyFrame
<1> HIDE DEF p
<1>6. /\ at' \in [Threads -> UiPlaces \cup NetPlaces]
      /\ at'["ui"] = at["ui"] /\ at'["ui"] \in UiPlaces /\ at'["net"] \in NetPlaces
      /\ \/ at'["net"] = "handle" /\ UNCHANGED <<last_frame_seq, shown>>
         \/ at'["net"] = "repaint"
  <2>1. CASE UNCHANGED at
    BY <1>5, <2>1, Moved DEF Typed, Types, NetPlaces, Threads
  <2>2. CASE Goto("net", "repaint")
    BY <2>2, Moved DEF Typed, NetPlaces, Threads
  <2> QED BY <1>5, <2>1, <2>2
<1>7. Typed'
  <2> HIDE <1>1
  <2>0. /\ session_id \in Connections /\ conn \in Connections
        /\ last_frame_seq \in Nat /\ shown \in Frames
    BY DEF Typed, Types
  <2>1. session_id' \in Connections
    BY <1>3, <1>4, <2>0
  <2>2. last_frame_seq' \in Nat /\ shown' \in Frames
    BY <1>3, <1>5, <2>0, ClientAssumption DEF Frames, Connections
  <2>3. ready' \in Seq(DownPackets)
    BY <1>2, DownsAreTyped
  <2>4. UNCHANGED <<ui_then, packet, send_lock, stop_requested, connected, socket, fds,
                    timeout_set, errno, parser, drawn, repaints, peer, down, sent, wire,
                    conn, quota, clean_start>>
    BY <1>1
  <2> QED BY <1>2, <1>6, <2>1, <2>2, <2>3, <2>4 DEF Typed, Types
<1>8. Places' /\ RepaintComes'
  BY <1>6 DEF Places, Stopping, RepaintComes
<1>9. Descriptors'
  BY <1>6 DEF Descriptors, Threads
<1>10. Locked' /\ Finishing' /\ WireNotTorn'
  BY <1>6 DEF Locked, Finishing, Begun, Mute, WireNotTorn, Threads
<1>11. SpawnFirst' /\ OneSessionPerConnection'
  BY <1>6 DEF SpawnFirst, Fresh, OneSessionPerConnection
<1>12. OwnSession'
  <2> SUFFICES ASSUME clean_start PROVE OwnSession'
    BY DEF OwnSession
  <2>1. \A i \in DOMAIN ready : OwnAck(ready[i])
    BY DEF OwnSession
  <2>2. (\A i \in DOMAIN ready : OwnAck(ready[i]))'
    BY <1>2, <2>1 DEF OwnAck
  <2>3. session_id' # 0 => session_id' = conn /\ sent.acked
    BY <1>2, <1>4, <2>1 DEF OwnAck, OwnSession
  <2>4. \A t \in Threads : at'[t] \in Sending => at[t] = at'[t]
    BY <1>6 DEF Threads, Sending
  <2>5. (\A i \in DOMAIN down : OwnAck(down[i]))'
    BY DEF OwnSession, OwnAck
  <2> QED BY <2>2, <2>3, <2>4, <2>5 DEF OwnSession
<1> QED BY <1>7, <1>8, <1>9, <1>10, <1>11, <1>12

LEMMA RepaintKeeps == ASSUME ClientInv, Repaint PROVE ClientInv'
<1> USE DEF ClientInv
<1>1. /\ at["net"] = "repaint" /\ Goto("net", "handle") /\ repaints' = repaints + 1
      /\ UNCHANGED <<ui_then, packet, send_lock, runtime, stream, last_frame_seq, shown,
                     drawn, gateway, wire, history>>
  BY DEF Repaint
<1> USE <1>1 DEF runtime, stream, gateway, history
<1>2. /\ at' \in [Threads -> UiPlaces \cup NetPlaces]
      /\ at'["ui"] = at["ui"] /\ at'["ui"] \in UiPlaces
      /\ at'["net"] = "handle" /\ at'["net"] \in NetPlaces
  BY Moved DEF Typed, NetPlaces, Threads
<1>3. Typed'
  BY <1>2 DEF Typed, Types
<1>4. Places' /\ RepaintComes'
  BY <1>2 DEF Places, Stopping, RepaintComes, Typed, Types
<1>5. Descriptors'
  BY <1>2 DEF Descriptors, Threads
<1>6. Locked' /\ Finishing' /\ WireNotTorn'
  BY <1>2 DEF Locked, Finishing, Begun, Mute, WireNotTorn, Threads
<1>7. SpawnFirst'
  BY <1>2 DEF SpawnFirst, Fresh
<1>8. OwnSession' /\ OneSessionPerConnection'
  BY <1>2 DEF OwnSession, OwnAck, OneSessionPerConnection, Threads, Sending
<1> QED BY <1>3, <1>4, <1>5, <1>6, <1>7, <1>8

LEMMA DisconnectKeeps == ASSUME ClientInv, Disconnect PROVE ClientInv'
<1> USE DEF ClientInv
<1>1. /\ at["net"] = "disconnect" /\ Goto("net", "ended") /\ connected' = FALSE
      /\ UNCHANGED <<ui_then, packet, send_lock, stop_requested, session_id, socket, fds,
                     timeout_set, errno, stream, screen, gateway, wire, history>>
  BY DEF Disconnect
<1> USE <1>1 DEF stream, screen, gateway, history
<1>2. /\ at' \in [Threads -> UiPlaces \cup NetPlaces]
      /\ at'["ui"] = at["ui"] /\ at'["ui"] \in UiPlaces
      /\ at'["net"] = "ended" /\ at'["net"] \in NetPlaces
  BY Moved DEF Typed, NetPlaces, Threads
<1>3. Typed'
  <2>1. connected' \in BOOLEAN
    OBVIOUS
  <2> QED BY <1>2, <2>1 DEF Typed, Types
<1>4. Places' /\ RepaintComes'
  BY <1>2 DEF Places, Stopping, RepaintComes
<1>5. Descriptors'
  BY <1>2 DEF Descriptors, Threads
<1>6. Locked' /\ Finishing' /\ WireNotTorn'
  BY <1>2 DEF Locked, Finishing, Begun, Mute, WireNotTorn, Threads
<1>7. SpawnFirst'
  BY <1>2 DEF SpawnFirst, Fresh
<1>8. OwnSession' /\ OneSessionPerConnection'
  BY <1>2 DEF OwnSession, OwnAck, OneSessionPerConnection, Threads, Sending
<1> QED BY <1>3, <1>4, <1>5, <1>6, <1>7, <1>8


-----------------------------------------------------------------------------
(* send_packet(), of either thread.                                        *)

\* Where send_packet() may lead.
LEMMA AfterSendPlaces ==
    ASSUME NEW t \in Threads, NEW ok \in BOOLEAN
    PROVE  AfterSend(t, ok) \in IF t = "ui" THEN {"idle"} ELSE {"call", "loop", "close"}
  BY DEF AfterSend, Threads

LEMMA LockKeeps == ASSUME ClientInv, NEW t \in Threads, Lock(t) PROVE ClientInv'
<1> USE DEF ClientInv
<1>1. PICK to \in {"write"} \cup (IF t = "ui" THEN {"idle"} ELSE {"call", "loop", "close"}) :
      /\ at[t] = "lock" /\ send_lock = "none" /\ Goto(t, to)
      /\ send_lock' = IF to = "write" THEN t ELSE "none"
      /\ UNCHANGED <<ui_then, packet, runtime, stream, screen, gateway, wire, history>>
  BY AfterSendPlaces DEF Lock
<1> USE <1>1 DEF runtime, stream, screen, gateway, history
<1>2. /\ at' \in [Threads -> UiPlaces \cup NetPlaces]
      /\ at'["ui"] \in UiPlaces /\ at'["net"] \in NetPlaces
      /\ at'["ui"] = IF t = "ui" THEN to ELSE at["ui"]
      /\ at'["net"] = IF t = "net" THEN to ELSE at["net"]
  BY Moved DEF Typed, UiPlaces, NetPlaces, Threads
<1>3. Typed'
  BY <1>2 DEF Typed, Types
<1>4. Places' /\ RepaintComes'
  BY <1>2 DEF Places, Stopping, RepaintComes, Threads
<1>5. Descriptors'
  BY <1>2 DEF Descriptors, Threads
<1>6. Locked' /\ Finishing' /\ WireNotTorn'
  BY <1>2 DEF Locked, Finishing, Begun, Mute, WireNotTorn, Threads
<1>7. SpawnFirst'
  BY <1>2 DEF SpawnFirst, Fresh, Sending, Threads
<1>8. OwnSession' /\ OneSessionPerConnection'
  BY <1>2 DEF OwnSession, OwnAck, OneSessionPerConnection, Threads, Sending
<1> QED BY <1>3, <1>4, <1>5, <1>6, <1>7, <1>8

\* A packet that fails half-way leaves a connection nothing can be sent on.
LEMMA SendFailsKeeps ==
    ASSUME ClientInv, NEW t \in Threads, at[t] \in {"write", "rest"}, SendFails(t)
    PROVE  ClientInv'
<1> USE DEF ClientInv
<1>1. PICK to \in (IF t = "ui" THEN {"idle"} ELSE {"call", "loop", "close"}) :
      /\ Goto(t, to) /\ send_lock' = "none"
      /\ peer' \in {peer, "dead"} /\ (socket \notin fds \/ peer' = "dead")
      /\ errno' \in {errno, "other"}
      /\ UNCHANGED <<ui_then, packet, stop_requested, connected, session_id, socket,
                     fds, timeout_set, stream, screen, down, sent, wire, history>>
  BY AfterSendPlaces DEF SendFails
<1> USE <1>1 DEF stream, screen, history
<1>2. /\ at' \in [Threads -> UiPlaces \cup NetPlaces]
      /\ at'["ui"] \in UiPlaces /\ at'["net"] \in NetPlaces
      /\ at'["ui"] = IF t = "ui" THEN to ELSE at["ui"]
      /\ at'["net"] = IF t = "net" THEN to ELSE at["net"]
  BY Moved DEF Typed, UiPlaces, NetPlaces, Threads
<1>3. Typed'
  BY <1>2 DEF Typed, Types
<1>4. Places' /\ RepaintComes'
  BY <1>2 DEF Places, Stopping, RepaintComes, Threads
<1>5. Descriptors'
  BY <1>2 DEF Descriptors, Threads
<1>6. Locked' /\ Finishing' /\ WireNotTorn'
  BY <1>2 DEF Locked, Finishing, Begun, Mute, WireNotTorn, Threads
<1>7. SpawnFirst'
  BY <1>2 DEF SpawnFirst, Fresh, Sending, Threads
<1>8. OwnSession' /\ OneSessionPerConnection'
  BY <1>2 DEF OwnSession, OwnAck, OneSessionPerConnection, Threads, Sending
<1> QED BY <1>3, <1>4, <1>5, <1>6, <1>7, <1>8

\* What every send() that takes something needs to keep the invariant.
LEMMA SendBytesMoves ==
    ASSUME ClientInv, NEW t \in Threads, at[t] \in {"write", "rest"},
           NEW part \in {"whole", "first", "rest"}, SendBytes(t, part),
           wire' \in Seq(Pieces), wire' # <<>>, WireNotTorn',
           part = "first" => wire'[Len(wire')] = [part |-> "first", packet |-> packet[t]],
           part # "first" => wire'[Len(wire')].part # "first",
           OneSessionPerConnection'
    PROVE  ClientInv'
<1> USE DEF ClientInv
<1>1. PICK to \in {"rest"} \cup (IF t = "ui" THEN {"idle"} ELSE {"call", "loop", "close"}) :
      /\ Goto(t, to) /\ (to = "rest" <=> part = "first")
      /\ send_lock' = IF to = "rest" THEN send_lock ELSE "none"
      /\ peer' \in {peer, "reset"}
      /\ UNCHANGED <<ui_then, packet, runtime, stream, screen, down, sent, history>>
  BY AfterSendPlaces DEF SendBytes
<1> USE <1>1 DEF runtime, stream, screen, history
<1>2. /\ at' \in [Threads -> UiPlaces \cup NetPlaces]
      /\ at'["ui"] \in UiPlaces /\ at'["net"] \in NetPlaces
      /\ at'["ui"] = IF t = "ui" THEN to ELSE at["ui"]
      /\ at'["net"] = IF t = "net" THEN to ELSE at["net"]
  BY Moved DEF Typed, UiPlaces, NetPlaces, Threads
<1>3. Typed'
  <2>1. \A i \in DOMAIN wire' : wire'[i] \in Pieces
    OBVIOUS
  <2> QED BY <1>2, <2>1 DEF Typed, Types, Pieces
<1>4. Places' /\ RepaintComes'
  BY <1>2 DEF Places, Stopping, RepaintComes, Threads
<1>5. Descriptors'
  BY <1>2 DEF Descriptors, Threads
<1>6. Locked' /\ Finishing'
  <2>1. \A u \in Threads : u # t => at'[u] = at[u] /\ at[u] \notin {"write", "rest"}
    BY <1>2 DEF Locked, Threads
  <2>2. at'[t] = to
    BY <1>2 DEF Threads
  <2>3. Locked'
    BY <2>1, <2>2 DEF Locked, Threads
  <2>4. Finishing'
    BY <2>1, <2>2 DEF Finishing, Begun
  <2> QED BY <2>3, <2>4
<1>7. at["net"] # "none" /\ ~Fresh' /\ at'["net"] # "none"
  BY <1>2 DEF SpawnFirst, Fresh, Sending, Threads
<1>8. SpawnFirst'
  BY <1>7 DEF SpawnFirst
<1>9. OwnSession'
  BY <1>2, <1>7 DEF OwnSession, OwnAck, Threads, Sending
<1> QED BY <1>3, <1>4, <1>5, <1>6, <1>8, <1>9

\* The first send() of a packet: nothing is unfinished, and SPAWN_APP is the
\* first packet and no other.
LEMMA FirstSendKeeps ==
    ASSUME ClientInv, NEW t \in Threads, at[t] = "write",
           NEW part \in {"whole", "first"}, SendBytes(t, part)
    PROVE  ClientInv'
<1> USE DEF ClientInv
<1> DEFINE new == [part |-> part, packet |-> packet[t]]
<1>1. /\ wire' = Append(wire, new) /\ ~Mute
      /\ UNCHANGED <<clean_start, conn, sent>>
  BY DEF SendBytes, OnWire, Mute, history
<1>2. new \in Pieces /\ new.part = part /\ new.packet = packet[t]
  BY DEF Pieces, Typed, Types
<1> HIDE DEF new
<1>3. wire \in Seq(Pieces) /\ Len(wire) \in Nat
  BY DEF Typed
<1>4. /\ wire' \in Seq(Pieces) /\ wire' # <<>> /\ Len(wire') = Len(wire) + 1
      /\ DOMAIN wire' = 1 .. Len(wire) + 1 /\ wire'[Len(wire')] = new
      /\ \A i \in 1 .. Len(wire) : wire'[i] = wire[i]
  BY <1>1, <1>2, <1>3
<1>5. \A i \in 1 .. Len(wire) : wire[i].part = "whole"
  <2>1. \A u \in Threads : at[u] # "rest"
    BY DEF Locked
  <2>2. wire # <<>> => wire[Len(wire)].part # "first"
    BY <1>1, <2>1 DEF Finishing
  <2> QED BY <1>3, <2>2 DEF WireNotTorn
<1>6. WireNotTorn'
  BY <1>2, <1>3, <1>4, <1>5 DEF WireNotTorn
<1>7. OneSessionPerConnection'
  <2> SUFFICES ASSUME clean_start, NEW i \in DOMAIN wire'
               PROVE  IF i = 1 THEN wire'[i].packet = SpawnApp
                      ELSE /\ wire'[i].packet # SpawnApp
                           /\ wire'[i].packet.sid = conn /\ sent.acked
    BY <1>1 DEF OneSessionPerConnection, SpawnApp
  <2>1. CASE i \in 1 .. Len(wire)
    BY <1>3, <1>4, <2>1 DEF OneSessionPerConnection
  <2>2. CASE i = Len(wire) + 1
    <3>1. at["net"] # "none"
      BY DEF SpawnFirst, Sending, Threads
    <3>2. \/ t = "net" /\ packet[t] = SpawnApp
          \/ packet[t] # SpawnApp /\ packet[t].sid = conn /\ sent.acked
      BY <3>1 DEF OwnSession, Sending
    <3>3. sent.acked => wire # <<>>
      BY DEF SpawnFirst
    <3>4. t = "net" /\ packet[t] = SpawnApp => wire = <<>>
      BY DEF SpawnFirst, Fresh
    <3>5. wire = <<>> <=> i = 1
      BY <1>3, <2>2
    <3>6. wire'[i].packet = packet[t]
      BY <1>2, <1>4, <2>2
    <3> QED BY <3>2, <3>3, <3>4, <3>5, <3>6
  <2> QED BY <1>3, <1>4, <2>1, <2>2
<1>8. /\ part = "first" => wire'[Len(wire')] = [part |-> "first", packet |-> packet[t]]
      /\ part # "first" => wire'[Len(wire')].part # "first"
  BY <1>2, <1>4 DEF new
<1> QED BY <1>4, <1>6, <1>7, <1>8, SendBytesMoves

\* The last send() of a packet finds its beginning where it left it.
LEMMA LastSendKeeps ==
    ASSUME ClientInv, NEW t \in Threads, at[t] = "rest", SendBytes(t, "rest")
    PROVE  ClientInv'
<1> USE DEF ClientInv
<1>1. /\ wire \in Seq(Pieces) /\ Len(wire) \in Nat
      /\ wire # <<>> /\ wire[Len(wire)] = [part |-> "first", packet |-> packet[t]]
  <2>1. wire \in Seq(Pieces)
    BY DEF Typed
  <2>2. Begun(packet[t])
    BY DEF Finishing
  <2> QED BY <2>1, <2>2 DEF Begun
<1> DEFINE n == Len(wire)
<1>2. /\ wire' = [wire EXCEPT ![n].part = "whole"]
      /\ UNCHANGED <<clean_start, conn, sent>>
  BY <1>1 DEF SendBytes, OnWire, history
<1>3. n \in 1 .. n /\ wire[n] \in Pieces
  BY <1>1
<1>4. [wire[n] EXCEPT !.part = "whole"] \in Pieces
  BY <1>3 DEF Pieces
<1>5. /\ wire' \in Seq(Pieces) /\ wire' # <<>> /\ Len(wire') = n /\ DOMAIN wire' = 1 .. n
      /\ wire'[n] = [wire[n] EXCEPT !.part = "whole"]
      /\ \A i \in 1 .. n : i # n => wire'[i] = wire[i]
  BY <1>1, <1>2, <1>3, <1>4
<1>6. wire'[n].part = "whole" /\ wire'[n].packet = wire[n].packet
  BY <1>3, <1>5 DEF Pieces
<1>7. WireNotTorn'
  BY <1>1, <1>5, <1>6 DEF WireNotTorn
<1>8. OneSessionPerConnection'
  BY <1>1, <1>2, <1>5, <1>6 DEF OneSessionPerConnection, SpawnApp
<1> QED BY <1>5, <1>6, <1>7, <1>8, SendBytesMoves

LEMMA WriteKeeps == ASSUME ClientInv, NEW t \in Threads, Write(t) PROVE ClientInv'
  BY FirstSendKeeps, LastSendKeeps, SendFailsKeeps DEF Write


-----------------------------------------------------------------------------
(* The Gateway.                                                            *)

LEMMA GatewaySendKeeps ==
    ASSUME ClientInv, NEW p \in Downs, GatewaySends(p), GatewayUnchanged,
           sent' \in [acked : BOOLEAN, frames : 0 .. MaxFrames, noticed : BOOLEAN],
           sent.acked => sent'.acked, sent'.acked => wire # <<>>,
           p.cmd = "SESSION_ACK" => p.num = conn /\ sent'.acked
    PROVE  ClientInv'
<1> USE DEF ClientInv
<1>1. /\ at["net"] # "none" /\ down' = Append(down, p)
      /\ UNCHANGED <<at, ui_then, packet, send_lock, runtime, stream, screen, wire, history,
                     peer>>
  BY DEF GatewaySends, Reading, GatewayUnchanged
<1> USE <1>1 DEF runtime, stream, screen, history
<1>2. /\ down \in Seq(Downs) /\ down' \in Seq(Downs)
      /\ \A i \in DOMAIN down' : (i \in DOMAIN down /\ down'[i] = down[i]) \/ down'[i] = p
  BY DEF Typed
<1>3. Typed'
  <2>1. down' \in Seq(DownPackets)
    BY <1>2, DownsAreTyped
  <2> QED BY <1>2, <2>1 DEF Typed, Types
<1>4. Places' /\ RepaintComes' /\ Descriptors' /\ Locked'
  BY DEF Places, RepaintComes, Descriptors, Locked
<1>5. Finishing' /\ WireNotTorn' /\ SpawnFirst'
  BY DEF Finishing, Begun, Mute, WireNotTorn, SpawnFirst, Fresh
<1>6. OneSessionPerConnection'
  BY DEF OneSessionPerConnection
<1>7. OwnSession'
  <2>1. clean_start => (\A i \in DOMAIN down : OwnAck(down[i]))'
    BY <1>2 DEF OwnSession, OwnAck
  <2> QED BY <2>1 DEF OwnSession, OwnAck
<1> QED BY <1>3, <1>4, <1>5, <1>6, <1>7

LEMMA GatewayKeeps == ASSUME ClientInv, GatewayStep PROVE ClientInv'
<1>1. /\ sent \in [acked : BOOLEAN, frames : 0 .. MaxFrames, noticed : BOOLEAN]
      /\ conn \in Connections
  BY DEF ClientInv, Typed, Types
<1>2. CASE GatewayAcks
  <2>1. Ack(conn) \in Downs /\ Ack(conn).num = conn
    BY <1>1 DEF Ack, Downs
  <2>2. wire # <<>>
    BY <1>2 DEF GatewayAcks, SpawnArrived
  <2>3. sent' = [sent EXCEPT !.acked = TRUE] /\ GatewaySends(Ack(conn)) /\ GatewayUnchanged
    BY <1>2 DEF GatewayAcks
  <2>4. /\ sent'.acked
        /\ sent' \in [acked : BOOLEAN, frames : 0 .. MaxFrames, noticed : BOOLEAN]
    BY <1>1, <2>3
  <2> QED BY <2>1, <2>2, <2>3, <2>4, GatewaySendKeeps
<1>3. CASE GatewayFrame
  <2> DEFINE n == sent.frames + 1
  <2>1. /\ sent.acked /\ sent.frames < MaxFrames /\ sent' = [sent EXCEPT !.frames = n]
        /\ GatewaySends(Frame(n)) /\ GatewayUnchanged
    BY <1>3 DEF GatewayFrame
  <2>2. n \in 0 .. MaxFrames
    BY <1>1, <2>1, ClientAssumption
  <2>3. Frame(n) \in Downs /\ Frame(n).cmd # "SESSION_ACK"
    BY <2>2 DEF Frame, Downs
  <2>4. /\ sent'.acked = sent.acked
        /\ sent' \in [acked : BOOLEAN, frames : 0 .. MaxFrames, noticed : BOOLEAN]
    BY <1>1, <2>1, <2>2
  <2>5. sent.acked => wire # <<>>
    BY DEF ClientInv, SpawnFirst
  <2> HIDE DEF n
  <2> QED BY <2>1, <2>3, <2>4, <2>5, GatewaySendKeeps
<1>4. CASE GatewayNotice
  <2>1. /\ GatewaySends(Notice) /\ GatewayUnchanged
        /\ sent' = [sent EXCEPT !.noticed = TRUE]
    BY <1>4 DEF GatewayNotice
  <2>2. Notice \in Downs /\ Notice.cmd # "SESSION_ACK"
    BY DEF Notice, Downs
  <2>3. /\ sent'.acked = sent.acked
        /\ sent' \in [acked : BOOLEAN, frames : 0 .. MaxFrames, noticed : BOOLEAN]
    BY <1>1, <2>1
  <2>4. sent.acked => wire # <<>>
    BY DEF ClientInv, SpawnFirst
  <2> QED BY <2>1, <2>2, <2>3, <2>4, GatewaySendKeeps
<1>5. CASE GatewayEnds
  <2> USE DEF ClientInv
  <2>1. /\ peer = "open" /\ peer' \in {"closed", "reset"}
        /\ UNCHANGED <<at, ui_then, packet, send_lock, runtime, stream, screen, wire, history,
                       down, sent>>
    BY <1>5 DEF GatewayEnds, Reading, GatewayUnchanged
  <2> USE <2>1 DEF runtime, stream, screen, history
  <2>2. Typed'
    BY DEF Typed, Types
  <2>3. Places' /\ RepaintComes' /\ Descriptors' /\ Locked'
    BY DEF Places, RepaintComes, Descriptors, Locked
  <2>4. Finishing' /\ WireNotTorn' /\ SpawnFirst'
    BY DEF Finishing, Begun, Mute, WireNotTorn, SpawnFirst, Fresh
  <2>5. OneSessionPerConnection' /\ OwnSession'
    BY DEF OneSessionPerConnection, OwnSession, OwnAck
  <2> QED BY <2>2, <2>3, <2>4, <2>5
<1> QED BY <1>2, <1>3, <1>4, <1>5 DEF GatewayStep

-----------------------------------------------------------------------------
(* The theorems.                                                           *)

LEMMA NextKeeps == ClientInv /\ [Next]_vars => ClientInv'
<1> SUFFICES ASSUME ClientInv, [Next]_vars PROVE ClientInv'
  OBVIOUS
<1>1. "ui" \in Threads /\ "net" \in Threads
  BY DEF Threads
<1>2. ASSUME NEW t \in Threads, SendStep(t) \/ CloseStep(t) PROVE ClientInv'
  BY <1>2, LockKeeps, WriteKeeps, CloseTestKeeps, CloseDescriptorKeeps, UnsetSocketKeeps
  DEF SendStep, CloseStep
<1>3. CASE UiStep \/ Start \/ Stop \/ SendInput \/ Draw
  BY <1>1, <1>2, <1>3, JoinKeeps, LaunchKeeps, StopKeeps, SendInputKeeps, DrawKeeps
  DEF UiStep
<1>4. CASE NetStep
  BY <1>1, <1>2, <1>4, OpenSocketKeeps, AnnounceKeeps, SetTimeoutKeeps, LoopHeadKeeps,
     LoopMovesKeep, RecvNothingKeeps, RecvDataKeeps, HandlePacketKeeps, RepaintKeeps,
     DisconnectKeeps
  DEF NetStep
<1>5. CASE GatewayStep
  BY <1>5, GatewayKeeps
<1>6. CASE UNCHANGED vars
  <2> USE <1>6 DEF vars, ClientInv, runtime, stream, screen, gateway, history
  <2>1. Typed'
    BY DEF Typed, Types
  <2>2. Places' /\ Descriptors' /\ Locked' /\ Finishing' /\ RepaintComes'
    BY DEF Places, Descriptors, Locked, Finishing, Begun, Mute, RepaintComes
  <2>3. WireNotTorn' /\ SpawnFirst' /\ OwnSession' /\ OneSessionPerConnection'
    BY DEF WireNotTorn, SpawnFirst, Fresh, OwnSession, OwnAck, OneSessionPerConnection
  <2> QED BY <2>1, <2>2, <2>3
<1> QED BY <1>3, <1>4, <1>5, <1>6 DEF Next

\* Types, who is in send_packet(), and the bounds: start() never makes more connections than
\* were asked for, no frame is beyond the numbers the Gateway gave.
THEOREM ClientIsTyped == Spec => []TypeOK
<1>1. ClientInv => TypeOK
  BY DEF ClientInv, Typed, Locked, TypeOK
<1> QED BY <1>1, InitHolds, NextKeeps, PTL DEF Spec

\* However the two threads' sends are cut and interleaved, and whatever fails,
\* packets are not mixed on the wire.
THEOREM WireIsWhole == Spec => []WireNotTorn
<1>1. ClientInv => WireNotTorn
  BY DEF ClientInv
<1> QED BY <1>1, InitHolds, NextKeeps, PTL DEF Spec

\* On every connection that starts between two packets, SPAWN_APP is the first
\* packet and the only one of its kind, and the rest are of its session.
THEOREM ConnectionHasOneSession == Spec => []OneSessionPerConnection
<1>1. ClientInv => OneSessionPerConnection
  BY DEF ClientInv
<1> QED BY <1>1, InitHolds, NextKeeps, PTL DEF Spec

\* However stop() meets run(), no descriptor is left open.
THEOREM StopIsClean == Spec => []StoppedIsClean
<1>1. ClientInv => StoppedIsClean
  BY DEF ClientInv, StoppedIsClean, Stopped, Places, Descriptors
<1> QED BY <1>1, InitHolds, NextKeeps, PTL DEF Spec

\* A frame that is not drawn has a repaint coming.
THEOREM RepaintIsDue == Spec => []RepaintComes
<1>1. ClientInv => RepaintComes
  BY DEF ClientInv
<1> QED BY <1>1, InitHolds, NextKeeps, PTL DEF Spec

\* Between stop() and the next start() nothing is sent, painted or posted.
THEOREM StopIsFinal == Spec => NothingAfterStop
<1> DEFINE Still == at["ui"] \in {"idle", "launch"} /\ stop_requested /\ conn' = conn =>
                      /\ wire' = wire
                      /\ shown' \in {shown, <<0, 0>>}
                      /\ repaints' <= repaints
<1>1. ClientInv /\ [Next]_vars => [Still]_vars
  <2> SUFFICES ASSUME ClientInv, Next, at["ui"] \in {"idle", "launch"}, stop_requested,
                      conn' = conn
               PROVE  Still
    OBVIOUS
  <2>1. at["net"] = "none" /\ repaints \in Nat /\ conn \in Nat
    BY DEF ClientInv, Places, Stopping, Typed, Types, Connections
  <2>2. CASE UiStep
    <3>1. CASE Launch
      BY <2>1, <3>1 DEF Launch
    <3>2. CASE SendStep("ui")
      BY <3>2 DEF SendStep, Lock, Write
    <3>3. CASE CloseStep("ui")
      BY <3>3 DEF CloseStep, CloseTest, CloseDescriptor, UnsetSocket
    <3>4. CASE Join
      BY <3>4 DEF Join
    <3> QED BY <2>2, <3>1, <3>2, <3>3, <3>4 DEF UiStep
  <2>3. CASE Start \/ Stop \/ SendInput \/ Draw
    BY <2>1, <2>3 DEF Start, Stop, SendInput, Draw, screen
  <2>4. CASE NetStep
    BY <2>1, <2>4
    DEF NetStep, SendStep, CloseStep, Lock, Write, CloseTest, CloseDescriptor, UnsetSocket,
        OpenSocket, Announce, SetTimeout, LoopHead, CallRecv, RecvNothing, RecvData,
        HandlePacket, Repaint, Handled, Disconnect
  <2>5. CASE GatewayStep
    BY <2>1, <2>5
    DEF GatewayStep, GatewayAcks, GatewayFrame, GatewayNotice, GatewayEnds, GatewayUnchanged,
        screen
  <2> QED BY <2>2, <2>3, <2>4, <2>5 DEF Next
<1> QED BY <1>1, InitHolds, NextKeeps, PTL DEF Spec, NothingAfterStop

=============================================================================
