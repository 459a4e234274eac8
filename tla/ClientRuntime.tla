---------------------------- MODULE ClientRuntime ----------------------------
(***************************************************************************)
(* The client between its two threads: the UI thread of client_viewer      *)
(* starts and stops ClientRuntime (src/client/client.cpp), sends inputs    *)
(* and draws; the network thread connects, asks for the application, and   *)
(* applies what arrives to the PixelRenderer.                              *)
(*                                                                         *)
(* A step ends where the code touches what the other thread may change:    *)
(* an atomic, send_mutex_, the renderer's mutex, or the plain socket_,     *)
(* which close_socket() tests, closes and clears without a lock.  The      *)
(* Gateway at the other end is the environment: it acknowledges the        *)
(* session, sends frames, and may send a notice, close or reset at any     *)
(* time.  Session ids are numbered as the connections they belong to.      *)
(***************************************************************************)
EXTENDS Naturals, Sequences

CONSTANTS
    MaxStarts,   \* bound on the calls of start()
    MaxInputs,   \* bound on the inputs sent on one connection
    MaxBeats,    \* bound on the heartbeats that fall due on one connection
    MaxFrames,   \* bound on the frames of one connection
    GatewayDoes  \* what the Gateway may do

ASSUME ClientAssumption ==
    /\ MaxStarts \in Nat /\ MaxInputs \in Nat
    /\ MaxBeats \in Nat /\ MaxFrames \in Nat
    /\ GatewayDoes \subseteq {"ack", "frame", "notice", "close", "reset"}

VARIABLES
    at,              \* where each thread is
    ui_then,         \* where the UI thread goes after stop()
    packet,          \* what each thread is sending
    send_lock,       \* who holds send_mutex_
    stop_requested, connected, session_id,  \* the atomics
    socket,          \* socket_: 0, or the connection's descriptor
    fds,             \* the descriptors of sockets that are open
    timeout_set,     \* SO_RCVTIMEO is set on the socket
    errno,           \* what the network thread's last failed call left
    parser,          \* where parser_ stands in the stream
    ready,           \* packets parser_ holds complete
    last_frame_seq,  \* PixelRenderer::last_frame_seq_
    shown,           \* the frame applied last, as <<connection, number>>
    drawn,           \* the frame the window drew last
    repaints,        \* repaint works posted to the UI thread
    conn,            \* connections so far
    peer,            \* what the kernel knows of the Gateway's end
    wire,            \* what was sent on this connection
    down,            \* what the Gateway sent and recv() has not returned
    sent,            \* how far the Gateway is: acknowledged, frames, notice
    quota,           \* inputs and heartbeats still allowed
    clean_start      \* parser_ was between two packets at start()

runtime == <<stop_requested, connected, session_id, socket, fds, timeout_set, errno>>
stream == <<parser, ready>>
screen == <<last_frame_seq, shown, drawn, repaints>>
gateway == <<peer, down, sent>>
history == <<conn, quota, clean_start>>
vars == <<at, ui_then, packet, send_lock, runtime, stream, screen, gateway,
          wire, history>>

Threads == {"ui", "net"}
Stopping == {"close", "closing", "unset", "join"}
UiPlaces == {"idle", "lock", "write", "rest", "launch"} \cup Stopping
NetPlaces == {"none", "open", "announce", "timeout", "lock", "write", "rest",
              "loop", "call", "recv", "handle", "repaint", "close", "closing",
              "unset", "disconnect", "ended"}
Frames == (0 .. MaxStarts) \X (0 .. MaxFrames)
Connections == 0 .. MaxStarts
UpPackets == [cmd : {"SPAWN_APP", "HEARTBEAT", "INPUT_EVENT"}, sid : Connections]
DownPackets == [cmd : {"SESSION_ACK", "PIXEL_DATA", "notice"}, num : Nat]

Types ==
    /\ at \in [Threads -> UiPlaces \cup NetPlaces]
    /\ at["ui"] \in UiPlaces /\ at["net"] \in NetPlaces
    /\ ui_then \in {"idle", "launch"}
    /\ packet \in [Threads -> UpPackets]
    /\ send_lock \in Threads \cup {"none"}
    /\ stop_requested \in BOOLEAN /\ connected \in BOOLEAN
    /\ session_id \in Connections /\ socket \in Connections
    /\ fds \subseteq Connections \ {0}
    /\ timeout_set \in BOOLEAN
    /\ errno \in {"timeout", "other"}
    /\ parser \in {"between", "inside", "astray", "mute"}
    /\ ready \in Seq(DownPackets) /\ down \in Seq(DownPackets)
    /\ last_frame_seq \in Nat /\ repaints \in Nat /\ conn \in Connections
    /\ shown \in Frames /\ drawn \in Frames
    /\ peer \in {"open", "closed", "reset", "dead"}
    /\ \A i \in DOMAIN wire : /\ wire[i].part \in {"whole", "first", "rest"}
                              /\ wire[i].packet \in UpPackets
    /\ sent \in [acked : BOOLEAN, frames : 0 .. MaxFrames, noticed : BOOLEAN]
    /\ quota \in [inputs : 0 .. MaxInputs, beats : 0 .. MaxBeats]
    /\ clean_start \in BOOLEAN

\* Values have their types, and a thread is in the middle of a packet exactly
\* while it holds send_mutex_: so never both, and no return leaves it locked.
TypeOK ==
    /\ Types
    /\ \A t \in Threads : send_lock = t <=> at[t] \in {"write", "rest"}

SpawnApp == [cmd |-> "SPAWN_APP", sid |-> 0]
Ack(c) == [cmd |-> "SESSION_ACK", num |-> c]
Frame(n) == [cmd |-> "PIXEL_DATA", num |-> n]
Notice == [cmd |-> "notice", num |-> 0]  \* ERROR_RESP or CLOSE_SESSION
NothingSent == [acked |-> FALSE, frames |-> 0, noticed |-> FALSE]
FullQuota == [inputs |-> MaxInputs, beats |-> MaxBeats]

Init ==
    /\ at = [ui |-> "idle", net |-> "none"]
    /\ ui_then = "idle"
    /\ packet = [t \in Threads |-> SpawnApp]
    /\ send_lock = "none"
    /\ stop_requested = FALSE /\ connected = FALSE
    /\ session_id = 0 /\ socket = 0 /\ fds = {}
    /\ timeout_set = FALSE /\ errno = "other"
    /\ parser = "between" /\ ready = <<>>
    /\ last_frame_seq = 0 /\ shown = <<0, 0>> /\ drawn = <<0, 0>> /\ repaints = 0
    /\ conn = 0 /\ clean_start = TRUE
    /\ peer = "closed" /\ wire = <<>> /\ down = <<>>
    /\ sent = NothingSent /\ quota = FullQuota

Goto(t, place) == at' = [at EXCEPT ![t] = place]

-----------------------------------------------------------------------------
(* send_packet(), of either thread.                                        *)

\* Where send_packet() returns to: send_input_event() to the window, run()
\* to its loop, or to its end if SPAWN_APP could not be sent.
AfterSend(t, ok) ==
    IF t = "ui" THEN "idle"
    ELSE IF packet["net"].cmd = "HEARTBEAT" THEN "call"
    ELSE IF ok THEN "loop" ELSE "close"

\* Mutant of Lock: nobody waits for send_mutex_.
LockNothing(t) ==
    /\ at[t] = "lock"
    /\ \/ connected /\ send_lock' = t /\ Goto(t, "write")
       \/ ~connected /\ Goto(t, AfterSend(t, FALSE)) /\ UNCHANGED send_lock
    /\ UNCHANGED <<ui_then, packet, runtime, stream, screen, gateway, wire, history>>

\* Take send_mutex_ and look at connected_.
Lock(t) ==
    /\ at[t] = "lock" /\ send_lock = "none"
    /\ \/ connected /\ send_lock' = t /\ Goto(t, "write")
       \/ ~connected /\ Goto(t, AfterSend(t, FALSE)) /\ UNCHANGED send_lock
    /\ UNCHANGED <<ui_then, packet, runtime, stream, screen, gateway, wire, history>>

\* What the stream holds after a piece of a packet: a "first" and the "rest"
\* next to it are a whole packet, a "rest" anywhere else is garbage.
OnWire(part, p) ==
    LET last == wire[Len(wire)] IN
    IF part = "rest" /\ last = [part |-> "first", packet |-> p]
    THEN [wire EXCEPT ![Len(wire)].part = "whole"]
    ELSE Append(wire, [part |-> part, packet |-> p])

\* One send(): it takes all that is left of the packet, or only a part of it;
\* a peer that has closed may answer with a reset.
SendBytes(t, part) ==
    /\ socket \in fds /\ peer \in {"open", "closed"}
    /\ wire' = OnWire(part, packet[t])
    /\ peer' \in IF peer = "open" THEN {"open"} ELSE {"closed", "reset"}
    /\ IF part = "first"
       THEN Goto(t, "rest") /\ UNCHANGED send_lock
       ELSE Goto(t, AfterSend(t, TRUE)) /\ send_lock' = "none"
    /\ UNCHANGED <<ui_then, packet, runtime, stream, screen, down, sent, history>>

\* send() fails: the descriptor is closed, or the connection was reset.  The
\* pending error is reported once.
SendFails(t) ==
    /\ socket \notin fds \/ peer \in {"reset", "dead"}
    /\ peer' = IF socket \in fds THEN "dead" ELSE peer
    /\ errno' = IF t = "net" THEN "other" ELSE errno
    /\ send_lock' = "none" /\ Goto(t, AfterSend(t, FALSE))
    /\ UNCHANGED <<ui_then, packet, stop_requested, connected, session_id, socket,
                   fds, timeout_set, stream, screen, down, sent, wire, history>>

Write(t) ==
    \/ at[t] = "write" /\ (SendBytes(t, "whole") \/ SendBytes(t, "first") \/ SendFails(t))
    \/ at[t] = "rest" /\ (SendBytes(t, "rest") \/ SendFails(t))

-----------------------------------------------------------------------------
(* close_socket(), of either thread.                                       *)

AfterClose(t) == IF t = "ui" THEN "join" ELSE "disconnect"

CloseTest(t) ==
    /\ at[t] = "close"
    /\ Goto(t, IF socket = 0 THEN AfterClose(t) ELSE "closing")
    /\ UNCHANGED <<ui_then, packet, send_lock, runtime, stream, screen, gateway,
                   wire, history>>

\* close(socket_), whatever socket_ is by now.
CloseDescriptor(t) ==
    /\ at[t] = "closing"
    /\ fds' = fds \ {socket}
    /\ Goto(t, "unset")
    /\ UNCHANGED <<ui_then, packet, send_lock, stop_requested, connected, session_id,
                   socket, timeout_set, errno, stream, screen, gateway, wire, history>>

UnsetSocket(t) ==
    /\ at[t] = "unset"
    /\ socket' = 0
    /\ Goto(t, AfterClose(t))
    /\ UNCHANGED <<ui_then, packet, send_lock, stop_requested, connected, session_id,
                   fds, timeout_set, errno, stream, screen, gateway, wire, history>>

-----------------------------------------------------------------------------
(* The UI thread: ViewerWindow and the public operations of the runtime.   *)

\* ViewerWindow::Start() clears the canvas, shows and damages the whole window,
\* which paints it anew, and calls start(), which first calls stop().
Start ==
    /\ at["ui"] = "idle" /\ conn < MaxStarts
    /\ last_frame_seq' = 0 /\ shown' = <<0, 0>> /\ drawn' = <<0, 0>>
    /\ stop_requested' = TRUE
    /\ ui_then' = "launch" /\ Goto("ui", "close")
    /\ UNCHANGED <<packet, send_lock, connected, session_id, socket, fds,
                   timeout_set, errno, stream, repaints, gateway, wire, history>>

\* stop(), from DoClose() or the destructor.
Stop ==
    /\ at["ui"] = "idle"
    /\ stop_requested' = TRUE
    /\ ui_then' = "idle" /\ Goto("ui", "close")
    /\ UNCHANGED <<packet, send_lock, connected, session_id, socket, fds,
                   timeout_set, errno, stream, screen, gateway, wire, history>>

\* Mutant of Join: the thread is let go instead of joined.
JoinDetaches ==
    /\ at["ui"] = "join"
    /\ connected' = FALSE
    /\ Goto("ui", ui_then)
    /\ UNCHANGED <<ui_then, packet, send_lock, stop_requested, session_id, socket,
                   fds, timeout_set, errno, stream, screen, gateway, wire, history>>

\* What went with the thread and its connection is forgotten; only parser_,
\* session_id_ and the screen stay.
ForgetConnection ==
    /\ packet' = [t \in Threads |-> SpawnApp]
    /\ timeout_set' = FALSE /\ errno' = "other"
    /\ peer' = "closed" /\ wire' = <<>> /\ down' = <<>>
    /\ sent' = NothingSent /\ quota' = FullQuota

\* The end of stop(): the network thread, if there is one, has ended.
Join ==
    /\ at["ui"] = "join" /\ at["net"] \in {"none", "ended"}
    /\ connected' = FALSE
    /\ at' = [ui |-> ui_then, net |-> "none"]
    /\ ForgetConnection
    /\ UNCHANGED <<ui_then, send_lock, stop_requested, session_id, socket, fds,
                   stream, screen, conn, clean_start>>

\* Mutant of Launch: the session of the last connection is kept.
LaunchKeepsSession ==
    /\ at["ui"] = "launch"
    /\ stop_requested' = FALSE /\ connected' = FALSE
    /\ at' = [ui |-> "idle", net |-> "open"]
    /\ conn' = conn + 1
    /\ clean_start' = (parser = "between")
    /\ parser' = IF parser = "inside" THEN "astray" ELSE parser
    /\ UNCHANGED <<ui_then, packet, send_lock, session_id, socket, fds, timeout_set,
                   errno, ready, screen, gateway, wire, quota>>

\* The rest of start(): fresh flags and a new thread.  parser_ is kept: what it
\* holds of a half packet belongs to no stream any more.
Launch ==
    /\ at["ui"] = "launch"
    /\ stop_requested' = FALSE /\ connected' = FALSE /\ session_id' = 0
    /\ at' = [ui |-> "idle", net |-> "open"]
    /\ conn' = conn + 1
    /\ clean_start' = (parser = "between")
    /\ parser' = IF parser = "inside" THEN "astray" ELSE parser
    /\ UNCHANGED <<ui_then, packet, send_lock, socket, fds, timeout_set, errno, ready,
                   screen, gateway, wire, quota>>

\* send_input_event(), from DoMouse() or DoKeyboard(), up to send_packet().
SendInput ==
    /\ at["ui"] = "idle" /\ quota.inputs > 0
    /\ session_id # 0 /\ connected
    /\ packet' = [packet EXCEPT !["ui"] = [cmd |-> "INPUT_EVENT", sid |-> session_id]]
    /\ quota' = [quota EXCEPT !.inputs = @ - 1]
    /\ Goto("ui", "lock")
    /\ UNCHANGED <<ui_then, send_lock, runtime, stream, screen, gateway, wire, conn,
                   clean_start>>

\* A repaint work runs: the window is damaged and DoDraw() blits the canvas.
Draw ==
    /\ at["ui"] = "idle" /\ repaints > 0
    /\ repaints' = repaints - 1
    /\ drawn' = shown
    /\ UNCHANGED <<at, ui_then, packet, send_lock, runtime, stream, last_frame_seq,
                   shown, gateway, wire, history>>

-----------------------------------------------------------------------------
(* The network thread: ClientRuntime::run().                               *)

\* open_socket(): the connection is made and stored, or cannot be made.
OpenSocket ==
    /\ at["net"] = "open"
    /\ \/ /\ socket' = conn /\ fds' = fds \cup {conn}
          /\ peer' = "open" /\ Goto("net", "announce")
       \/ Goto("net", "ended") /\ UNCHANGED <<socket, fds, peer>>
    /\ UNCHANGED <<ui_then, packet, send_lock, stop_requested, connected, session_id,
                   timeout_set, errno, stream, screen, down, sent, wire, history>>

Announce ==
    /\ at["net"] = "announce"
    /\ connected' = TRUE
    /\ Goto("net", "timeout")
    /\ UNCHANGED <<ui_then, packet, send_lock, stop_requested, session_id, socket,
                   fds, timeout_set, errno, stream, screen, gateway, wire, history>>

\* set_recv_timeout(socket_), and on to send_spawn_app().
SetTimeout ==
    /\ at["net"] = "timeout"
    /\ timeout_set' = (socket \in fds)
    /\ packet' = [packet EXCEPT !["net"] = SpawnApp]
    /\ Goto("net", "lock")
    /\ UNCHANGED <<ui_then, send_lock, stop_requested, connected, session_id, socket,
                   fds, errno, stream, screen, gateway, wire, history>>

\* Mutant of LoopHead: the loop does not look at stop_requested_.
LoopHeadIgnoresStop ==
    /\ at["net"] = "loop"
    /\ \/ Goto("net", "call") /\ UNCHANGED <<packet, quota>>
       \/ /\ session_id # 0 /\ quota.beats > 0
          /\ packet' = [packet EXCEPT !["net"] =
                           [cmd |-> "HEARTBEAT", sid |-> session_id]]
          /\ quota' = [quota EXCEPT !.beats = @ - 1]
          /\ Goto("net", "lock")
    /\ UNCHANGED <<ui_then, send_lock, runtime, stream, screen, gateway, wire, conn,
                   clean_start>>

\* Mutant of LoopHead: run() leaves its socket to stop().
LoopHeadLeavesSocket ==
    /\ at["net"] = "loop"
    /\ \/ stop_requested /\ Goto("net", "disconnect") /\ UNCHANGED <<packet, quota>>
       \/ ~stop_requested /\ Goto("net", "call") /\ UNCHANGED <<packet, quota>>
    /\ UNCHANGED <<ui_then, send_lock, runtime, stream, screen, gateway, wire, conn,
                   clean_start>>

\* The head of the loop: end on stop_requested_, else send a heartbeat if
\* there is a session and one is due, and go on to recv().
LoopHead ==
    /\ at["net"] = "loop"
    /\ \/ stop_requested /\ Goto("net", "close") /\ UNCHANGED <<packet, quota>>
       \/ ~stop_requested /\ Goto("net", "call") /\ UNCHANGED <<packet, quota>>
       \/ /\ ~stop_requested /\ session_id # 0 /\ quota.beats > 0
          /\ packet' = [packet EXCEPT !["net"] =
                           [cmd |-> "HEARTBEAT", sid |-> session_id]]
          /\ quota' = [quota EXCEPT !.beats = @ - 1]
          /\ Goto("net", "lock")
    /\ UNCHANGED <<ui_then, send_lock, runtime, stream, screen, gateway, wire, conn,
                   clean_start>>

\* What follows a recv() that returned 0 or less: is_recv_timeout() reads
\* errno, which only a failing call sets.
AfterFailure(err) == IF err = "timeout" THEN "loop" ELSE "close"

\* recv() is entered, or fails at once on a descriptor closed by stop().
CallRecv ==
    /\ at["net"] = "call"
    /\ \/ socket \in fds /\ Goto("net", "recv") /\ UNCHANGED errno
       \/ socket \notin fds /\ errno' = "other" /\ Goto("net", AfterFailure("other"))
    /\ UNCHANGED <<ui_then, packet, send_lock, stop_requested, connected, session_id,
                   socket, fds, timeout_set, stream, screen, gateway, wire, history>>

\* recv() returns without data: after 250 ms; or with 0 at the end of the
\* stream, errno as it was; or with an error, because the connection was reset
\* or (on Windows) its socket closed under it.
RecvNothing ==
    /\ at["net"] = "recv" /\ down = <<>>
    /\ \/ timeout_set /\ peer = "open" /\ errno' = "timeout" /\ UNCHANGED peer
       \/ peer \in {"closed", "dead"} /\ UNCHANGED <<errno, peer>>
       \/ peer = "reset" /\ errno' = "other" /\ peer' = "dead"
       \/ socket \notin fds /\ errno' = "other" /\ UNCHANGED peer
    /\ Goto("net", AfterFailure(errno'))
    /\ UNCHANGED <<ui_then, packet, send_lock, stop_requested, connected, session_id,
                   socket, fds, timeout_set, stream, screen, down, sent, wire, history>>

\* A packet put together from the head of an old one and bytes of this stream.
Stitched == {Ack(conn - 1), Frame(MaxFrames)}

\* parser_.feed(): n packets are complete, and the next has begun if `cut'.  In
\* a stream entered astray the first packets are swallowed: parser_ gives one
\* mixed packet or none, then meets a bad header or is back in step.
Feed(n, cut) ==
    \/ /\ parser \in {"between", "inside"}
       /\ ready' = SubSeq(down, 1, n)
       /\ parser' = IF cut THEN "inside" ELSE "between"
    \/ /\ parser = "astray"
       /\ ready' \in {<<>>} \cup {<<p>> : p \in Stitched}
       /\ parser' \in IF cut THEN {"astray", "mute"} ELSE {"astray", "mute", "between"}
    \/ parser = "mute" /\ ready' = <<>> /\ UNCHANGED parser

\* recv() returns any piece of the stream.
RecvData ==
    /\ at["net"] = "recv" /\ down # <<>>
    /\ \E n \in 0 .. Len(down), cut \in BOOLEAN :
          /\ cut => n < Len(down)
          /\ n = 0 => cut /\ parser = "between"
          /\ Feed(n, cut)
          /\ down' = SubSeq(down, n + 1, Len(down))
    /\ Goto("net", "handle")
    /\ UNCHANGED <<ui_then, packet, send_lock, runtime, screen, peer, sent, wire, history>>

\* apply_pixel_data_body(): an older frame, or one that does not fit the
\* canvas, changes nothing.
ApplyFrame(n) ==
    \/ /\ n >= last_frame_seq
       /\ last_frame_seq' = n /\ shown' = <<conn, n>>
       /\ Goto("net", "repaint")
    \/ UNCHANGED <<at, last_frame_seq, shown>>

\* handle_packet() of the next packet parser_ gives.  ERROR_RESP sets the
\* error text and CLOSE_SESSION is logged: neither ends the session here.
HandlePacket ==
    /\ at["net"] = "handle" /\ ready # <<>>
    /\ LET p == Head(ready) IN
         \/ /\ p.cmd = "SESSION_ACK" /\ session_id' = p.num
            /\ UNCHANGED <<at, last_frame_seq, shown>>
         \/ p.cmd = "PIXEL_DATA" /\ ApplyFrame(p.num) /\ UNCHANGED session_id
         \/ p = Notice /\ UNCHANGED <<at, session_id, last_frame_seq, shown>>
    /\ ready' = Tail(ready)
    /\ UNCHANGED <<ui_then, packet, send_lock, stop_requested, connected, socket, fds,
                   timeout_set, errno, parser, drawn, repaints, gateway, wire, history>>

\* Mutant of Repaint: no repaint is posted while stop() is running.
RepaintUnlessStopping ==
    /\ at["net"] = "repaint"
    /\ repaints' = IF stop_requested THEN repaints ELSE repaints + 1
    /\ Goto("net", "handle")
    /\ UNCHANGED <<ui_then, packet, send_lock, runtime, stream, last_frame_seq, shown,
                   drawn, gateway, wire, history>>

\* repaint_callback_() posts a repaint work to the UI thread.
Repaint ==
    /\ at["net"] = "repaint"
    /\ repaints' = repaints + 1
    /\ Goto("net", "handle")
    /\ UNCHANGED <<ui_then, packet, send_lock, runtime, stream, last_frame_seq, shown,
                   drawn, gateway, wire, history>>

Handled ==
    /\ at["net"] = "handle" /\ ready = <<>>
    /\ Goto("net", "loop")
    /\ UNCHANGED <<ui_then, packet, send_lock, runtime, stream, screen, gateway, wire,
                   history>>

Disconnect ==
    /\ at["net"] = "disconnect"
    /\ connected' = FALSE
    /\ Goto("net", "ended")
    /\ UNCHANGED <<ui_then, packet, send_lock, stop_requested, session_id, socket, fds,
                   timeout_set, errno, stream, screen, gateway, wire, history>>

-----------------------------------------------------------------------------
(* The Gateway.  What it does after run() has left its loop, nobody sees.     *)

Reading == at["net"] \notin {"none", "open", "disconnect", "ended"} /\ peer = "open"

GatewayUnchanged == UNCHANGED <<at, ui_then, packet, send_lock, runtime, stream,
                                screen, wire, history>>

SpawnArrived ==
    \E i \in DOMAIN wire : wire[i] = [part |-> "whole", packet |-> SpawnApp]

GatewaySends(p) == Reading /\ down' = Append(down, p) /\ UNCHANGED peer

GatewayAcks ==
    /\ "ack" \in GatewayDoes /\ SpawnArrived /\ ~sent.acked /\ ~sent.noticed
    /\ GatewaySends(Ack(conn))
    /\ sent' = [sent EXCEPT !.acked = TRUE]
    /\ GatewayUnchanged

GatewayFrame ==
    /\ "frame" \in GatewayDoes
    /\ sent.acked /\ ~sent.noticed /\ sent.frames < MaxFrames
    /\ GatewaySends(Frame(sent.frames + 1))
    /\ sent' = [sent EXCEPT !.frames = @ + 1]
    /\ GatewayUnchanged

\* The session could not be spawned, failed, or was closed.
GatewayNotice ==
    /\ "notice" \in GatewayDoes /\ SpawnArrived /\ ~sent.noticed
    /\ GatewaySends(Notice)
    /\ sent' = [sent EXCEPT !.noticed = TRUE]
    /\ GatewayUnchanged

GatewayEnds ==
    /\ Reading
    /\ \/ "close" \in GatewayDoes /\ peer' = "closed"
       \/ "reset" \in GatewayDoes /\ peer' = "reset"
    /\ UNCHANGED <<down, sent>>
    /\ GatewayUnchanged

-----------------------------------------------------------------------------

SendStep(t) == Lock(t) \/ Write(t)
CloseStep(t) == CloseTest(t) \/ CloseDescriptor(t) \/ UnsetSocket(t)

UiStep == SendStep("ui") \/ CloseStep("ui") \/ Join \/ Launch
NetStep ==
    \/ SendStep("net") \/ CloseStep("net")
    \/ OpenSocket \/ Announce \/ SetTimeout \/ LoopHead \/ CallRecv
    \/ RecvNothing \/ RecvData \/ HandlePacket \/ Repaint \/ Handled \/ Disconnect
GatewayStep == GatewayAcks \/ GatewayFrame \/ GatewayNotice \/ GatewayEnds

Next == UiStep \/ Start \/ Stop \/ SendInput \/ Draw \/ NetStep \/ GatewayStep

Spec == Init /\ [][Next]_vars

\* Both threads go on: connect() and send() return, recv() returns when there
\* is something to return, or in time.  Nobody has to call, send or close.
FairSpec == Spec /\ WF_vars(UiStep) /\ WF_vars(NetStep)

-----------------------------------------------------------------------------
(* Properties.                                                             *)

\* A connection carries one session: SPAWN_APP comes first and once, and every
\* later packet bears the id the Gateway acknowledged on this very connection
\* (client.cpp:111, 132-136, 173-174).  A stream that starts with a half packet
\* of an older one in parser_ is exempt: its SESSION_ACK may be garbled.
OneSessionPerConnection ==
    clean_start => \A i \in DOMAIN wire :
       IF i = 1 THEN wire[i].packet = SpawnApp
       ELSE wire[i].packet # SpawnApp /\ wire[i].packet.sid = conn /\ sent.acked

\* Packets of the two threads are not mixed on the wire (client.cpp:278,
\* M6a.md:188-190): only the last may be incomplete.
WireNotTorn ==
    \A i \in DOMAIN wire :
       wire[i].part = "whole" \/ (wire[i].part = "first" /\ i = Len(wire))

\* Where stop() has returned and start() has not yet made a new thread.
Stopped == at["net"] = "none" /\ at["ui"] \notin Stopping

\* A stopped runtime holds no descriptor and is not connected, however stop()
\* met run() (client.cpp:125-130, 268, 211): the connection made after stop()
\* had found no socket to close is closed as well.
StoppedIsClean == Stopped => fds = {} /\ socket = 0 /\ ~connected

\* Once stop() has returned, nothing is sent, painted or posted before the next
\* start(): the renderer and the window may go (client_viewer.cpp:218-221).
NothingAfterStop ==
    [][at["ui"] \in {"idle", "launch"} /\ stop_requested /\ conn' = conn =>
          /\ wire' = wire
          /\ shown' \in {shown, <<0, 0>>}
          /\ repaints' <= repaints]_vars

\* The window never stays behind the canvas: a frame it has not drawn has a
\* repaint posted or about to be (client.cpp:323-336).
RepaintComes == drawn # shown => repaints > 0 \/ at["net"] = "repaint"

\* stop() returns, whatever run() is doing and whether or not the Gateway
\* answers (M6a.md:200-202).
StopReturns == at["ui"] \in Stopping ~> at["ui"] \notin Stopping

\* "When recv() returns 0 [...] the runtime [...] stays disconnected"
\* (M6a.md:630-631): the end of the stream, once recv() has it, disconnects.
AtEof == at["net"] = "recv" /\ peer = "closed" /\ down = <<>>
EofDisconnects == AtEof ~> ~connected
=============================================================================
