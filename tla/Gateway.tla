------------------------------ MODULE Gateway ------------------------------
(***************************************************************************)
(* The Gateway's session lifecycle (src/gateway/gateway.cpp over           *)
(* SessionTable and ProcessManager) in auto-spawn mode: IoPool callbacks   *)
(* of Client and AppHost connections and the monitor thread run            *)
(* concurrently and meet only in the session table, in the send queues and *)
(* in the operating system's processes.                                    *)
(*                                                                         *)
(* A handler is split where it releases a lock: one action per critical    *)
(* section of SessionTable::mutex_, client_lock_ or apphost_lock_, and per *)
(* system call.  What a handler carries across a lock (the session id, the *)
(* route and the pid it read) is its frame in `call', so it may be stale   *)
(* when it is used.  Callbacks of one connection are serialised by IoPool. *)
(*                                                                         *)
(* The n-th fork gives a fresh pid and its AppHost opens one connection    *)
(* (AppHost::run connects once), so an AppHost process, its pid and its    *)
(* connection are one value: AppHosts = Pids.  Connection handles are not  *)
(* reused here; enqueueing is one step, as SendQueue models what follows.  *)
(***************************************************************************)
EXTENDS SessionTable, Sequences, FiniteSets

CONSTANTS
    Monitor,    \* the monitor thread
    MaxSpawns,  \* bound on the SPAWN_APP packets one Client sends
    Events      \* bound on what happens around the Gateway: see AllEvents

\* What Clients, AppHosts, the OS and the clock may do of their own accord.
AllEvents == {"client_close", "client_data", "client_heartbeat",
              "client_disconnect", "client_silence", "bad_app", "fork_failure",
              "spawn_timeout",
              "apphost_close", "apphost_data", "apphost_heartbeat",
              "apphost_exit", "apphost_idle", "apphost_silence"}

ASSUME GatewayAssumption ==
    /\ AppHosts = Pids
    /\ Clients \cap AppHosts = {}
    /\ Monitor \notin Clients \cup AppHosts
    /\ MaxSpawns \in Nat
    /\ Events \subseteq AllEvents

VARIABLES
    client,    \* ClientSession: [Clients -> record], see ClientSession
    apphost,   \* AppHostSession and the process behind it, see AppHostSession
    disabled,  \* connections on which DisableHandle was called
    call,      \* the handler each thread is in, see Frame
    monitor    \* monitor_loop()'s phase and its two work lists

vars == <<tableVars, client, apphost, disabled, call, monitor>>

Threads == Clients \cup AppHosts \cup {Monitor}

\* link: "none" before accept, "linked" while on the active list that
\* find_client_locked() walks, "gone" after release_client() unlinked it.
\* spawns counts SPAWN_APP packets; sent is what was queued for this Client.
\* foreclosed is history: its session was created while a CLOSE_SESSION that
\* had guessed the id was under way, see BeingClosed.
Notice == [cmd : {"SESSION_ACK", "ERROR_RESP", "CLOSE_SESSION"},
           s   : SessionIds \cup {0}]
ClientSession == [link : {"none", "linked", "gone"},
                  session_id : SessionIds \cup {0},
                  spawns : 0..MaxSpawns,
                  sent : Seq(Notice),
                  foreclosed : BOOLEAN]

\* process: the child as the OS sees it; launched: its --session-id argument.
\* ready: the APPHOST_READY packet.  told: sessions whose CLOSE_SESSION was
\* queued for it; killed: terminate() was called with its pid.
AppHostSession == [process : {"none", "running", "exited", "reaped"},
                   launched : SessionIds \cup {0},
                   link : {"none", "linked", "gone"},
                   session_id : SessionIds \cup {0},
                   ready : {"unsent", "inflight", "handled"},
                   told : SUBSET SessionIds,
                   killed : BOOLEAN]

\* Where a handler may be when it has released a lock or returned.
Places == {"idle", "spawn", "fork", "set_pid", "spawn_undo", "spawn_error",
           "release", "release_remove", "release_tell",
           "close", "close_pid", "close_remove", "close_client", "close_apphost",
           "close_kill", "forward", "forward_send", "ready", "ready_route",
           "ready_ack", "fail", "fail_notify", "fail_apphost", "fail_client",
           "fail_kill", "fail_remove"}

\* A handler's next step `at' and what it holds: the session, the route and
\* the pid it read, and fail_session()'s notify_client_error.
Frame == [at : Places, s : SessionIds \cup {0}, client : Clients \cup {None},
          apphost : AppHosts \cup {None}, pid : Pids \cup {None},
          notify : BOOLEAN]

Idle == [at |-> "idle", s |-> 0, client |-> None, apphost |-> None,
         pid |-> None, notify |-> FALSE]

GatewayTypeOK ==
    /\ TableTypeOK
    /\ client \in [Clients -> ClientSession]
    /\ apphost \in [AppHosts -> AppHostSession]
    /\ disabled \subseteq Clients \cup AppHosts
    /\ call \in [Threads -> Frame]
    /\ monitor \in [phase : {"sleep", "exits", "scan"}, exits : SUBSET Pids,
                    due : SUBSET (SessionIds \X BOOLEAN)]

GatewayInit ==
    /\ TableInit
    /\ client = [c \in Clients |-> [link |-> "none", session_id |-> 0,
                                    spawns |-> 0, sent |-> <<>>,
                                    foreclosed |-> FALSE]]
    /\ apphost = [a \in AppHosts |->
                    [process |-> "none", launched |-> 0, link |-> "none",
                     session_id |-> 0, ready |-> "unsent", told |-> {},
                     killed |-> FALSE]]
    /\ disabled = {}
    /\ call = [t \in Threads |-> Idle]
    /\ monitor = [phase |-> "sleep", exits |-> {}, due |-> {}]

-----------------------------------------------------------------------------
(* Threads and sends.                                                      *)

At(t, label) == call[t].at = label
Goto(t, label) == call' = [call EXCEPT ![t].at = label]
Return(t) == call' = [call EXCEPT ![t] = Idle]

\* send_to_client(): a Client that is off the active list gets nothing, and
\* BeginInput on a disabled handle is cancelled.
ToClient(c, cmd, s) ==
    client' = IF c # None /\ client[c].link = "linked" /\ c \notin disabled
              THEN [client EXCEPT ![c].sent = Append(@, [cmd |-> cmd, s |-> s])]
              ELSE client

\* send_to_apphost() of CLOSE_SESSION, the only control packet sent there.
TellAppHost(a, s) ==
    apphost' = IF a # None /\ apphost[a].link = "linked" /\ a \notin disabled
               THEN [apphost EXCEPT ![a].told = @ \cup {s}]
               ELSE apphost

\* The Client knows a session id once its SESSION_ACK was sent.
Knows(c, s) == [cmd |-> "SESSION_ACK", s |-> s] \in
               {client[c].sent[i] : i \in DOMAIN client[c].sent}

-----------------------------------------------------------------------------
(* Client connections.                                                     *)

\* on_client_listen_event(): accept and alloc_client().
AcceptClient(c) ==
    /\ client[c].link = "none"
    /\ client' = [client EXCEPT ![c].link = "linked"]
    /\ UNCHANGED <<tableVars, apphost, disabled, call, monitor>>

\* on_client_received() of one packet: the client is marked as seen, then the
\* packet is dispatched.  Its s is the session id in the header, which may be
\* any: nothing compares it with the Client's own.  (0 and the ids beyond the
\* bound are not in the table, like the ids not given out yet.)  A packet of
\* the chunk being parsed is dispatched even if the handle was disabled since.
ClientReceives(c, label, s) ==
    /\ client[c].link = "linked" /\ At(c, "idle")
    /\ IF client[c].session_id # 0 THEN MarkClientSeen(client[c].session_id)
       ELSE UNCHANGED tableVars
    /\ call' = [call EXCEPT ![c].at = label, ![c].s = s]

ReceiveSpawnApp(c) ==
    /\ client[c].spawns < MaxSpawns
    /\ ClientReceives(c, "spawn", 0)
    /\ client' = [client EXCEPT ![c].spawns = @ + 1]
    /\ UNCHANGED <<apphost, disabled, monitor>>

ReceiveClientClose(c) ==
    /\ "client_close" \in Events
    /\ \E s \in SessionIds : ClientReceives(c, "close", s)
    /\ UNCHANGED <<client, apphost, disabled, monitor>>

\* INPUT_EVENT and every other type that the switch forwards.
ReceiveClientData(c) ==
    /\ "client_data" \in Events
    /\ \E s \in SessionIds : ClientReceives(c, "forward", s)
    /\ UNCHANGED <<client, apphost, disabled, monitor>>

\* Mutant of SpawnRefused: a second SPAWN_APP is not refused.
SpawnNeverRefused(c) == FALSE

SpawnRefused(c) == client[c].session_id # 0 \/ HasActiveOrSpawning(c)

\* Some close_session(s) has looked the session up and not yet removed it.
BeingClosed(s) ==
    \E t \in Threads : call[t].s = s /\ call[t].at \in {"close_pid", "close_remove"}

\* handle_spawn_app(): a Client with a session gets ERROR_RESP; an unknown
\* name or a missing file gets ERROR_RESP with session 0; otherwise the
\* session is created and recorded in the ClientSession.  Looking for a session
\* of the Client and creating one are two critical sections in the code and one
\* step here: only this connection's callbacks, which are serial, create
\* sessions of c, and a removal in between changes nothing that is read.
HandleSpawnApp(c) ==
    /\ At(c, "spawn")
    /\ \/ /\ SpawnRefused(c)
          /\ ToClient(c, "ERROR_RESP", client[c].session_id)
          /\ Return(c)
          /\ UNCHANGED tableVars
       \/ /\ ~SpawnRefused(c) /\ "bad_app" \in Events
          /\ ToClient(c, "ERROR_RESP", 0)
          /\ Return(c)
          /\ UNCHANGED tableVars
       \/ /\ ~SpawnRefused(c)
          /\ CreateSpawningSession(c)
          /\ client' = [client EXCEPT
               ![c].session_id = next_session_id,
               ![c].foreclosed = BeingClosed(next_session_id)]
          /\ call' = [call EXCEPT ![c].at = "fork", ![c].s = next_session_id]
    /\ UNCHANGED <<apphost, disabled, monitor>>

\* spawn_apphost(): fork() fails, or a child runs before the pid is recorded.
Fork(c) ==
    /\ At(c, "fork")
    /\ \/ /\ "fork_failure" \in Events
          /\ Goto(c, "spawn_undo")
          /\ UNCHANGED apphost
       \/ \E p \in Pids :
            /\ apphost[p].process = "none"
            /\ apphost' = [apphost EXCEPT ![p].process = "running",
                                          ![p].launched = call[c].s]
            /\ call' = [call EXCEPT ![c].at = "set_pid", ![c].pid = p]
    /\ UNCHANGED <<tableVars, client, disabled, monitor>>

\* Mutant of RecordPid: the session is acknowledged as soon as it is forked.
RecordPidAndAck(c) ==
    /\ At(c, "set_pid")
    /\ SetAppHostPid(call[c].s, call[c].pid)
    /\ ToClient(c, "SESSION_ACK", call[c].s)
    /\ Return(c)
    /\ UNCHANGED <<apphost, disabled, monitor>>

\* The result of set_apphost_pid() is not looked at.
RecordPid(c) ==
    /\ At(c, "set_pid")
    /\ SetAppHostPid(call[c].s, call[c].pid)
    /\ Return(c)
    /\ UNCHANGED <<client, apphost, disabled, monitor>>

UndoSpawn(c) ==
    /\ At(c, "spawn_undo")
    /\ RemoveSession(call[c].s)
    /\ Goto(c, "spawn_error")
    /\ UNCHANGED <<client, apphost, disabled, monitor>>

\* session_id_ is cleared, so this Client may ask again.
ReportSpawnFailure(c) ==
    /\ At(c, "spawn_error")
    /\ client' = [client EXCEPT
         ![c].session_id = 0,
         ![c].sent = IF c \in disabled THEN @
                     ELSE Append(@, [cmd |-> "ERROR_RESP", s |-> call[c].s])]
    /\ Return(c)
    /\ UNCHANGED <<tableVars, apphost, disabled, monitor>>

\* IO_TYPE_RECV_ERROR, _RECV_TIMEOUT or _BEFORE_CLOSE: the Client closed or
\* the handle was disabled.  release_client() unlinks the ClientSession first.
ClientDisconnects(c) ==
    /\ "client_disconnect" \in Events
    /\ client[c].link = "linked" /\ At(c, "idle")
    /\ client' = [client EXCEPT ![c].link = "gone"]
    /\ call' = [call EXCEPT ![c].at = "release", ![c].s = client[c].session_id]
    /\ UNCHANGED <<tableVars, apphost, disabled, monitor>>

ReleaseClientFind(c) ==
    /\ At(c, "release") /\ call[c].s # 0
    /\ call' = [call EXCEPT ![c].at = "release_remove",
                            ![c].apphost = FindAppHost(call[c].s)]
    /\ UNCHANGED <<tableVars, client, apphost, disabled, monitor>>

ReleaseClientNoSession(c) ==
    /\ At(c, "release") /\ call[c].s = 0
    /\ RemoveByClient(c)
    /\ Return(c)
    /\ UNCHANGED <<client, apphost, disabled, monitor>>

ReleaseClientRemove(c) ==
    /\ At(c, "release_remove")
    /\ RemoveSession(call[c].s)
    /\ Goto(c, "release_tell")
    /\ UNCHANGED <<client, apphost, disabled, monitor>>

ReleaseClientTell(c) ==
    /\ At(c, "release_tell")
    /\ TellAppHost(call[c].apphost, call[c].s)
    /\ Return(c)
    /\ UNCHANGED <<tableVars, client, disabled, monitor>>

\* HEARTBEAT: the client is marked as seen; the echo changes no state.
ReceiveClientHeartbeat(c) ==
    /\ "client_heartbeat" \in Events
    /\ client[c].link = "linked" /\ At(c, "idle")
    /\ client[c].session_id # 0
    /\ MarkClientSeen(client[c].session_id)
    /\ UNCHANGED <<client, apphost, disabled, call, monitor>>

-----------------------------------------------------------------------------
(* Packets that both kinds of connections send: close_session() and the    *)
(* two forwards.  t is the thread of the connection they arrived on.       *)

CloseFind(t) ==
    /\ At(t, "close")
    /\ call' = [call EXCEPT ![t].at = "close_pid",
                            ![t].client = FindClient(call[t].s),
                            ![t].apphost = FindAppHost(call[t].s)]
    /\ UNCHANGED <<tableVars, client, apphost, disabled, monitor>>

CloseGetPid(t) ==
    /\ At(t, "close_pid")
    /\ call' = [call EXCEPT ![t].at = "close_remove", ![t].pid = GetPid(call[t].s)]
    /\ UNCHANGED <<tableVars, client, apphost, disabled, monitor>>

CloseRemove(t) ==
    /\ At(t, "close_remove")
    /\ RemoveSession(call[t].s)
    /\ Goto(t, "close_client")
    /\ UNCHANGED <<client, apphost, disabled, monitor>>

CloseTellClient(t) ==
    /\ At(t, "close_client")
    /\ ToClient(call[t].client, "CLOSE_SESSION", call[t].s)
    /\ call' = [call EXCEPT ![t].at = "close_apphost", ![t].client = None]
    /\ UNCHANGED <<tableVars, apphost, disabled, monitor>>

CloseTellAppHost(t) ==
    /\ At(t, "close_apphost")
    /\ TellAppHost(call[t].apphost, call[t].s)
    /\ call' = [call EXCEPT ![t].at = "close_kill", ![t].apphost = None]
    /\ UNCHANGED <<tableVars, client, disabled, monitor>>

\* terminate(): SIGTERM to the pid that was read, whoever has it by now.
Terminate(p) ==
    apphost' = IF p # None THEN [apphost EXCEPT ![p].killed = TRUE] ELSE apphost

CloseTerminate(t) ==
    /\ At(t, "close_kill")
    /\ Terminate(call[t].pid)
    /\ Return(t)
    /\ UNCHANGED <<tableVars, client, disabled, monitor>>

\* forward_to_apphost() and forward_to_client(): find the peer, then send.
Forward(t) ==
    /\ At(t, "forward")
    /\ call' = [call EXCEPT
         ![t].at = "forward_send",
         ![t].apphost = IF t \in Clients THEN FindAppHost(call[t].s) ELSE None,
         ![t].client  = IF t \in AppHosts THEN FindClient(call[t].s) ELSE None]
    /\ UNCHANGED <<tableVars, client, apphost, disabled, monitor>>

ForwardSend(t) ==
    /\ At(t, "forward_send")
    /\ Return(t)
    /\ UNCHANGED <<tableVars, client, apphost, disabled, monitor>>

CloseOrForward(t) ==
    \/ CloseFind(t) \/ CloseGetPid(t) \/ CloseRemove(t)
    \/ CloseTellClient(t) \/ CloseTellAppHost(t) \/ CloseTerminate(t)
    \/ Forward(t) \/ ForwardSend(t)

-----------------------------------------------------------------------------
(* AppHost processes and connections.                                      *)

\* AppHost::run(): the process connects, alloc_apphost() links it, and
\* APPHOST_READY is on its way before anything else happens there.
AppHostConnects(a) ==
    /\ apphost[a].process = "running" /\ apphost[a].link = "none"
    /\ apphost' = [apphost EXCEPT ![a].link = "linked", ![a].ready = "inflight"]
    /\ UNCHANGED <<tableVars, client, disabled, call, monitor>>

\* The child ends: a crash, SIGTERM, CLOSE_SESSION, a plugin that fails to
\* load or returns.  What it sent before may still arrive.
AppHostExits(a) ==
    /\ "apphost_exit" \in Events
    /\ apphost[a].process = "running"
    /\ apphost' = [apphost EXCEPT ![a].process = "exited"]
    /\ UNCHANGED <<tableVars, client, disabled, call, monitor>>

\* on_apphost_received() of one packet.  The session id in the header is the
\* one the process was launched with: AppHosts are this repository's program,
\* forked by the Gateway, and put their --session-id in every packet.
AppHostReceives(a, label) ==
    /\ apphost[a].link = "linked" /\ At(a, "idle")
    /\ MarkAppHostSeen(apphost[a].launched)
    /\ call' = [call EXCEPT ![a].at = label, ![a].s = apphost[a].launched]

ReceiveReady(a) ==
    /\ apphost[a].ready = "inflight"
    /\ AppHostReceives(a, "ready")
    /\ apphost' = [apphost EXCEPT ![a].ready = "handled"]
    /\ UNCHANGED <<client, disabled, monitor>>

\* PIXEL_DATA and every other type that the switch forwards, after the READY.
ReceiveAppHostData(a) ==
    /\ "apphost_data" \in Events
    /\ apphost[a].ready = "handled"
    /\ AppHostReceives(a, "forward")
    /\ UNCHANGED <<client, apphost, disabled, monitor>>

ReceiveAppHostHeartbeat(a) ==
    /\ "apphost_heartbeat" \in Events
    /\ apphost[a].link = "linked" /\ At(a, "idle")
    /\ apphost[a].ready = "handled"
    /\ MarkAppHostSeen(apphost[a].launched)
    /\ UNCHANGED <<client, apphost, disabled, call, monitor>>

ReceiveAppHostClose(a) ==
    /\ "apphost_close" \in Events
    /\ apphost[a].ready = "handled"
    /\ AppHostReceives(a, "close")
    /\ UNCHANGED <<client, apphost, disabled, monitor>>

\* handle_apphost_ready(): a READY for a session that is gone is dropped.
HandleReady(a) ==
    /\ At(a, "ready")
    /\ BindAppHost(call[a].s, a)
    /\ IF Bindable(call[a].s) THEN Goto(a, "ready_route") ELSE Return(a)
    /\ UNCHANGED <<client, apphost, disabled, monitor>>

\* Mutant of ReadyRoute: the route of the newest session is read back.
ReadyRouteNewest(a) ==
    /\ At(a, "ready_route")
    /\ apphost' = [apphost EXCEPT ![a].session_id = call[a].s]
    /\ call' = [call EXCEPT ![a].at = "ready_ack",
                            ![a].client = FindClient(next_session_id - 1)]
    /\ UNCHANGED <<tableVars, client, disabled, monitor>>

\* AppHostSession::session_id_ is set and the route read back; the Client it
\* names is not the one bound if the session was removed in between.
ReadyRoute(a) ==
    /\ At(a, "ready_route")
    /\ apphost' = [apphost EXCEPT ![a].session_id = call[a].s]
    /\ call' = [call EXCEPT ![a].at = "ready_ack",
                            ![a].client = FindClient(call[a].s)]
    /\ UNCHANGED <<tableVars, client, disabled, monitor>>

ReadyAck(a) ==
    /\ At(a, "ready_ack")
    /\ ToClient(call[a].client, "SESSION_ACK", call[a].s)
    /\ Return(a)
    /\ UNCHANGED <<tableVars, apphost, disabled, monitor>>

\* release_apphost() unlinks the AppHostSession first.
ReleaseAppHost(a) ==
    /\ apphost[a].link = "linked" /\ At(a, "idle")
    /\ apphost' = [apphost EXCEPT ![a].link = "gone"]
    /\ call' = [call EXCEPT ![a].at = "release", ![a].s = apphost[a].session_id]
    /\ UNCHANGED <<tableVars, client, disabled, monitor>>

\* IO_TYPE_RECV_ERROR or _BEFORE_CLOSE: the handle was disabled, or the
\* process is gone and what it had sent was read.
AppHostDisconnects(a) ==
    /\ \/ a \in disabled
       \/ apphost[a].process # "running" /\ apphost[a].ready = "handled"
    /\ ReleaseAppHost(a)

\* IO_TYPE_RECV_TIMEOUT: IoPool gives up on a connection that stays quiet.
AppHostIdlesOut(a) ==
    /\ "apphost_idle" \in Events
    /\ apphost[a].ready = "handled"
    /\ ReleaseAppHost(a)

ReleaseAppHostFind(a) ==
    /\ At(a, "release") /\ call[a].s # 0
    /\ call' = [call EXCEPT ![a].at = "release_remove",
                            ![a].client = FindClient(call[a].s)]
    /\ UNCHANGED <<tableVars, client, apphost, disabled, monitor>>

ReleaseAppHostNoSession(a) ==
    /\ At(a, "release") /\ call[a].s = 0
    /\ RemoveByAppHost(a)
    /\ Return(a)
    /\ UNCHANGED <<client, apphost, disabled, monitor>>

\* Mutant of ReleaseAppHostRemove: the Client side is not told.
ReleaseAppHostRemoveQuietly(a) ==
    /\ At(a, "release_remove")
    /\ RemoveSession(call[a].s)
    /\ Return(a)
    /\ UNCHANGED <<client, apphost, disabled, monitor>>

ReleaseAppHostRemove(a) ==
    /\ At(a, "release_remove")
    /\ RemoveSession(call[a].s)
    /\ Goto(a, "release_tell")
    /\ UNCHANGED <<client, apphost, disabled, monitor>>

ReleaseAppHostTell(a) ==
    /\ At(a, "release_tell")
    /\ ToClient(call[a].client, "CLOSE_SESSION", call[a].s)
    /\ Return(a)
    /\ UNCHANGED <<tableVars, apphost, disabled, monitor>>

-----------------------------------------------------------------------------
(* The monitor thread.                                                     *)

\* reap_exited(): every child that has exited by now.
Reap ==
    /\ monitor.phase = "sleep"
    /\ LET gone == {p \in Pids : apphost[p].process = "exited"} IN
       /\ apphost' = [p \in Pids |-> IF p \in gone
                                     THEN [apphost[p] EXCEPT !.process = "reaped"]
                                     ELSE apphost[p]]
       /\ monitor' = [monitor EXCEPT !.phase = "exits", !.exits = gone]
    /\ UNCHANGED <<tableVars, client, disabled, call>>

\* find_by_pid() of one exited child; a pid that is not (or not yet) in the
\* index is forgotten here.
NextExit ==
    /\ monitor.phase = "exits" /\ At(Monitor, "idle")
    /\ \E p \in monitor.exits :
         /\ monitor' = [monitor EXCEPT !.exits = @ \ {p}]
         /\ IF FindByPid(p) = 0 THEN UNCHANGED call
            ELSE call' = [call EXCEPT ![Monitor] =
                   [Idle EXCEPT !.at = "fail", !.s = FindByPid(p), !.notify = TRUE]]
    /\ UNCHANGED <<tableVars, client, apphost, disabled>>

\* Mutant of SpawnTimedOut: sessions stuck in SPAWNING are overlooked.
SpawnNeverTimesOut(s) == FALSE

SpawnTimedOut(s) == by_session[s].state = "SPAWNING" /\ by_session[s].late
ClientTimedOut(s) == by_session[s].state = "ACTIVE" /\ by_session[s].client_stale
AppHostTimedOut(s) ==
    by_session[s].state = "ACTIVE" /\ ~by_session[s].client_stale
                                   /\ by_session[s].apphost_stale

\* snapshot_sessions() and the judgement on each copy.  The copies are judged
\* before the first of them is failed as well as after: they do not change.
Snapshot ==
    /\ monitor.phase = "exits" /\ monitor.exits = {} /\ At(Monitor, "idle")
    /\ monitor' = [monitor EXCEPT
         !.phase = "scan",
         !.due = {<<s, TRUE>>  : s \in {x \in SessionIds : SpawnTimedOut(x) \/ AppHostTimedOut(x)}}
            \cup {<<s, FALSE>> : s \in {x \in SessionIds : ClientTimedOut(x)}}]
    /\ UNCHANGED <<tableVars, client, apphost, disabled, call>>

NextDue ==
    /\ monitor.phase = "scan" /\ At(Monitor, "idle")
    /\ \E d \in monitor.due :
         /\ monitor' = [monitor EXCEPT !.due = @ \ {d}]
         /\ call' = [call EXCEPT ![Monitor] =
              [Idle EXCEPT !.at = "fail", !.s = d[1], !.notify = d[2]]]
    /\ UNCHANGED <<tableVars, client, apphost, disabled>>

Sleep ==
    /\ monitor.phase = "scan" /\ monitor.due = {} /\ At(Monitor, "idle")
    /\ monitor' = [monitor EXCEPT !.phase = "sleep"]
    /\ UNCHANGED <<tableVars, client, apphost, disabled, call>>

\* fail_session(), step by step.  Only the transition to CLOSING is guarded.
FailBegin ==
    /\ At(Monitor, "fail")
    /\ LET s == call[Monitor].s IN
       /\ TransitionToClosing(s)
       /\ IF Closable(s)
          THEN call' = [call EXCEPT ![Monitor].at = "fail_notify",
                                    ![Monitor].client = FindClient(s),
                                    ![Monitor].apphost = FindAppHost(s),
                                    ![Monitor].pid = GetPid(s)]
          ELSE Return(Monitor)
    /\ UNCHANGED <<client, apphost, disabled, monitor>>

FailNotify ==
    /\ At(Monitor, "fail_notify")
    /\ IF call[Monitor].notify
       THEN ToClient(call[Monitor].client, "ERROR_RESP", call[Monitor].s)
       ELSE UNCHANGED client
    /\ call' = [call EXCEPT ![Monitor].at = "fail_apphost", ![Monitor].notify = FALSE]
    /\ UNCHANGED <<tableVars, apphost, disabled, monitor>>

\* Mutant of FailDisableAppHost: the test for an unbound session is forgotten.
FailDisableAnyAppHost ==
    /\ At(Monitor, "fail_apphost")
    /\ disabled' = disabled \cup {call[Monitor].apphost}
    /\ call' = [call EXCEPT ![Monitor].at = "fail_client", ![Monitor].apphost = None]
    /\ UNCHANGED <<tableVars, client, apphost, monitor>>

FailDisableAppHost ==
    /\ At(Monitor, "fail_apphost")
    /\ disabled' = disabled \cup ({call[Monitor].apphost} \ {None})
    /\ call' = [call EXCEPT ![Monitor].at = "fail_client", ![Monitor].apphost = None]
    /\ UNCHANGED <<tableVars, client, apphost, monitor>>

FailDisableClient ==
    /\ At(Monitor, "fail_client")
    /\ disabled' = disabled \cup ({call[Monitor].client} \ {None})
    /\ call' = [call EXCEPT ![Monitor].at = "fail_kill", ![Monitor].client = None]
    /\ UNCHANGED <<tableVars, client, apphost, monitor>>

FailTerminate ==
    /\ At(Monitor, "fail_kill")
    /\ Terminate(call[Monitor].pid)
    /\ call' = [call EXCEPT ![Monitor].at = "fail_remove", ![Monitor].pid = None]
    /\ UNCHANGED <<tableVars, client, disabled, monitor>>

\* Mutant of FailRemove: a session that is no longer CLOSING, because a late
\* READY has made it ACTIVE again, is left in the table.
FailRemoveIfClosing ==
    /\ At(Monitor, "fail_remove")
    /\ IF Has(call[Monitor].s) /\ by_session[call[Monitor].s].state = "CLOSING"
       THEN RemoveSession(call[Monitor].s)
       ELSE UNCHANGED tableVars
    /\ Return(Monitor)
    /\ UNCHANGED <<client, apphost, disabled, monitor>>

FailRemove ==
    /\ At(Monitor, "fail_remove")
    /\ RemoveSession(call[Monitor].s)
    /\ Return(Monitor)
    /\ UNCHANGED <<client, apphost, disabled, monitor>>

MonitorStep ==
    \/ Reap \/ NextExit \/ Snapshot \/ NextDue \/ Sleep
    \/ FailBegin \/ FailNotify \/ FailDisableAppHost \/ FailDisableClient
    \/ FailTerminate \/ FailRemove

-----------------------------------------------------------------------------
(* The system.                                                             *)

\* A step that a running handler owes.
ClientHandlerStep(c) ==
    \/ HandleSpawnApp(c) \/ Fork(c) \/ RecordPid(c) \/ UndoSpawn(c)
    \/ ReportSpawnFailure(c) \/ ReleaseClientFind(c) \/ ReleaseClientNoSession(c)
    \/ ReleaseClientRemove(c) \/ ReleaseClientTell(c) \/ CloseOrForward(c)

AppHostHandlerStep(a) ==
    \/ HandleReady(a) \/ ReadyRoute(a) \/ ReadyAck(a)
    \/ ReleaseAppHostFind(a) \/ ReleaseAppHostNoSession(a)
    \/ ReleaseAppHostRemove(a) \/ ReleaseAppHostTell(a) \/ CloseOrForward(a)

ClientSends(c) ==
    \/ AcceptClient(c) \/ ReceiveSpawnApp(c) \/ ReceiveClientClose(c)
    \/ ReceiveClientData(c) \/ ReceiveClientHeartbeat(c) \/ ClientDisconnects(c)

AppHostSends(a) ==
    \/ AppHostConnects(a) \/ AppHostExits(a) \/ ReceiveAppHostData(a)
    \/ ReceiveAppHostClose(a) \/ ReceiveAppHostHeartbeat(a) \/ AppHostIdlesOut(a)

TimePasses ==
    /\ \E s \in SessionIds :
         \/ "spawn_timeout" \in Events /\ SpawnDeadlinePasses(s)
         \/ "client_silence" \in Events /\ ClientFallsSilent(s)
         \/ "apphost_silence" \in Events /\ AppHostFallsSilent(s)
    /\ UNCHANGED <<client, apphost, disabled, call, monitor>>

GatewayNext ==
    \/ \E c \in Clients : ClientSends(c) \/ ClientHandlerStep(c)
    \/ \E a \in AppHosts : \/ AppHostSends(a) \/ ReceiveReady(a)
                           \/ AppHostDisconnects(a) \/ AppHostHandlerStep(a)
    \/ MonitorStep
    \/ TimePasses

GatewaySpec == GatewayInit /\ [][GatewayNext]_vars

\* Threads run, IoPool delivers what has arrived and reports closed handles,
\* and deadlines expire.  Nothing obliges a Client or an AppHost to send,
\* close or exit, nor a silent peer to stay silent.
Fairness ==
    /\ WF_vars(MonitorStep)
    /\ \A c \in Clients : WF_vars(ClientHandlerStep(c))
    /\ \A a \in AppHosts : /\ WF_vars(AppHostHandlerStep(a))
                           /\ WF_vars(ReceiveReady(a))
                           /\ WF_vars(AppHostDisconnects(a))
    /\ \A s \in SessionIds :
         WF_vars(SpawnDeadlinePasses(s)
                 /\ UNCHANGED <<client, apphost, disabled, call, monitor>>)

FairGatewaySpec == GatewaySpec /\ Fairness

-----------------------------------------------------------------------------
(* Properties.                                                             *)

\* Every stored session is found from each handle it holds, so a disconnect
\* or a waitpid() result can never miss the session it is about.  The table
\* alone does not give this: it needs the Gateway's use of it (one session
\* per Client, one READY per AppHost connection, a fresh pid per fork).
IndexComplete ==
    \A s \in SessionIds : Has(s) =>
      LET rt == by_session[s] IN
      /\ rt.client_conn # None => by_client[rt.client_conn] = s
      /\ rt.apphost_conn # None => by_apphost[rt.apphost_conn] = s
      /\ rt.apphost_pid # None => by_pid[rt.apphost_pid] = s

\* However stale the route in a frame is, what is sent along it reaches only
\* the peers of the session that the header names: the AppHost launched for it
\* or the Client that asked for it.  Who sends is not compared with it
\* (gateway.cpp:566-579), though docs/design/protocol_spec.md:366-369 finds
\* the session by the source socket: a Client that names another Client's
\* session reaches that session's AppHost.  So the sender is its session's own
\* peer for every AppHost, and for a Client that names an id it was given.
RoutedToOwnPeer ==
    /\ \A t \in Threads : At(t, "forward_send") =>
         LET s == call[t].s  a == call[t].apphost  c == call[t].client IN
         /\ a # None => /\ apphost[a].launched = s
                        /\ Knows(t, s) => client[t].session_id = s
         /\ c # None => client[c].session_id = s /\ apphost[t].launched = s
    /\ \A a \in AppHosts : apphost[a].told \subseteq {apphost[a].launched}
    /\ \A c, d \in Clients : c # d =>
         \A i \in DOMAIN client[c].sent, j \in DOMAIN client[d].sent :
            client[c].sent[i].s = client[d].sent[j].s => client[c].sent[i].s = 0

\* "Only after the AppHost socket is bound can the client safely send
\* INPUT_EVENT messages": while an acknowledged session is stored, it has an
\* AppHost to route to.
AckMeansBound ==
    \A c \in Clients, s \in SessionIds :
       Knows(c, s) /\ Has(s) => by_session[s].apphost_conn # None

\* "M3b MVP allows one active/spawning session per Client TCP connection".
OneSessionPerClient ==
    \A c \in Clients :
       Cardinality({s \in SessionIds :
          /\ Has(s) /\ by_session[s].client_conn = c
          /\ by_session[s].state \in {"SPAWNING", "ACTIVE"}}) <= 1

EndNotices(c, s) == {i \in DOMAIN client[c].sent :
    client[c].sent[i].s = s /\ client[c].sent[i].cmd \in {"ERROR_RESP", "CLOSE_SESSION"}}

\* No handler is in the middle of something about the session.
Quiet(s) == \A t \in Threads : call[t].s # s

\* No session ends behind its Client's back: when a session is out of the
\* table and no handler works on it any more, its Client was told, or it is
\* disconnected, whichever of the racing paths took the session out, and
\* whoever named it.  The one exception is a CLOSE_SESSION in which another
\* Client guesses the id before it is given out: close_session() finds nobody
\* to tell, and then removes the session that was created meanwhile.
NoSilentEnd ==
    \A c \in Clients : LET s == client[c].session_id IN
       /\ s # 0 /\ ~Has(s) /\ Quiet(s)
       /\ client[c].link = "linked" /\ c \notin disabled
       /\ ~client[c].foreclosed
       => EndNotices(c, s) # {}

\* A path that takes a session down finishes with the record: a session that
\* is stored, and that the monitor is not in the middle of failing, has an
\* AppHost that was neither killed, told to close nor disabled, and no Client
\* heard that it was closed.  A READY that comes late makes a CLOSING session
\* ACTIVE again (bind_apphost() refuses DEAD only), and calls from several
\* handlers take one session out step by step: none may leave the table
\* with a session whose ends are gone.
NothingHalfClosed ==
    \A s \in SessionIds :
       /\ Has(s)
       /\ call[Monitor].s = s => At(Monitor, "fail")
       => /\ \A a \in AppHosts : apphost[a].launched = s =>
               /\ ~apphost[a].killed /\ apphost[a].told = {}
               /\ a \notin disabled
          /\ \A c \in Clients : \A i \in DOMAIN client[c].sent :
               client[c].sent[i] # [cmd |-> "CLOSE_SESSION", s |-> s]

\* A session whose AppHost process is dead is eventually out of the table,
\* also when the monitor reaped the child before its pid was recorded and so
\* found no session for it.
DeadAppHostEndsSession ==
    \A p \in Pids, s \in SessionIds :
       apphost[p].launched = s /\ apphost[p].process \in {"exited", "reaped"}
          ~> ~Has(s)

\* A session does not stay in SPAWNING: its AppHost is bound, or the spawn
\* deadline fails it, or it is closed.
SpawningEnds ==
    \A s \in SessionIds :
       by_session[s].state = "SPAWNING" ~> by_session[s].state # "SPAWNING"


\* docs/plan/process.md:946, ClientDisconnectCleansAppHost: when the Client
\* is gone and its release is over, the AppHost launched for its session is
\* not left running without SIGTERM, CLOSE_SESSION or a disabled connection.
DisconnectStopsAppHost ==
    \A c \in Clients, a \in AppHosts :
       /\ client[c].link = "gone" /\ client[c].session_id # 0
       /\ Quiet(client[c].session_id)
       /\ apphost[a].launched = client[c].session_id
       /\ apphost[a].process = "running"
       => apphost[a].killed \/ apphost[a].told # {} \/ a \in disabled
=============================================================================
