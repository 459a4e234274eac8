--------------------------- MODULE GatewayProofs ---------------------------
(***************************************************************************)
(* The Gateway proved for any number of Clients, AppHosts and sessions,    *)
(* whatever the events around it.                                          *)
(***************************************************************************)
EXTENDS Gateway, SessionTableProofs, FiniteSetTheorems

\* Who asked for each session: o[s] is the Client whose SPAWN_APP created s.
\* The code keeps it nowhere; that there is such a map is what ties together
\* the table, the ClientSessions, what was sent and the frames.
Owners == [SessionIds -> Clients \cup {None}]

Releasing == {"release", "release_remove", "release_tell"}
Spawning  == {"fork", "set_pid", "spawn_undo", "spawn_error"}

\* Where a handler is for the session id in the header of a packet.
Naming == {"close", "close_pid", "close_remove", "close_client",
           "close_apphost", "close_kill", "forward", "forward_send"}

\* What the table stores agrees with the ends of the connections.
Stored(o) ==
    \A s \in SessionIds : Has(s) =>
      LET rt == by_session[s] IN
      /\ rt.client_conn = o[s] /\ o[s] \in Clients
      /\ client[o[s]].session_id = s
      /\ \A a \in AppHosts : rt.apphost_conn = a =>
           /\ apphost[a].launched = s
           /\ apphost[a].session_id = s \/ At(a, "ready_route")
      /\ \A p \in Pids : rt.apphost_pid = p => apphost[p].launched = s

ClientsOK(o) ==
    \A c \in Clients :
      LET s == client[c].session_id IN
      /\ s # 0 => s < next_session_id /\ o[s] = c
      /\ client[c].link = "none" => s = 0 /\ At(c, "idle")
      /\ \A i \in DOMAIN client[c].sent :
           LET x == client[c].sent[i].s IN
           x # 0 => x < next_session_id /\ o[x] = c

AppHostsOK(o) ==
    \A a \in AppHosts :
      LET s == apphost[a].launched IN
      /\ apphost[a].process = "none" => s = 0 /\ apphost[a].link = "none"
      /\ apphost[a].link = "none" => At(a, "idle")
      /\ apphost[a].process # "none" => s # 0
      /\ apphost[a].session_id \in {0, s}
      /\ apphost[a].told \subseteq {s}
      /\ s # 0 => /\ s < next_session_id
                  /\ o[s] \in Clients /\ client[o[s]].session_id = s

\* A frame names only what belongs to its session, however stale it is.  The
\* session may be one that a Client names before it was given out; it has no
\* route then.
FrameOK(o, t) ==
    LET f == call[t] IN
    /\ \/ f.s < next_session_id
       \/ /\ t \in Clients /\ f.at \in Naming
          /\ f.client = None /\ f.apphost = None /\ f.pid = None
    /\ f.at = "idle" => f = Idle
    /\ f.client # None => f.s # 0 /\ o[f.s] = f.client
    /\ f.apphost # None => f.s # 0 /\ apphost[f.apphost].launched = f.s
    /\ f.pid # None => f.s # 0 /\ apphost[f.pid].launched = f.s
    /\ f.at \in {"close_pid", "close_remove"} /\ Has(f.s)
         => f.client # None \/ client[o[f.s]].foreclosed

ClientFrameOK(c) ==
    LET f == call[c] IN
    /\ f.at = "spawn" => f.client = None /\ f.apphost = None /\ f.pid = None
    /\ f.at \in Spawning => f.s # 0 /\ f.s = client[c].session_id
    /\ f.at = "set_pid" => f.pid # None
    /\ f.at \in Spawning \ {"set_pid"} => \A a \in AppHosts : apphost[a].launched # f.s
    /\ f.at = "spawn_error" => ~Has(f.s)
    /\ f.at \in Releasing => client[c].link = "gone" /\ f.s = client[c].session_id
    /\ f.at \in {"forward", "forward_send"} => f.client = None

AppHostFrameOK(a) ==
    LET f == call[a] IN
    /\ f.at \in {"ready", "ready_route", "ready_ack", "forward", "forward_send"}
         => f.s = apphost[a].launched
    /\ f.at \in {"ready_route", "ready_ack"} /\ Has(f.s)
         => by_session[f.s].apphost_conn # None
    /\ f.at = "forward_send" => f.apphost = None
    /\ f.at \in Releasing => f.s = apphost[a].session_id
    /\ f.at = "release_remove" /\ Has(f.s) => f.client # None

MonitorOK(o) ==
    LET f == call[Monitor] IN
    /\ \A d \in monitor.due : d[1] < next_session_id
    /\ f.at \in {"fail_notify", "fail_apphost", "fail_client"} => f.client # None
    /\ f.at \in {"fail_kill", "fail_remove"} => f.s # 0 /\ o[f.s] \in disabled
    /\ f.at # "forward_send"

\* A handler that is about to tell Client c that session s has ended.
WillTell(t, c, s) ==
    /\ call[t].s = s
    /\ \/ call[t].client = c /\ At(t, "close_client")
       \/ call[t].client = c /\ t \in AppHosts /\ At(t, "release_tell")
       \/ t = c /\ At(c, "spawn_error")

\* NoSilentEnd while handlers are under way.
EndIsTold ==
    \A c \in Clients, s \in SessionIds :
       /\ client[c].session_id = s /\ ~Has(s)
       /\ client[c].link = "linked" /\ c \notin disabled
       /\ ~client[c].foreclosed
       => EndNotices(c, s) # {} \/ \E t \in Threads : WillTell(t, c, s)

OwnedBy(o) ==
    /\ Stored(o) /\ ClientsOK(o) /\ AppHostsOK(o) /\ MonitorOK(o)
    /\ \A t \in Threads : FrameOK(o, t)
    /\ \A c \in Clients : ClientFrameOK(c)
    /\ \A a \in AppHosts : AppHostFrameOK(a)

\* The inductive invariant, for a map of owners.
InvFor(o) ==
    /\ GatewayTypeOK /\ TableInv
    /\ IndexComplete /\ AckMeansBound /\ EndIsTold
    /\ o \in Owners /\ OwnedBy(o)

GatewayInv == \E o \in Owners : InvFor(o)

-----------------------------------------------------------------------------
(* What the calls of the table leave of it.                                *)

\* The table's sessions and where they lead are what they were.
TableKept ==
    /\ UNCHANGED <<next_session_id, by_client, by_apphost, by_pid>>
    /\ \A x \in SessionIds :
         /\ by_session'[x].client_conn = by_session[x].client_conn
         /\ by_session'[x].apphost_conn = by_session[x].apphost_conn
         /\ by_session'[x].apphost_pid = by_session[x].apphost_pid
    /\ \A x : Has(x)' <=> Has(x)

\* Sessions may be gone, and where the others lead is what it was.
TableShrunk ==
    /\ next_session_id' = next_session_id
    /\ \A x : Has(x)' => Has(x)
    /\ \A x \in SessionIds : Has(x)' =>
         /\ by_session'[x].client_conn = by_session[x].client_conn
         /\ by_session'[x].apphost_conn = by_session[x].apphost_conn
         /\ by_session'[x].apphost_pid = by_session[x].apphost_pid

LEMMA KeptIsShrunk == TableKept => TableShrunk
  BY DEF TableKept, TableShrunk

LEMMA UnchangedIsKept == UNCHANGED tableVars => TableKept
  BY DEF TableKept, tableVars, Has

\* The marks, the transition to CLOSING and the clock.
LEMMA TouchIsKept ==
    ASSUME TableTypeOK, NEW s,
           \/ MarkClientSeen(s) \/ MarkAppHostSeen(s) \/ TransitionToClosing(s)
           \/ SpawnDeadlinePasses(s) \/ ClientFallsSilent(s)
           \/ AppHostFallsSilent(s)
    PROVE  TableKept
<1>1. CASE UNCHANGED tableVars
  BY <1>1, UnchangedIsKept
<1>2. CASE ~UNCHANGED tableVars
  <2>1. /\ Has(s) /\ s \in SessionIds
        /\ UNCHANGED <<next_session_id, by_client, by_apphost, by_pid>>
    BY <1>2 DEF MarkClientSeen, MarkAppHostSeen, TransitionToClosing, Closable,
                SpawnDeadlinePasses, ClientFallsSilent, AppHostFallsSilent, Has
  <2>2. /\ by_session'[s].state # "ABSENT"
        /\ by_session'[s].client_conn = by_session[s].client_conn
        /\ by_session'[s].apphost_conn = by_session[s].apphost_conn
        /\ by_session'[s].apphost_pid = by_session[s].apphost_pid
    BY <1>2, <2>1
    DEF MarkClientSeen, MarkAppHostSeen, TransitionToClosing, Closable, Has,
        SpawnDeadlinePasses, ClientFallsSilent, AppHostFallsSilent, TableTypeOK,
        SessionRuntime
  <2>3. \A x \in SessionIds : x # s => by_session'[x] = by_session[x]
    BY <1>2, <2>1
    DEF MarkClientSeen, MarkAppHostSeen, TransitionToClosing, Closable,
        SpawnDeadlinePasses, ClientFallsSilent, AppHostFallsSilent, TableTypeOK
  <2> QED BY <2>1, <2>2, <2>3 DEF TableKept, Has
<1> QED BY <1>1, <1>2

\* RemoveSession() takes out one session.
LEMMA RemoveIsShrunk ==
    ASSUME TableTypeOK, NEW s, RemoveSession(s)
    PROVE  TableShrunk /\ \A x : Has(x)' <=> Has(x) /\ x # s
<1>1. CASE Has(s)
  <2>1. /\ by_session' = [by_session EXCEPT ![s] = NoSession] /\ s \in SessionIds
        /\ next_session_id' = next_session_id
    BY <1>1 DEF RemoveSession, Has
  <2>2. \A x \in SessionIds : by_session'[x] = IF x = s THEN NoSession ELSE by_session[x]
    BY <2>1 DEF TableTypeOK
  <2> QED BY <2>1, <2>2, NoSessionType DEF TableShrunk, Has
<1>2. CASE ~Has(s)
  <2>1. UNCHANGED tableVars
    BY <1>2 DEF RemoveSession
  <2> QED BY <1>2, <2>1 DEF tableVars, TableShrunk, Has
<1> QED BY <1>1, <1>2

-----------------------------------------------------------------------------
(* The Gateway's steps on the session table.                               *)

LEMMA CallHasType ==
    ASSUME GatewayTypeOK, NEW t \in Threads
    PROVE  /\ call[t].s \in SessionIds \cup {0}
           /\ call[t].client \in Clients \cup {None}
           /\ call[t].apphost \in AppHosts \cup {None}
           /\ call[t].pid \in Pids \cup {None}
           /\ call[t].notify \in BOOLEAN
  BY DEF GatewayTypeOK, Frame

\* A call for session 0, which no session has, does nothing.
LEMMA NullCalls ==
    ASSUME NEW s, s \notin SessionIds
    PROVE  /\ RemoveSession(s) => UNCHANGED tableVars
           /\ MarkClientSeen(s) => UNCHANGED tableVars
           /\ MarkAppHostSeen(s) => UNCHANGED tableVars
           /\ TransitionToClosing(s) => UNCHANGED tableVars
           /\ \A a : BindAppHost(s, a) => UNCHANGED tableVars
           /\ \A p : SetAppHostPid(s, p) => UNCHANGED tableVars
  BY DEF RemoveSession, MarkClientSeen, MarkAppHostSeen, TransitionToClosing,
         BindAppHost, SetAppHostPid, Has, Bindable, Closable

\* A handler's call of the table, for whatever session its frame has.
LEMMA CallIsTableStep ==
    ASSUME NEW s,
           \/ RemoveSession(s) \/ MarkClientSeen(s) \/ MarkAppHostSeen(s)
           \/ TransitionToClosing(s)
           \/ \E a \in AppHosts : BindAppHost(s, a)
           \/ \E p \in Pids : SetAppHostPid(s, p)
    PROVE  [TableNext]_tableVars
<1>1. CASE s \in SessionIds
  BY <1>1 DEF TableNext, TableStep
<1>2. CASE s \notin SessionIds
  BY <1>2, NullCalls
<1> QED BY <1>1, <1>2

LEMMA ClientStepOnTable ==
    ASSUME NEW o, InvFor(o), NEW c \in Clients, ClientSends(c) \/ ClientHandlerStep(c)
    PROVE  [TableNext]_tableVars
<1> USE GatewayAssumption DEF Threads
<1>1. CASE ClientSends(c)
  <2>1. CASE AcceptClient(c) \/ ClientDisconnects(c)
    BY <2>1 DEF AcceptClient, ClientDisconnects
  <2>2. CASE ReceiveSpawnApp(c) \/ ReceiveClientClose(c) \/ ReceiveClientData(c)
             \/ ReceiveClientHeartbeat(c)
    <3>1. \/ MarkClientSeen(client[c].session_id)
          \/ UNCHANGED tableVars
      BY <2>2 DEF ReceiveSpawnApp, ReceiveClientClose, ReceiveClientData,
                  ReceiveClientHeartbeat, ClientReceives
    <3> QED BY <3>1, CallIsTableStep
  <2> QED BY <1>1, <2>1, <2>2 DEF ClientSends
<1>2. CASE HandleSpawnApp(c)
  BY <1>2 DEF HandleSpawnApp, TableNext
<1>3. CASE RecordPid(c)
  <2>1. call[c].pid \in Pids
    BY <1>3, CallHasType DEF InvFor, OwnedBy, ClientFrameOK, RecordPid, At
  <2> QED BY <1>3, <2>1, CallIsTableStep DEF RecordPid
<1>4. CASE UndoSpawn(c) \/ ReleaseClientRemove(c) \/ CloseRemove(c)
  BY <1>4, CallIsTableStep DEF UndoSpawn, ReleaseClientRemove, CloseRemove
<1>5. CASE ReleaseClientNoSession(c)
  BY <1>5 DEF ReleaseClientNoSession, TableNext
<1>6. CASE \/ Fork(c) \/ ReportSpawnFailure(c) \/ ReleaseClientFind(c)
           \/ ReleaseClientTell(c) \/ CloseFind(c) \/ CloseGetPid(c)
           \/ CloseTellClient(c) \/ CloseTellAppHost(c) \/ CloseTerminate(c)
           \/ Forward(c) \/ ForwardSend(c)
  BY <1>6 DEF Fork, ReportSpawnFailure, ReleaseClientFind, ReleaseClientTell,
              CloseFind, CloseGetPid, CloseTellClient, CloseTellAppHost,
              CloseTerminate, Forward, ForwardSend
<1> QED BY <1>1, <1>2, <1>3, <1>4, <1>5, <1>6 DEF ClientHandlerStep, CloseOrForward

LEMMA AppHostStepOnTable ==
    ASSUME NEW a \in AppHosts,
           \/ AppHostSends(a) \/ ReceiveReady(a) \/ AppHostDisconnects(a)
           \/ AppHostHandlerStep(a)
    PROVE  [TableNext]_tableVars
<1>1. CASE AppHostConnects(a) \/ AppHostExits(a) \/ AppHostIdlesOut(a) \/ AppHostDisconnects(a)
  BY <1>1 DEF AppHostConnects, AppHostExits, AppHostIdlesOut, AppHostDisconnects,
              ReleaseAppHost
<1>2. CASE \/ ReceiveReady(a) \/ ReceiveAppHostData(a) \/ ReceiveAppHostClose(a)
           \/ ReceiveAppHostHeartbeat(a)
  BY <1>2, CallIsTableStep
  DEF ReceiveReady, ReceiveAppHostData, ReceiveAppHostClose,
      ReceiveAppHostHeartbeat, AppHostReceives
<1>3. CASE HandleReady(a)
  BY <1>3, CallIsTableStep DEF HandleReady
<1>4. CASE ReleaseAppHostNoSession(a)
  BY <1>4 DEF ReleaseAppHostNoSession, TableNext
<1>5. CASE ReleaseAppHostRemove(a) \/ CloseRemove(a)
  BY <1>5, CallIsTableStep DEF ReleaseAppHostRemove, CloseRemove
<1>6. CASE \/ ReadyRoute(a) \/ ReadyAck(a) \/ ReleaseAppHostFind(a)
           \/ ReleaseAppHostTell(a) \/ CloseFind(a) \/ CloseGetPid(a)
           \/ CloseTellClient(a) \/ CloseTellAppHost(a) \/ CloseTerminate(a)
           \/ Forward(a) \/ ForwardSend(a)
  BY <1>6 DEF ReadyRoute, ReadyAck, ReleaseAppHostFind, ReleaseAppHostTell,
              CloseFind, CloseGetPid, CloseTellClient, CloseTellAppHost,
              CloseTerminate, Forward, ForwardSend
<1> QED BY <1>1, <1>2, <1>3, <1>4, <1>5, <1>6
        DEF AppHostSends, AppHostHandlerStep, CloseOrForward

LEMMA MonitorStepOnTable ==
    ASSUME MonitorStep \/ TimePasses
    PROVE  [TableNext]_tableVars
<1>1. CASE FailBegin \/ FailRemove
  BY <1>1, CallIsTableStep DEF FailBegin, FailRemove
<1>2. CASE TimePasses
  BY <1>2 DEF TimePasses, TableNext, TableStep
<1>3. CASE \/ Reap \/ NextExit \/ Snapshot \/ NextDue \/ Sleep \/ FailNotify
           \/ FailDisableAppHost \/ FailDisableClient \/ FailTerminate
  BY <1>3 DEF Reap, NextExit, Snapshot, NextDue, Sleep, FailNotify,
              FailDisableAppHost, FailDisableClient, FailTerminate
<1> QED BY <1>1, <1>2, <1>3 DEF MonitorStep

\* Whatever handlers are under way, a step of the Gateway is a step of the
\* table or leaves it alone.
LEMMA StepOnTable ==
    ASSUME NEW o, InvFor(o), [GatewayNext]_vars
    PROVE  [TableNext]_tableVars /\ TableInv'
<1>1. [TableNext]_tableVars
  <2>1. CASE UNCHANGED vars
    BY <2>1 DEF vars
  <2> QED BY <2>1, ClientStepOnTable, AppHostStepOnTable, MonitorStepOnTable
          DEF GatewayNext
<1> QED BY <1>1, NextPreserves DEF InvFor

-----------------------------------------------------------------------------
(* What a step of one thread leaves of what the others rely on.            *)

\* Sessions end but never return under the same id, their routes stay, a
\* launched process stays launched for its session, a disabled handle stays
\* disabled, and only a connection's own thread changes its record.
Rely(t) ==
    /\ next_session_id' = next_session_id
    /\ \A x \in SessionIds : Has(x)' =>
         /\ Has(x)
         /\ by_session[x].apphost_conn # None => by_session'[x].apphost_conn # None
    /\ \A u \in Threads \ {t} : call'[u] = call[u]
    /\ \A c \in Clients \ {t} :
         /\ client'[c].session_id = client[c].session_id
         /\ client[c].link = "gone" => client'[c].link = "gone"
    /\ \A c \in Clients : client'[c].foreclosed = client[c].foreclosed
    /\ \A a \in AppHosts :
         /\ apphost[a].launched # 0 => apphost'[a].launched = apphost[a].launched
         /\ apphost'[a].launched # apphost[a].launched =>
              t \in Clients /\ At(t, "fork") /\ apphost'[a].launched = call[t].s
    /\ \A a \in AppHosts \ {t} : apphost'[a].session_id = apphost[a].session_id
    /\ disabled \subseteq disabled'

\* A frame that stays is as good as it was.
LEMMA FramesStay ==
    ASSUME NEW o, InvFor(o), NEW t, Rely(t), NEW u \in Threads \ {t}
    PROVE  FrameOK(o, u)'
<1> USE DEF FrameOK, Rely
<1>1. FrameOK(o, u) /\ call'[u] = call[u] /\ next_session_id' = next_session_id
  BY DEF InvFor, OwnedBy
<1>2. Has(call[u].s)' =>
        /\ Has(call[u].s)
        /\ client'[o[call[u].s]].foreclosed = client[o[call[u].s]].foreclosed
  BY DEF Has, InvFor, OwnedBy, Stored
<1>3. /\ call[u].apphost # None => call[u].apphost \in AppHosts
      /\ call[u].pid # None => call[u].pid \in AppHosts
  BY CallHasType, GatewayAssumption DEF InvFor
<1>4. /\ call[u].apphost # None =>
           apphost'[call[u].apphost].launched = apphost[call[u].apphost].launched
      /\ call[u].pid # None =>
           apphost'[call[u].pid].launched = apphost[call[u].pid].launched
  BY <1>1, <1>3
<1> QED BY <1>1, <1>2, <1>4

LEMMA ClientFramesStay ==
    ASSUME NEW o, InvFor(o), NEW t, Rely(t), NEW c \in Clients \ {t}
    PROVE  ClientFrameOK(c)'
<1> USE DEF ClientFrameOK
<1>1. /\ ClientFrameOK(c) /\ call'[c] = call[c]
      /\ client'[c].session_id = client[c].session_id
      /\ client[c].link = "gone" => client'[c].link = "gone"
      /\ Has(call[c].s)' => Has(call[c].s)
  BY DEF InvFor, OwnedBy, Rely, Threads, Has
<1>2. ASSUME call[c].at \in Spawning \ {"set_pid"}, NEW a \in AppHosts
      PROVE  apphost'[a].launched # call[c].s
  <2>1. /\ call[c].s = client[c].session_id /\ call[c].s # 0
        /\ apphost[a].launched # call[c].s
    BY <1>1, <1>2 DEF Spawning
  <2>2. CASE t \in Clients /\ At(t, "fork") /\ apphost'[a].launched = call[t].s
    <3>1. client[t].session_id = call[t].s
      BY <2>2 DEF InvFor, OwnedBy, At, Spawning
    <3>2. client[t].session_id # client[c].session_id
      BY <2>1, <2>2 DEF InvFor, OwnedBy, ClientsOK
    <3> QED BY <2>1, <2>2, <3>1, <3>2
  <2> QED BY <2>1, <2>2 DEF Rely
<1> QED BY <1>1, <1>2

LEMMA AppHostFramesStay ==
    ASSUME NEW o, InvFor(o), NEW t, Rely(t), NEW a \in AppHosts \ {t}
    PROVE  AppHostFrameOK(a)'
<1> USE DEF AppHostFrameOK
<1>1. /\ AppHostFrameOK(a) /\ call'[a] = call[a]
      /\ apphost'[a].session_id = apphost[a].session_id
      /\ Has(call[a].s)' => /\ Has(call[a].s)
                            /\ by_session[call[a].s].apphost_conn # None =>
                                 by_session'[call[a].s].apphost_conn # None
  BY DEF InvFor, OwnedBy, Rely, Threads, Has
<1>2. apphost[a].launched = 0 => At(a, "idle")
  BY DEF InvFor, OwnedBy, AppHostsOK
<1>3. call[a].at # "idle" => apphost'[a].launched = apphost[a].launched
  BY <1>2 DEF Rely, At
<1> QED BY <1>1, <1>3 DEF Releasing

LEMMA MonitorStays ==
    ASSUME NEW o, InvFor(o), NEW t, Rely(t), t # Monitor, monitor' = monitor
    PROVE  MonitorOK(o)'
<1>1. call'[Monitor] = call[Monitor]
  BY DEF Rely, Threads
<1> QED BY <1>1 DEF InvFor, OwnedBy, MonitorOK, Rely

\* What is known of every frame after a step of t: the others rely, and t's
\* own is the step's to show.
Frames(o) ==
    /\ \A t \in Threads : FrameOK(o, t)
    /\ \A c \in Clients : ClientFrameOK(c)
    /\ \A a \in AppHosts : AppHostFrameOK(a)
    /\ MonitorOK(o)

OwnFrame(o, t) ==
    /\ t \in Threads => FrameOK(o, t)
    /\ t \in Clients => ClientFrameOK(t)
    /\ t \in AppHosts => AppHostFrameOK(t)

LEMMA FramesCarry ==
    ASSUME NEW o, InvFor(o), NEW t, Rely(t), OwnFrame(o, t)',
           (monitor' = monitor /\ t # Monitor) \/ MonitorOK(o)'
    PROVE  Frames(o)'
<1>1. \A u \in Threads : FrameOK(o, u)'
  BY FramesStay DEF OwnFrame
<1>2. \A c \in Clients : ClientFrameOK(c)'
  BY ClientFramesStay DEF OwnFrame
<1>3. \A a \in AppHosts : AppHostFrameOK(a)'
  BY AppHostFramesStay DEF OwnFrame
<1> QED BY <1>1, <1>2, <1>3, MonitorStays DEF Frames

\* The end of a session stays told, or somebody still has to tell it.
LEMMA TellingCarries ==
    ASSUME EndIsTold, NEW t,
           \A u \in Threads \ {t} : call'[u] = call[u],
           disabled \subseteq disabled',
           \A c \in Clients : client'[c].foreclosed = client[c].foreclosed,
           \A c \in Clients, s \in SessionIds :
             client'[c].session_id = s /\ client'[c].link = "linked" =>
               \/ Has(s)' \/ c \in disabled' \/ client[c].foreclosed
               \/ /\ client[c].session_id = s /\ client[c].link = "linked"
                  /\ EndNotices(c, s) # {} => EndNotices(c, s)' # {}
                  /\ Has(s) \/ WillTell(t, c, s) =>
                       \/ EndNotices(c, s)' # {}
                       \/ (t \in Threads /\ WillTell(t, c, s)')
    PROVE  EndIsTold'
<1>1. ASSUME NEW c \in Clients, NEW s \in SessionIds,
             client'[c].session_id = s, ~Has(s)',
             client'[c].link = "linked", c \notin disabled',
             ~client'[c].foreclosed
      PROVE  EndNotices(c, s)' # {} \/ \E u \in Threads : WillTell(u, c, s)'
  <2>1. /\ client[c].session_id = s /\ client[c].link = "linked" /\ c \notin disabled
        /\ ~client[c].foreclosed
        /\ EndNotices(c, s) # {} => EndNotices(c, s)' # {}
        /\ Has(s) \/ WillTell(t, c, s) =>
             EndNotices(c, s)' # {} \/ (t \in Threads /\ WillTell(t, c, s)')
    BY <1>1
  <2>2. CASE Has(s)
    BY <2>1, <2>2
  <2>3. CASE ~Has(s)
    <3>1. EndNotices(c, s) # {} \/ \E u \in Threads : WillTell(u, c, s)
      BY <2>1, <2>3 DEF EndIsTold
    <3>2. ASSUME NEW u \in Threads, WillTell(u, c, s), u # t
          PROVE  WillTell(u, c, s)'
      BY <3>2 DEF WillTell, At
    <3> QED BY <2>1, <3>1, <3>2
  <2> QED BY <2>2, <2>3
<1> QED BY <1>1 DEF EndIsTold, SessionIds, Threads

-----------------------------------------------------------------------------
(* What is sent.                                                           *)

\* Client c may have got one more notice, about a session of its own, and an
\* acknowledgement only of a session that is bound.
Gets(o, c) ==
    \/ client'[c].sent = client[c].sent
    \/ \E n \in Notice :
         /\ client'[c].sent = Append(client[c].sent, n)
         /\ n.s # 0 => n.s < next_session_id /\ o[n.s] = c
         /\ n.cmd = "SESSION_ACK" /\ Has(n.s)' =>
              by_session[n.s].apphost_conn # None

\* A notice that is appended: it is found, and what was there is found again.
LEMMA Appended ==
    ASSUME NEW q \in Seq(Notice), NEW n \in Notice
    PROVE  LET r == Append(q, n) IN
           /\ r \in Seq(Notice)
           /\ \A i \in DOMAIN q : i \in DOMAIN r /\ r[i] = q[i]
           /\ Len(q) + 1 \in DOMAIN r /\ r[Len(q) + 1] = n
           /\ \A i \in DOMAIN r : i \in DOMAIN q \/ i = Len(q) + 1
  OBVIOUS

LEMMA NoticesGrow ==
    ASSUME GatewayTypeOK, NEW o, NEW c \in Clients, NEW s, Gets(o, c)
    PROVE  EndNotices(c, s) # {} => EndNotices(c, s)' # {}
<1> SUFFICES ASSUME NEW i \in DOMAIN client[c].sent, client[c].sent[i].s = s,
                    client[c].sent[i].cmd \in {"ERROR_RESP", "CLOSE_SESSION"}
             PROVE  EndNotices(c, s)' # {}
  BY DEF EndNotices
<1>1. client[c].sent \in Seq(Notice)
  BY DEF GatewayTypeOK, ClientSession
<1>2. i \in DOMAIN client'[c].sent /\ client'[c].sent[i] = client[c].sent[i]
  BY <1>1, Appended DEF Gets
<1>3. i \in EndNotices(c, s)'
  BY <1>2 DEF EndNotices
<1> QED BY <1>3

\* ToClient() that gets through: the Client has the notice.
LEMMA NoticeIsFound ==
    ASSUME GatewayTypeOK, NEW c \in Clients, NEW n \in Notice,
           client'[c].sent = Append(client[c].sent, n),
           n.cmd \in {"ERROR_RESP", "CLOSE_SESSION"}
    PROVE  EndNotices(c, n.s)' # {}
<1> DEFINE i == Len(client[c].sent) + 1
<1>1. client[c].sent \in Seq(Notice)
  BY DEF GatewayTypeOK, ClientSession
<1>2. i \in DOMAIN client'[c].sent /\ client'[c].sent[i] = n
  BY <1>1, Appended
<1>3. i \in EndNotices(c, n.s)'
  BY <1>2 DEF EndNotices
<1> QED BY <1>3

LEMMA Sending ==
    ASSUME GatewayTypeOK, NEW c \in Clients \cup {None},
           NEW cmd \in {"SESSION_ACK", "ERROR_RESP", "CLOSE_SESSION"},
           NEW s \in SessionIds \cup {0}, ToClient(c, cmd, s)
    PROVE  /\ client' \in [Clients -> ClientSession]
           /\ \A d \in Clients :
                /\ client'[d].link = client[d].link
                /\ client'[d].session_id = client[d].session_id
                /\ client'[d].foreclosed = client[d].foreclosed
                /\ client'[d].sent =
                     IF d = c /\ client[d].link = "linked" /\ d \notin disabled
                     THEN Append(client[d].sent, [cmd |-> cmd, s |-> s])
                     ELSE client[d].sent
<1> DEFINE n == [cmd |-> cmd, s |-> s]
<1>1. n \in Notice
  BY DEF Notice
<1>2. CASE c \in Clients /\ client[c].link = "linked" /\ c \notin disabled
  <2> DEFINE r == [client[c] EXCEPT !.sent = Append(@, n)]
  <2>1. client[c] \in ClientSession
    BY <1>2 DEF GatewayTypeOK
  <2>2. Append(client[c].sent, n) \in Seq(Notice)
    BY <1>1, <2>1, Appended DEF ClientSession
  <2>3. /\ r \in ClientSession /\ r.link = client[c].link
        /\ r.session_id = client[c].session_id /\ r.foreclosed = client[c].foreclosed
        /\ r.sent = Append(client[c].sent, n)
    BY <2>1, <2>2 DEF ClientSession
  <2>4. client' = [client EXCEPT ![c] = r]
    BY <1>2, TableAssumption DEF ToClient
  <2> HIDE DEF r, n
  <2> QED BY <1>2, <2>3, <2>4 DEF GatewayTypeOK, n
<1>3. CASE ~(c \in Clients /\ client[c].link = "linked" /\ c \notin disabled)
  BY <1>3 DEF ToClient, GatewayTypeOK
<1> QED BY <1>2, <1>3

LEMMA Telling ==
    ASSUME GatewayTypeOK, NEW a \in AppHosts \cup {None},
           NEW s \in SessionIds \cup {0}, a # None => s # 0, TellAppHost(a, s)
    PROVE  /\ apphost' \in [AppHosts -> AppHostSession]
           /\ \A b \in AppHosts :
                /\ apphost'[b].process = apphost[b].process
                /\ apphost'[b].launched = apphost[b].launched
                /\ apphost'[b].link = apphost[b].link
                /\ apphost'[b].session_id = apphost[b].session_id
                /\ apphost'[b].killed = apphost[b].killed
                /\ apphost'[b].told \subseteq
                     apphost[b].told \cup (IF a = b THEN {s} ELSE {})
<1>1. CASE a \in AppHosts /\ apphost[a].link = "linked" /\ a \notin disabled
  <2> DEFINE r == [apphost[a] EXCEPT !.told = @ \cup {s}]
  <2>1. apphost[a] \in AppHostSession
    BY <1>1 DEF GatewayTypeOK
  <2>2. /\ r \in AppHostSession /\ r.process = apphost[a].process
        /\ r.launched = apphost[a].launched /\ r.link = apphost[a].link
        /\ r.session_id = apphost[a].session_id /\ r.killed = apphost[a].killed
        /\ r.told = apphost[a].told \cup {s}
    BY <1>1, <2>1, TableAssumption DEF AppHostSession
  <2>3. apphost' = [apphost EXCEPT ![a] = r]
    BY <1>1, TableAssumption DEF TellAppHost
  <2> HIDE DEF r
  <2> QED BY <1>1, <2>2, <2>3 DEF GatewayTypeOK
<1>2. CASE ~(a \in AppHosts /\ apphost[a].link = "linked" /\ a \notin disabled)
  BY <1>2 DEF TellAppHost, GatewayTypeOK
<1> QED BY <1>1, <1>2

LEMMA Killing ==
    ASSUME GatewayTypeOK, NEW p \in Pids \cup {None}, Terminate(p)
    PROVE  /\ apphost' \in [AppHosts -> AppHostSession]
           /\ \A b \in AppHosts :
                /\ apphost'[b].process = apphost[b].process
                /\ apphost'[b].launched = apphost[b].launched
                /\ apphost'[b].link = apphost[b].link
                /\ apphost'[b].session_id = apphost[b].session_id
                /\ apphost'[b].told = apphost[b].told
                /\ b # p => apphost'[b].killed = apphost[b].killed
<1>1. CASE p = None
  BY <1>1 DEF Terminate, GatewayTypeOK
<1>2. CASE p \in AppHosts
  <2> DEFINE r == [apphost[p] EXCEPT !.killed = TRUE]
  <2>1. apphost[p] \in AppHostSession
    BY <1>2 DEF GatewayTypeOK
  <2>2. /\ r \in AppHostSession /\ r.process = apphost[p].process
        /\ r.launched = apphost[p].launched /\ r.link = apphost[p].link
        /\ r.session_id = apphost[p].session_id /\ r.told = apphost[p].told
    BY <2>1 DEF AppHostSession
  <2>3. apphost' = [apphost EXCEPT ![p] = r]
    BY <1>2, TableAssumption DEF Terminate
  <2> HIDE DEF r
  <2> QED BY <1>2, <2>2, <2>3 DEF GatewayTypeOK
<1> QED BY <1>1, <1>2, GatewayAssumption

-----------------------------------------------------------------------------
(* Steps that only shrink the table, send, or move a handler on.           *)

\* Nobody is linked, launched or bound; what is sent goes where it belongs.
Move(o, t) ==
    /\ TableShrunk
    /\ \A u \in Threads \ {t} : call'[u] = call[u]
    /\ \A c \in Clients : /\ client'[c].link = client[c].link
                          /\ client'[c].session_id = client[c].session_id
                          /\ client'[c].foreclosed = client[c].foreclosed
                          /\ Gets(o, c)
    /\ \A a \in AppHosts :
         /\ apphost'[a].process = "none" <=> apphost[a].process = "none"
         /\ apphost'[a].launched = apphost[a].launched
         /\ apphost'[a].link = apphost[a].link
         /\ apphost'[a].session_id = apphost[a].session_id
         /\ apphost'[a].told \subseteq apphost[a].told \cup {apphost[a].launched}
    /\ disabled \subseteq disabled'
    /\ \A c \in Clients : client[c].link = "none" /\ At(c, "idle") => At(c, "idle")'
    /\ \A a \in AppHosts : apphost[a].link = "none" /\ At(a, "idle") => At(a, "idle")'
    /\ t \in AppHosts => ~At(t, "ready_route")

LEMMA MoveIsRely == ASSUME NEW o, NEW t, Move(o, t) PROVE Rely(t)
<1>1. \A x \in SessionIds : Has(x)' =>
        /\ Has(x)
        /\ by_session[x].apphost_conn # None => by_session'[x].apphost_conn # None
  BY DEF Move, TableShrunk
<1> QED BY <1>1 DEF Move, Rely, TableShrunk

\* The routes of the sessions that are left lead where they led.
LEMMA StoredCarries ==
    ASSUME NEW o, InvFor(o), TableShrunk, NEW t,
           \A u \in Threads \ {t} : call'[u] = call[u],
           \A c \in Clients : \/ client'[c].session_id = client[c].session_id
                              \/ client'[c].session_id = 0 /\ ~Has(client[c].session_id),
           \A a \in AppHosts :
             /\ apphost[a].launched # 0 => apphost'[a].launched = apphost[a].launched
             /\ apphost'[a].session_id = apphost[a].session_id,
           t \in AppHosts => ~At(t, "ready_route")
    PROVE  Stored(o)'
<1> SUFFICES ASSUME NEW s \in SessionIds, Has(s)'
             PROVE  LET rt == by_session'[s] IN
                    /\ rt.client_conn = o[s] /\ o[s] \in Clients
                    /\ client'[o[s]].session_id = s
                    /\ \A a \in AppHosts : rt.apphost_conn = a =>
                         /\ apphost'[a].launched = s
                         /\ apphost'[a].session_id = s \/ At(a, "ready_route")'
                    /\ \A p \in Pids : rt.apphost_pid = p => apphost'[p].launched = s
  BY DEF Stored, SessionIds
<1>1. /\ Has(s)
      /\ by_session'[s].client_conn = by_session[s].client_conn
      /\ by_session'[s].apphost_conn = by_session[s].apphost_conn
      /\ by_session'[s].apphost_pid = by_session[s].apphost_pid
  BY DEF TableShrunk
<1>2. /\ by_session[s].client_conn = o[s] /\ o[s] \in Clients
      /\ client[o[s]].session_id = s
      /\ \A a \in AppHosts : by_session[s].apphost_conn = a =>
           /\ apphost[a].launched = s
           /\ apphost[a].session_id = s \/ At(a, "ready_route")
      /\ \A p \in Pids : by_session[s].apphost_pid = p => apphost[p].launched = s
  BY <1>1 DEF InvFor, OwnedBy, Stored
<1>3. s # 0 /\ client'[o[s]].session_id = s
  BY <1>1, <1>2 DEF SessionIds
<1>4. \A a \in AppHosts : At(a, "ready_route") => At(a, "ready_route")'
  BY DEF At, Threads
<1>5. \A p \in Pids : p \in AppHosts
  BY GatewayAssumption
<1> QED BY <1>1, <1>2, <1>3, <1>4, <1>5

LEMMA AppHostsCarry ==
    ASSUME NEW o, InvFor(o), NEW t, Move(o, t)
    PROVE  AppHostsOK(o)'
<1> SUFFICES ASSUME NEW a \in AppHosts
             PROVE  LET s == apphost'[a].launched IN
                    /\ apphost'[a].process = "none" => s = 0 /\ apphost'[a].link = "none"
                    /\ apphost'[a].link = "none" => At(a, "idle")'
                    /\ apphost'[a].process # "none" => s # 0
                    /\ apphost'[a].session_id \in {0, s}
                    /\ apphost'[a].told \subseteq {s}
                    /\ s # 0 => /\ s < next_session_id'
                                /\ o[s] \in Clients /\ client'[o[s]].session_id = s
  BY DEF AppHostsOK
<1> DEFINE s == apphost[a].launched
<1>1. /\ apphost[a].process = "none" => s = 0 /\ apphost[a].link = "none"
      /\ apphost[a].link = "none" => At(a, "idle")
      /\ apphost[a].process # "none" => s # 0
      /\ apphost[a].session_id \in {0, s}
      /\ apphost[a].told \subseteq {s}
      /\ s # 0 => /\ s < next_session_id
                  /\ o[s] \in Clients /\ client[o[s]].session_id = s
  BY DEF InvFor, OwnedBy, AppHostsOK
<1>2. apphost[a].link = "none" => At(a, "idle")'
  BY <1>1, GatewayAssumption DEF Move, Threads, At
<1> QED BY <1>1, <1>2 DEF Move, TableShrunk

LEMMA SentCarries ==
    ASSUME NEW o, InvFor(o), next_session_id' = next_session_id,
           NEW c \in Clients, Gets(o, c), NEW i \in DOMAIN client'[c].sent
    PROVE  LET x == client'[c].sent[i].s IN
           x # 0 => x < next_session_id' /\ o[x] = c
<1>1. client[c].sent \in Seq(Notice)
  BY DEF InvFor, GatewayTypeOK, ClientSession
<1>2. \A j \in DOMAIN client[c].sent :
        LET x == client[c].sent[j].s IN x # 0 => x < next_session_id /\ o[x] = c
  BY DEF InvFor, OwnedBy, ClientsOK
<1>3. CASE client'[c].sent = client[c].sent
  BY <1>2, <1>3
<1>4. ASSUME NEW n \in Notice, client'[c].sent = Append(client[c].sent, n),
             n.s # 0 => n.s < next_session_id /\ o[n.s] = c
      PROVE  LET x == client'[c].sent[i].s IN
             x # 0 => x < next_session_id' /\ o[x] = c
  BY <1>1, <1>2, <1>4, Appended
<1> QED BY <1>3, <1>4 DEF Gets

LEMMA ClientsCarry ==
    ASSUME NEW o, InvFor(o), NEW t, Move(o, t)
    PROVE  ClientsOK(o)'
<1>1. ASSUME NEW c \in Clients
      PROVE  /\ client'[c].session_id # 0 =>
                  client'[c].session_id < next_session_id' /\ o[client'[c].session_id] = c
             /\ client'[c].link = "none" => client'[c].session_id = 0 /\ At(c, "idle")'
  <2>1. /\ client[c].session_id # 0 =>
             client[c].session_id < next_session_id /\ o[client[c].session_id] = c
        /\ client[c].link = "none" => client[c].session_id = 0 /\ At(c, "idle")
    BY DEF InvFor, OwnedBy, ClientsOK
  <2> QED BY <2>1, GatewayAssumption DEF Move, TableShrunk, Threads, At
<1>2. \A c \in Clients : \A i \in DOMAIN client'[c].sent :
        LET x == client'[c].sent[i].s IN
        x # 0 => x < next_session_id' /\ o[x] = c
  BY SentCarries DEF Move, TableShrunk
<1> QED BY <1>1, <1>2 DEF ClientsOK

LEMMA AckCarries ==
    ASSUME NEW o, AckMeansBound, GatewayTypeOK, TableShrunk,
           \A c \in Clients : Gets(o, c)
    PROVE  AckMeansBound'
<1> SUFFICES ASSUME NEW c \in Clients, NEW s \in SessionIds, Knows(c, s)', Has(s)'
             PROVE  by_session'[s].apphost_conn # None
  BY DEF AckMeansBound, SessionIds
<1>1. /\ Has(s) /\ by_session'[s].apphost_conn = by_session[s].apphost_conn
      /\ client[c].sent \in Seq(Notice)
  BY DEF TableShrunk, GatewayTypeOK, ClientSession
<1>2. PICK i \in DOMAIN client'[c].sent :
        client'[c].sent[i] = [cmd |-> "SESSION_ACK", s |-> s]
  BY DEF Knows
<1>3. CASE i \in DOMAIN client[c].sent /\ client'[c].sent[i] = client[c].sent[i]
  <2>1. Knows(c, s)
    BY <1>2, <1>3 DEF Knows
  <2> QED BY <1>1, <2>1 DEF AckMeansBound
<1>4. ASSUME NEW n \in Notice, client'[c].sent = Append(client[c].sent, n),
             n.cmd = "SESSION_ACK" /\ Has(n.s)' => by_session[n.s].apphost_conn # None,
             client'[c].sent[i] = n
      PROVE  by_session'[s].apphost_conn # None
  BY <1>1, <1>2, <1>4
<1>5. CASE client'[c].sent = client[c].sent
  BY <1>2, <1>3, <1>5
<1>6. ASSUME NEW n \in Notice, client'[c].sent = Append(client[c].sent, n),
             n.cmd = "SESSION_ACK" /\ Has(n.s)' => by_session[n.s].apphost_conn # None
      PROVE  by_session'[s].apphost_conn # None
  BY <1>1, <1>2, <1>3, <1>4, <1>6, Appended
<1> QED BY <1>5, <1>6 DEF Gets

LEMMA KeptIndexComplete ==
    ASSUME TableKept, IndexComplete
    PROVE  IndexComplete'
<1> SUFFICES ASSUME NEW s \in SessionIds, Has(s)'
             PROVE  LET rt == by_session'[s] IN
                    /\ rt.client_conn # None => by_client'[rt.client_conn] = s
                    /\ rt.apphost_conn # None => by_apphost'[rt.apphost_conn] = s
                    /\ rt.apphost_pid # None => by_pid'[rt.apphost_pid] = s
  BY DEF IndexComplete, SessionIds
<1> QED BY DEF TableKept, IndexComplete

\* A move keeps the invariant if the moving handler's new frame is sound and
\* what it had to tell, or has just taken out of the table, is told.
LEMMA MoveKeeps ==
    ASSUME NEW o, InvFor(o), NEW t, Move(o, t),
           GatewayTypeOK', TableInv', IndexComplete', OwnFrame(o, t)',
           (monitor' = monitor /\ t # Monitor) \/ MonitorOK(o)',
           \A c \in Clients, s \in SessionIds :
             client[c].session_id = s /\ client[c].link = "linked" =>
               \/ Has(s)' \/ c \in disabled' \/ client[c].foreclosed
               \/ Has(s) \/ WillTell(t, c, s) =>
                    \/ EndNotices(c, s)' # {}
                    \/ (t \in Threads /\ WillTell(t, c, s)')
    PROVE  InvFor(o)'
<1>1. Frames(o)'
  BY MoveIsRely, FramesCarry
<1>2. Stored(o)'
  <2>1. /\ TableShrunk
        /\ \A u \in Threads \ {t} : call'[u] = call[u]
        /\ \A c \in Clients : client'[c].session_id = client[c].session_id
        /\ \A a \in AppHosts : /\ apphost'[a].launched = apphost[a].launched
                               /\ apphost'[a].session_id = apphost[a].session_id
        /\ t \in AppHosts => ~At(t, "ready_route")
    BY DEF Move
  <2> QED BY <2>1, StoredCarries
<1>3. ClientsOK(o)' /\ AppHostsOK(o)'
  BY ClientsCarry, AppHostsCarry
<1>4. AckMeansBound'
  BY AckCarries DEF Move, InvFor
<1>5. EndIsTold'
  <2>1. EndIsTold /\ GatewayTypeOK
    BY DEF InvFor
  <2>2. \A c \in Clients, s \in SessionIds : EndNotices(c, s) # {} => EndNotices(c, s)' # {}
    BY <2>1, NoticesGrow DEF Move
  <2>3. /\ \A u \in Threads \ {t} : call'[u] = call[u]
        /\ disabled \subseteq disabled'
        /\ \A c \in Clients : /\ client'[c].link = client[c].link
                              /\ client'[c].session_id = client[c].session_id
                              /\ client'[c].foreclosed = client[c].foreclosed
    BY DEF Move
  <2> QED BY <2>1, <2>2, <2>3, TellingCarries
<1>6. o \in Owners /\ Owners' = Owners
  BY DEF InvFor, Owners, SessionIds
<1> QED BY <1>1, <1>2, <1>3, <1>4, <1>5, <1>6 DEF InvFor, OwnedBy, Frames

\* A step of a handler that only moves on, with what it has looked up.
LEMMA FrameMoveKeeps ==
    ASSUME NEW o, InvFor(o), NEW t \in Threads, NEW f \in Frame,
           call' = [call EXCEPT ![t] = f], UNCHANGED <<client, apphost, disabled>>,
           TableShrunk, TableInv', IndexComplete', OwnFrame(o, t)',
           (monitor' = monitor /\ t # Monitor) \/
             (MonitorOK(o)' /\ monitor' \in [phase : {"sleep", "exits", "scan"},
                         exits : SUBSET Pids, due : SUBSET (SessionIds \X BOOLEAN)]),
           t \in Clients => f.at = "idle" \/ client[t].link # "none",
           t \in AppHosts => f.at = "idle" \/ apphost[t].link # "none",
           t \in AppHosts => ~At(t, "ready_route"),
           \A c \in Clients, s \in SessionIds :
             client[c].session_id = s /\ client[c].link = "linked" =>
               \/ Has(s)' \/ c \in disabled' \/ client[c].foreclosed
               \/ Has(s) \/ WillTell(t, c, s) => WillTell(t, c, s)'
    PROVE  InvFor(o)'
<1>1. GatewayTypeOK'
  BY DEF InvFor, TableInv, GatewayTypeOK
<1>2. \A u \in Threads : call'[u] = IF u = t THEN f ELSE call[u]
  BY DEF InvFor, GatewayTypeOK
<1>3. Move(o, t)
  BY <1>2, GatewayAssumption DEF Move, Gets, At, Threads
<1> QED BY <1>1, <1>3, MoveKeeps

LEMMA Finding ==
    ASSUME NEW o, InvFor(o), NEW s
    PROVE  /\ FindClient(s) \in Clients \cup {None}
           /\ FindAppHost(s) \in AppHosts \cup {None}
           /\ GetPid(s) \in Pids \cup {None}
           /\ Has(s) => s # 0 /\ FindClient(s) = o[s] /\ FindClient(s) # None
           /\ FindClient(s) # None => Has(s)
           /\ FindAppHost(s) # None => Has(s) /\ apphost[FindAppHost(s)].launched = s
           /\ GetPid(s) # None => Has(s) /\ apphost[GetPid(s)].launched = s
<1>1. CASE Has(s)
  <2>1. s \in SessionIds /\ s # 0 /\ by_session[s] \in SessionRuntime
    BY <1>1 DEF Has, SessionIds, InvFor, TableInv, TableTypeOK
  <2> QED BY <1>1, <2>1, TableAssumption
      DEF FindClient, FindAppHost, GetPid, InvFor, OwnedBy, Stored, SessionRuntime
<1>2. CASE ~Has(s)
  BY <1>2 DEF FindClient, FindAppHost, GetPid
<1> QED BY <1>1, <1>2

\* Taking a session out leaves every other one's index entries.
LEMMA RemoveIndexComplete ==
    ASSUME NEW o, InvFor(o), NEW s \in SessionIds \cup {0}, RemoveSession(s)
    PROVE  IndexComplete'
<1>1. CASE ~Has(s)
  BY <1>1, UnchangedIsKept, KeptIndexComplete DEF RemoveSession, InvFor
<1>2. CASE Has(s)
  <2> SUFFICES ASSUME NEW x \in SessionIds, Has(x)'
               PROVE  LET rt == by_session'[x] IN
                      /\ rt.client_conn # None => by_client'[rt.client_conn] = x
                      /\ rt.apphost_conn # None => by_apphost'[rt.apphost_conn] = x
                      /\ rt.apphost_pid # None => by_pid'[rt.apphost_pid] = x
    BY DEF IndexComplete, SessionIds
  <2>1. /\ Has(x) /\ x # s
        /\ by_session'[x].client_conn = by_session[x].client_conn
        /\ by_session'[x].apphost_conn = by_session[x].apphost_conn
        /\ by_session'[x].apphost_pid = by_session[x].apphost_pid
    BY RemoveIsShrunk DEF TableShrunk, InvFor, TableInv
  <2>2. /\ by_client'  = Erase(by_client,  by_session[s].client_conn)
        /\ by_apphost' = Erase(by_apphost, by_session[s].apphost_conn)
        /\ by_pid'     = Erase(by_pid,     by_session[s].apphost_pid)
    BY <1>2 DEF RemoveSession
  <2>3. s \in SessionIds
    BY <1>2 DEF Has
  <2>4. /\ by_session[x].client_conn # None => by_client[by_session[x].client_conn] = x
        /\ by_session[x].apphost_conn # None => by_apphost[by_session[x].apphost_conn] = x
        /\ by_session[x].apphost_pid # None => by_pid[by_session[x].apphost_pid] = x
    BY <2>1 DEF InvFor, IndexComplete
  <2>5. by_session[x] \in SessionRuntime /\ by_session[s] \in SessionRuntime
    BY <2>3 DEF InvFor, TableInv, TableTypeOK
  <2>6. /\ by_session[s].client_conn # None => by_client[by_session[s].client_conn] = s
        /\ by_session[s].apphost_conn # None => by_apphost[by_session[s].apphost_conn] = s
        /\ by_session[s].apphost_pid # None => by_pid[by_session[s].apphost_pid] = s
    BY <1>2, <2>3 DEF InvFor, IndexComplete
  <2>7. /\ \A k \in Clients : by_client'[k] =
             IF k = by_session[s].client_conn THEN 0 ELSE by_client[k]
        /\ \A k \in AppHosts : by_apphost'[k] =
             IF k = by_session[s].apphost_conn THEN 0 ELSE by_apphost[k]
        /\ \A k \in Pids : by_pid'[k] =
             IF k = by_session[s].apphost_pid THEN 0 ELSE by_pid[k]
    BY <2>2, EraseType DEF InvFor, TableInv, TableTypeOK
  <2> QED BY <2>1, <2>4, <2>5, <2>6, <2>7 DEF SessionRuntime
<1> QED BY <1>1, <1>2

-----------------------------------------------------------------------------
(* The handlers both kinds of connections run: close and forward.          *)

LEMMA LabelsArePlaces ==
    {"idle", "spawn", "fork", "set_pid", "spawn_undo", "spawn_error", "release",
     "release_remove", "release_tell", "close", "close_pid", "close_remove",
     "close_client", "close_apphost", "close_kill", "forward", "forward_send",
     "ready", "ready_route", "ready_ack", "fail", "fail_notify", "fail_apphost",
     "fail_client", "fail_kill", "fail_remove"} \subseteq Places
  BY DEF Places

LEMMA IdleIsFrame == Idle \in Frame
  BY LabelsArePlaces DEF Idle, Frame

\* What a handler that is somewhere knows.
LEMMA BusyThread ==
    ASSUME NEW o, InvFor(o), NEW t \in Clients \cup AppHosts, ~At(t, "idle")
    PROVE  /\ t \in Threads /\ t # Monitor
           /\ call[t] \in Frame /\ FrameOK(o, t)
           /\ t \in Clients =>
                t \notin AppHosts /\ ClientFrameOK(t) /\ client[t].link # "none"
           /\ t \in AppHosts =>
                t \notin Clients /\ AppHostFrameOK(t) /\ apphost[t].link # "none"
  BY GatewayAssumption
  DEF Threads, InvFor, GatewayTypeOK, OwnedBy, ClientsOK, AppHostsOK

\* A handler goes on with the table, the connections and the sends as they
\* were, and it was not about to tell anybody anything.
LEMMA HandlerMoves ==
    ASSUME NEW o, InvFor(o), NEW t \in Clients \cup AppHosts, NEW f \in Frame,
           call' = [call EXCEPT ![t] = f],
           UNCHANGED <<client, apphost, disabled, monitor>>,
           TableKept, TableInv', OwnFrame(o, t)',
           t \in Clients => client[t].link # "none",
           t \in AppHosts => apphost[t].link # "none",
           call[t].at \notin {"close_client", "release_tell", "spawn_error", "ready_route"}
    PROVE  InvFor(o)'
<1>1. t \in Threads /\ t # Monitor /\ ~At(t, "ready_route")
  BY GatewayAssumption DEF Threads, At
<1>2. TableShrunk /\ IndexComplete'
  BY KeptIsShrunk, KeptIndexComplete DEF InvFor
<1>3. \A c \in Clients, x \in SessionIds : ~WillTell(t, c, x) /\ (Has(x) => Has(x)')
  BY DEF At, WillTell, TableKept
<1> QED BY <1>1, <1>2, <1>3, FrameMoveKeeps

\* An id that was not given out yet names nothing.
LEMMA StoredAreGiven ==
    ASSUME NEW o, InvFor(o), NEW s, Has(s) PROVE s < next_session_id
  BY DEF InvFor, TableInv, FreshIds, TableTypeOK, Has, SessionIds

LEMMA CloseFindKeeps ==
    ASSUME NEW o, InvFor(o), NEW t \in Clients \cup AppHosts, CloseFind(t), TableInv'
    PROVE  InvFor(o)'
<1> DEFINE s == call[t].s
           f == [call[t] EXCEPT !.at = "close_pid", !.client = FindClient(s),
                                !.apphost = FindAppHost(s)]
<1>1. /\ UNCHANGED <<tableVars, client, apphost, disabled, monitor>>
      /\ call[t].at = "close" /\ call' = [call EXCEPT ![t] = f]
  BY DEF CloseFind, At
<1>2. /\ f \in Frame /\ f.at = "close_pid" /\ f.s = s /\ f.pid = call[t].pid
      /\ f.client = FindClient(s) /\ f.apphost = FindAppHost(s)
  BY <1>1, BusyThread, Finding, LabelsArePlaces DEF Frame, At
<1> HIDE DEF f
<1>3. call'[t] = f
  BY <1>1, BusyThread DEF InvFor, GatewayTypeOK, At
<1>4. OwnFrame(o, t)'
  BY <1>1, <1>2, <1>3, BusyThread, Finding, StoredAreGiven
  DEF OwnFrame, FrameOK, ClientFrameOK, AppHostFrameOK, Spawning, Releasing,
      Naming, tableVars, Has, At
<1> QED BY <1>1, <1>2, <1>4, BusyThread, UnchangedIsKept, HandlerMoves DEF At

LEMMA CloseGetPidKeeps ==
    ASSUME NEW o, InvFor(o), NEW t \in Clients \cup AppHosts, CloseGetPid(t), TableInv'
    PROVE  InvFor(o)'
<1> DEFINE f == [call[t] EXCEPT !.at = "close_remove", !.pid = GetPid(call[t].s)]
<1>1. /\ UNCHANGED <<tableVars, client, apphost, disabled, monitor>>
      /\ call[t].at = "close_pid" /\ call' = [call EXCEPT ![t] = f]
  BY DEF CloseGetPid, At
<1>2. /\ f \in Frame /\ f.at = "close_remove" /\ f.pid = GetPid(call[t].s)
      /\ f.s = call[t].s /\ f.client = call[t].client /\ f.apphost = call[t].apphost
  BY <1>1, BusyThread, Finding, LabelsArePlaces DEF Frame, At
<1> HIDE DEF f
<1>3. call'[t] = f
  BY <1>1, BusyThread DEF InvFor, GatewayTypeOK, At
<1>4. OwnFrame(o, t)'
  BY <1>1, <1>2, <1>3, BusyThread, Finding, StoredAreGiven
  DEF OwnFrame, FrameOK, ClientFrameOK, AppHostFrameOK, Spawning, Releasing,
      Naming, tableVars, Has, At
<1> QED BY <1>1, <1>2, <1>4, BusyThread, UnchangedIsKept, HandlerMoves DEF At

LEMMA ForwardKeeps ==
    ASSUME NEW o, InvFor(o), NEW t \in Clients \cup AppHosts, Forward(t), TableInv'
    PROVE  InvFor(o)'
<1> DEFINE s == call[t].s
           a == IF t \in Clients THEN FindAppHost(s) ELSE None
           c == IF t \in AppHosts THEN FindClient(s) ELSE None
           f == [call[t] EXCEPT !.at = "forward_send", !.apphost = a, !.client = c]
<1>1. /\ UNCHANGED <<tableVars, client, apphost, disabled, monitor>>
      /\ call[t].at = "forward" /\ call' = [call EXCEPT ![t] = f]
  BY DEF Forward, At
<1>2. /\ f \in Frame /\ f.at = "forward_send" /\ f.s = s /\ f.pid = call[t].pid
      /\ f.client = c /\ f.apphost = a
  BY <1>1, BusyThread, Finding, LabelsArePlaces DEF Frame, At
<1> HIDE DEF f
<1>3. call'[t] = f
  BY <1>1, BusyThread DEF InvFor, GatewayTypeOK, At
<1>4. OwnFrame(o, t)'
  BY <1>1, <1>2, <1>3, BusyThread, Finding, StoredAreGiven
  DEF OwnFrame, FrameOK, ClientFrameOK, AppHostFrameOK, Spawning, Releasing,
      Naming, tableVars, Has, At
<1> QED BY <1>1, <1>2, <1>4, BusyThread, UnchangedIsKept, HandlerMoves DEF At

\* A handler that returns has nothing left in its frame.
LEMMA OwnIdle ==
    ASSUME NEW o, InvFor(o), NEW t \in Threads, call'[t] = Idle,
           next_session_id' = next_session_id
    PROVE  OwnFrame(o, t)'
  BY DEF OwnFrame, FrameOK, ClientFrameOK, AppHostFrameOK, Spawning, Releasing, Idle,
         InvFor, TableInv, TableTypeOK

LEMMA ForwardSendKeeps ==
    ASSUME NEW o, InvFor(o), NEW t \in Clients \cup AppHosts, ForwardSend(t), TableInv'
    PROVE  InvFor(o)'
<1>1. /\ UNCHANGED <<tableVars, client, apphost, disabled, monitor>>
      /\ call[t].at = "forward_send" /\ call' = [call EXCEPT ![t] = Idle]
  BY DEF ForwardSend, Return, At
<1>2. call'[t] = Idle
  BY <1>1, BusyThread DEF InvFor, GatewayTypeOK, At
<1>3. OwnFrame(o, t)'
  BY <1>1, <1>2, BusyThread, OwnIdle DEF tableVars, At
<1> QED BY <1>1, <1>3, BusyThread, UnchangedIsKept, HandlerMoves, IdleIsFrame DEF At

\* A handler takes its session out and goes on, to tell its Client if that is
\* still there.
LEMMA RemoveMoves ==
    ASSUME NEW o, InvFor(o), NEW t \in Threads, NEW f \in Frame,
           call' = [call EXCEPT ![t] = f],
           UNCHANGED <<client, apphost, disabled, monitor>>,
           RemoveSession(call[t].s), TableInv', OwnFrame(o, t)',
           t # Monitor \/ MonitorOK(o)',
           t \in Clients => client[t].link # "none",
           t \in AppHosts => apphost[t].link # "none",
           call[t].at \notin {"close_client", "release_tell", "spawn_error", "ready_route"},
           \A c \in Clients, x \in SessionIds :
             /\ x = call[t].s /\ Has(x) /\ o[x] = c
             /\ client[c].session_id = x /\ client[c].link = "linked"
             => c \in disabled \/ client[c].foreclosed \/ WillTell(t, c, x)'
    PROVE  InvFor(o)'
<1> DEFINE s == call[t].s
<1>1. s \in SessionIds \cup {0}
  BY CallHasType DEF InvFor
<1>2. TableShrunk /\ \A x : Has(x)' <=> Has(x) /\ x # s
  BY RemoveIsShrunk DEF InvFor, TableInv
<1>3. IndexComplete'
  BY <1>1, RemoveIndexComplete
<1>4. ASSUME NEW c \in Clients, NEW x \in SessionIds,
             client[c].session_id = x, client[c].link = "linked", ~Has(x)',
             c \notin disabled', ~client[c].foreclosed, Has(x) \/ WillTell(t, c, x)
      PROVE  WillTell(t, c, x)'
  <2>1. Has(x) /\ x = s
    BY <1>2, <1>4 DEF WillTell, At
  <2>2. o[x] = c
    BY <1>4, <2>1 DEF InvFor, OwnedBy, ClientsOK, SessionIds
  <2> QED BY <1>4, <2>1, <2>2
<1>5. monitor' \in [phase : {"sleep", "exits", "scan"}, exits : SUBSET Pids,
                    due : SUBSET (SessionIds \X BOOLEAN)]
  BY DEF InvFor, GatewayTypeOK
<1> QED BY <1>2, <1>3, <1>4, <1>5, FrameMoveKeeps DEF At

\* The Clients after a send of t: each got at most a notice that is its own,
\* and t has told what it was about to tell.
Notified(o, t) ==
    /\ client' \in [Clients -> ClientSession]
    /\ \A d \in Clients : /\ client'[d].link = client[d].link
                          /\ client'[d].session_id = client[d].session_id
                          /\ client'[d].foreclosed = client[d].foreclosed
                          /\ Gets(o, d)
    /\ \A d \in Clients, x \in SessionIds :
         WillTell(t, d, x) /\ client[d].link = "linked" /\ d \notin disabled
         => EndNotices(d, x)' # {}

LEMMA SendNotifies ==
    ASSUME NEW o, InvFor(o), NEW t,
           NEW c \in Clients \cup {None},
           NEW cmd \in {"SESSION_ACK", "ERROR_RESP", "CLOSE_SESSION"},
           NEW s \in SessionIds \cup {0},
           ToClient(c, cmd, s), TableKept,
           c # None /\ s # 0 => s < next_session_id /\ o[s] = c,
           cmd = "SESSION_ACK" /\ Has(s) => by_session[s].apphost_conn # None,
           \A d \in Clients, x \in SessionIds : WillTell(t, d, x) =>
              d = c /\ x = s /\ cmd # "SESSION_ACK"
    PROVE  Notified(o, t)
<1> DEFINE n == [cmd |-> cmd, s |-> s]
<1>1. n \in Notice /\ n.cmd = cmd /\ n.s = s
  BY DEF Notice
<1>2. /\ client' \in [Clients -> ClientSession]
      /\ \A d \in Clients :
           /\ client'[d].link = client[d].link
           /\ client'[d].session_id = client[d].session_id
           /\ client'[d].foreclosed = client[d].foreclosed
           /\ client'[d].sent =
                IF d = c /\ client[d].link = "linked" /\ d \notin disabled
                THEN Append(client[d].sent, n)
                ELSE client[d].sent
  BY Sending DEF InvFor
<1>3. \A d \in Clients : Gets(o, d)
  <2>1. Has(s)' => Has(s)
    BY DEF TableKept
  <2> HIDE DEF n
  <2> QED BY <1>1, <1>2, <2>1, TableAssumption DEF Gets
<1>4. ASSUME NEW d \in Clients, NEW x \in SessionIds, d \notin disabled,
             client[d].link = "linked", WillTell(t, d, x)
      PROVE  EndNotices(d, x)' # {}
  <2>1. d = c /\ x = s /\ cmd # "SESSION_ACK"
    BY <1>4
  <2>2. client'[d].sent = Append(client[d].sent, n)
    BY <1>2, <1>4, <2>1
  <2> HIDE DEF n
  <2> QED BY <1>1, <2>1, <2>2, NoticeIsFound DEF InvFor
<1> QED BY <1>2, <1>3, <1>4 DEF Notified

\* A handler sends a Client of its session a notice and goes on.
LEMMA SendMoves ==
    ASSUME NEW o, InvFor(o), NEW t \in Threads, NEW f \in Frame,
           call' = [call EXCEPT ![t] = f],
           UNCHANGED <<apphost, disabled, monitor>>, Notified(o, t),
           TableKept, TableInv', OwnFrame(o, t)',
           t # Monitor \/ MonitorOK(o)',
           t \in Clients => client[t].link # "none",
           t \in AppHosts => apphost[t].link # "none",
           t \in AppHosts => call[t].at # "ready_route"
    PROVE  InvFor(o)'
<1>1. GatewayTypeOK'
  BY DEF InvFor, TableInv, GatewayTypeOK, Notified
<1>2. \A u \in Threads : call'[u] = IF u = t THEN f ELSE call[u]
  BY DEF InvFor, GatewayTypeOK
<1>3. TableShrunk /\ IndexComplete'
  BY KeptIsShrunk, KeptIndexComplete DEF InvFor
<1>4. Move(o, t)
  BY <1>2, <1>3, GatewayAssumption DEF Move, At, Threads, Notified
<1>5. \A x : Has(x)' <=> Has(x)
  BY DEF TableKept
<1>6. \A d \in Clients, x \in SessionIds :
        WillTell(t, d, x) /\ client[d].link = "linked" /\ d \notin disabled
        => EndNotices(d, x)' # {}
  BY DEF Notified
<1> QED BY <1>1, <1>3, <1>4, <1>5, <1>6, MoveKeeps

\* A handler does something to the AppHost of its session and goes on.
LEMMA ReachMoves ==
    ASSUME NEW o, InvFor(o), NEW t \in Threads, NEW f \in Frame,
           call' = [call EXCEPT ![t] = f],
           UNCHANGED <<client, disabled, monitor>>,
           apphost' \in [AppHosts -> AppHostSession],
           \A a \in AppHosts :
             /\ apphost'[a].process = apphost[a].process
             /\ apphost'[a].launched = apphost[a].launched
             /\ apphost'[a].link = apphost[a].link
             /\ apphost'[a].session_id = apphost[a].session_id
             /\ apphost'[a].told \subseteq apphost[a].told \cup {apphost[a].launched},
           \A d \in Clients, x \in SessionIds : WillTell(t, d, x) =>
              client[d].link # "linked",
           TableKept, TableInv', OwnFrame(o, t)',
           t # Monitor \/ MonitorOK(o)',
           t \in Clients => client[t].link # "none",
           t \in AppHosts => apphost[t].link # "none",
           t \in AppHosts => call[t].at # "ready_route"
    PROVE  InvFor(o)'
<1>1. GatewayTypeOK'
  BY DEF InvFor, TableInv, GatewayTypeOK
<1>2. \A u \in Threads : call'[u] = IF u = t THEN f ELSE call[u]
  BY DEF InvFor, GatewayTypeOK
<1>3. TableShrunk /\ IndexComplete'
  BY KeptIsShrunk, KeptIndexComplete DEF InvFor
<1>4. Move(o, t)
  BY <1>2, <1>3, GatewayAssumption DEF Move, Gets, At, Threads
<1>5. \A x : Has(x)' <=> Has(x)
  BY DEF TableKept
<1> QED BY <1>1, <1>3, <1>4, <1>5, MoveKeeps

LEMMA CloseRemoveKeeps ==
    ASSUME NEW o, InvFor(o), NEW t \in Clients \cup AppHosts, CloseRemove(t), TableInv'
    PROVE  InvFor(o)'
<1> DEFINE s == call[t].s
           f == [call[t] EXCEPT !.at = "close_client"]
<1>1. /\ UNCHANGED <<client, apphost, disabled, monitor>> /\ RemoveSession(s)
      /\ call[t].at = "close_remove" /\ call' = [call EXCEPT ![t] = f]
  BY DEF CloseRemove, At, Goto
<1>2. /\ f \in Frame /\ f.at = "close_client" /\ f.s = s /\ f.pid = call[t].pid
      /\ f.client = call[t].client /\ f.apphost = call[t].apphost
  BY <1>1, BusyThread, LabelsArePlaces DEF Frame, At
<1> HIDE DEF f
<1>3. call'[t] = f
  BY <1>1, BusyThread DEF InvFor, GatewayTypeOK, At
<1>4. next_session_id' = next_session_id
  BY <1>1, RemoveIsShrunk DEF TableShrunk, InvFor, TableInv
<1>5. OwnFrame(o, t)'
  BY <1>1, <1>2, <1>3, <1>4, BusyThread
  DEF OwnFrame, FrameOK, ClientFrameOK, AppHostFrameOK, Spawning, Releasing, Naming, At
<1>6. ASSUME NEW c \in Clients, NEW x \in SessionIds, x = s, Has(x), o[x] = c
      PROVE  client[c].foreclosed \/ WillTell(t, c, x)'
  <2>1. call[t].client = c \/ client[c].foreclosed
    BY <1>1, <1>6, BusyThread DEF FrameOK, At
  <2> QED BY <1>2, <1>3, <1>6, <2>1 DEF WillTell, At
<1> QED BY <1>1, <1>2, <1>5, <1>6, BusyThread, RemoveMoves DEF At

LEMMA CloseTellClientKeeps ==
    ASSUME NEW o, InvFor(o), NEW t \in Clients \cup AppHosts, CloseTellClient(t), TableInv'
    PROVE  InvFor(o)'
<1> DEFINE s == call[t].s
           f == [call[t] EXCEPT !.at = "close_apphost", !.client = None]
<1>1. /\ UNCHANGED <<tableVars, apphost, disabled, monitor>>
      /\ ToClient(call[t].client, "CLOSE_SESSION", s)
      /\ call[t].at = "close_client" /\ call' = [call EXCEPT ![t] = f]
  BY DEF CloseTellClient, At
<1>2. /\ f \in Frame /\ f.at = "close_apphost" /\ f.s = s /\ f.pid = call[t].pid
      /\ f.client = None /\ f.apphost = call[t].apphost
  BY <1>1, BusyThread, LabelsArePlaces DEF Frame, At
<1> HIDE DEF f
<1>3. call'[t] = f
  BY <1>1, BusyThread DEF InvFor, GatewayTypeOK, At
<1>4. OwnFrame(o, t)'
  BY <1>1, <1>2, <1>3, BusyThread
  DEF OwnFrame, FrameOK, ClientFrameOK, AppHostFrameOK, Spawning, Releasing, Naming, At,
      tableVars
<1>5. /\ call[t].client \in Clients \cup {None} /\ s \in SessionIds \cup {0}
      /\ call[t].client # None => s < next_session_id /\ o[s] = call[t].client
  BY <1>1, BusyThread DEF Frame, FrameOK, At
<1>6. \A d \in Clients, x \in SessionIds : WillTell(t, d, x) => d = call[t].client /\ x = s
  BY <1>1 DEF WillTell, At
<1>7. /\ t \in Threads /\ t # Monitor
      /\ t \in Clients => client[t].link # "none"
      /\ t \in AppHosts => apphost[t].link # "none"
  BY <1>1, BusyThread DEF At
<1>8. TableKept
  BY <1>1, UnchangedIsKept
<1>9. Notified(o, t)
  <2>1. PICK c \in Clients \cup {None}, x \in SessionIds \cup {0},
             cmd \in {"SESSION_ACK", "ERROR_RESP", "CLOSE_SESSION"} :
          /\ c = call[t].client /\ x = s /\ cmd = "CLOSE_SESSION"
          /\ ToClient(c, cmd, x)
    BY <1>1, <1>5 DEF ToClient
  <2> QED BY <1>5, <1>6, <1>8, <2>1, SendNotifies
<1> QED BY <1>1, <1>2, <1>4, <1>7, <1>8, <1>9, SendMoves

LEMMA CloseTellAppHostKeeps ==
    ASSUME NEW o, InvFor(o), NEW t \in Clients \cup AppHosts, CloseTellAppHost(t), TableInv'
    PROVE  InvFor(o)'
<1> DEFINE s == call[t].s
           f == [call[t] EXCEPT !.at = "close_kill", !.apphost = None]
<1>1. /\ UNCHANGED <<tableVars, client, disabled, monitor>>
      /\ TellAppHost(call[t].apphost, s)
      /\ call[t].at = "close_apphost" /\ call' = [call EXCEPT ![t] = f]
  BY DEF CloseTellAppHost, At
<1>2. /\ f \in Frame /\ f.at = "close_kill" /\ f.s = s /\ f.pid = call[t].pid
      /\ f.client = call[t].client /\ f.apphost = None
  BY <1>1, BusyThread, LabelsArePlaces DEF Frame, At
<1> HIDE DEF f
<1>3. call'[t] = f
  BY <1>1, BusyThread DEF InvFor, GatewayTypeOK, At
<1>4. /\ call[t].apphost \in AppHosts \cup {None} /\ s \in SessionIds \cup {0}
      /\ call[t].apphost # None => s # 0 /\ apphost[call[t].apphost].launched = s
  BY <1>1, BusyThread DEF Frame, FrameOK, At
<1>5. /\ apphost' \in [AppHosts -> AppHostSession]
      /\ \A b \in AppHosts :
           /\ apphost'[b].process = apphost[b].process
           /\ apphost'[b].launched = apphost[b].launched
           /\ apphost'[b].link = apphost[b].link
           /\ apphost'[b].session_id = apphost[b].session_id
           /\ apphost'[b].told \subseteq
                apphost[b].told \cup (IF call[t].apphost = b THEN {s} ELSE {})
  BY <1>1, <1>4, Telling DEF InvFor
<1>6. OwnFrame(o, t)'
  BY <1>1, <1>2, <1>3, <1>5, BusyThread, GatewayAssumption
  DEF OwnFrame, FrameOK, ClientFrameOK, AppHostFrameOK, Spawning, Releasing, Naming, At,
      tableVars, Frame
<1>7. \A d \in Clients, x \in SessionIds : ~WillTell(t, d, x)
  BY <1>1 DEF WillTell, At
<1>8. \A b \in AppHosts :
        apphost'[b].told \subseteq apphost[b].told \cup {apphost[b].launched}
  <2> TAKE b \in AppHosts
  <2>1. CASE call[t].apphost = b
    <3>1. apphost[b].launched = s
      BY <1>4, <2>1, TableAssumption
    <3> QED BY <1>5, <2>1, <3>1
  <2>2. CASE call[t].apphost # b
    BY <1>5, <2>2
  <2> QED BY <2>1, <2>2
<1> QED BY <1>1, <1>2, <1>5, <1>6, <1>7, <1>8, BusyThread, UnchangedIsKept, ReachMoves DEF At

LEMMA CloseTerminateKeeps ==
    ASSUME NEW o, InvFor(o), NEW t \in Clients \cup AppHosts, CloseTerminate(t), TableInv'
    PROVE  InvFor(o)'
<1>1. /\ UNCHANGED <<tableVars, client, disabled, monitor>> /\ Terminate(call[t].pid)
      /\ call[t].at = "close_kill" /\ call' = [call EXCEPT ![t] = Idle]
  BY DEF CloseTerminate, At, Return
<1>2. call'[t] = Idle
  BY <1>1, BusyThread DEF InvFor, GatewayTypeOK, At
<1>3. OwnFrame(o, t)'
  BY <1>1, <1>2, BusyThread, OwnIdle DEF tableVars, At
<1>4. call[t].pid \in Pids \cup {None}
  BY <1>1, BusyThread DEF Frame, At
<1>5. /\ apphost' \in [AppHosts -> AppHostSession]
      /\ \A b \in AppHosts :
           /\ apphost'[b].process = apphost[b].process
           /\ apphost'[b].launched = apphost[b].launched
           /\ apphost'[b].link = apphost[b].link
           /\ apphost'[b].session_id = apphost[b].session_id
           /\ apphost'[b].told = apphost[b].told
  BY <1>1, <1>4, Killing DEF InvFor
<1>6. \A d \in Clients, x \in SessionIds : ~WillTell(t, d, x)
  BY <1>1 DEF WillTell, At
<1> QED BY <1>1, <1>3, <1>5, <1>6, BusyThread, UnchangedIsKept, ReachMoves, IdleIsFrame DEF At

LEMMA CloseOrForwardKeeps ==
    ASSUME NEW o, InvFor(o), NEW t \in Clients \cup AppHosts, CloseOrForward(t), TableInv'
    PROVE  InvFor(o)'
  BY CloseFindKeeps, CloseGetPidKeeps, CloseRemoveKeeps, CloseTellClientKeeps,
     CloseTellAppHostKeeps, CloseTerminateKeeps, ForwardKeeps, ForwardSendKeeps
  DEF CloseOrForward

-----------------------------------------------------------------------------
(* Client connections.                                                     *)

LEMMA IdleThread ==
    ASSUME NEW o, InvFor(o), NEW t \in Clients \cup AppHosts, At(t, "idle")
    PROVE  /\ t \in Threads /\ t # Monitor /\ call[t] = Idle /\ Idle \in Frame
           /\ t \in Clients => t \notin AppHosts
           /\ t \in AppHosts => t \notin Clients
           /\ \A d \in Clients, x \in SessionIds : ~WillTell(t, d, x)
  BY GatewayAssumption, IdleIsFrame DEF Threads, InvFor, OwnedBy, FrameOK, At, WillTell

LEMMA ReceiveClientPacketKeeps ==
    ASSUME NEW o, InvFor(o), NEW c \in Clients,
           ReceiveClientClose(c) \/ ReceiveClientData(c), TableInv'
    PROVE  InvFor(o)'
<1>1. PICK s \in SessionIds, l \in {"close", "forward"} :
        ClientReceives(c, l, s)
  BY DEF ReceiveClientClose, ReceiveClientData
<1>2. UNCHANGED <<client, apphost, disabled, monitor>>
  BY DEF ReceiveClientClose, ReceiveClientData
<1> DEFINE f == [Idle EXCEPT !.at = l, !.s = s]
<1>3. client[c].link = "linked" /\ At(c, "idle") /\ call[c] = Idle
  BY <1>1, IdleThread DEF ClientReceives
<1>4. call' = [call EXCEPT ![c] = f]
  BY <1>1, <1>3 DEF ClientReceives
<1>5. /\ f \in Frame /\ f.at = l /\ f.s = s /\ f.client = None
      /\ f.apphost = None /\ f.pid = None
  BY IdleIsFrame, LabelsArePlaces DEF Idle, Frame
<1> HIDE DEF f
<1>6. call'[c] = f
  BY <1>3, <1>4, IdleThread DEF InvFor, GatewayTypeOK
<1>7. TableKept
  BY <1>1, TouchIsKept, UnchangedIsKept DEF ClientReceives, InvFor, TableInv
<1>8. OwnFrame(o, c)'
  BY <1>3, <1>5, <1>6, IdleThread
  DEF OwnFrame, FrameOK, ClientFrameOK, Spawning, Releasing, Naming
<1> QED BY <1>2, <1>3, <1>4, <1>5, <1>7, <1>8, IdleThread, HandlerMoves DEF At

LEMMA ReceiveClientHeartbeatKeeps ==
    ASSUME NEW o, InvFor(o), NEW c \in Clients, ReceiveClientHeartbeat(c), TableInv'
    PROVE  InvFor(o)'
<1>1. /\ UNCHANGED <<client, apphost, disabled, call, monitor>>
      /\ client[c].link = "linked" /\ At(c, "idle")
      /\ MarkClientSeen(client[c].session_id)
  BY DEF ReceiveClientHeartbeat
<1>2. /\ c \in Threads /\ c \notin AppHosts /\ call[c] = Idle /\ Idle \in Frame
  BY <1>1, IdleThread
<1>3. call' = [call EXCEPT ![c] = Idle] /\ call'[c] = Idle
  BY <1>1, <1>2 DEF InvFor, GatewayTypeOK
<1>4. TableKept
  BY <1>1, TouchIsKept DEF InvFor, TableInv
<1>5. OwnFrame(o, c)'
  BY <1>2, <1>3, <1>4, OwnIdle DEF TableKept
<1> QED BY <1>1, <1>2, <1>3, <1>4, <1>5, HandlerMoves DEF At

LEMMA ReceiveSpawnAppKeeps ==
    ASSUME NEW o, InvFor(o), NEW c \in Clients, ReceiveSpawnApp(c), TableInv'
    PROVE  InvFor(o)'
<1> DEFINE f == [Idle EXCEPT !.at = "spawn", !.s = 0]
           r == [client[c] EXCEPT !.spawns = @ + 1]
<1>1. /\ UNCHANGED <<apphost, disabled, monitor>>
      /\ client[c].link = "linked" /\ At(c, "idle") /\ client[c].spawns < MaxSpawns
      /\ ClientReceives(c, "spawn", 0) /\ client' = [client EXCEPT ![c] = r]
  BY DEF ReceiveSpawnApp, ClientReceives
<1>2. c \in Threads /\ c # Monitor /\ c \notin AppHosts /\ call[c] = Idle
  BY <1>1, IdleThread
<1>3. call' = [call EXCEPT ![c] = f]
  BY <1>1, <1>2 DEF ClientReceives
<1>4. /\ f \in Frame /\ f.at = "spawn" /\ f.s = 0 /\ f.client = None
      /\ f.apphost = None /\ f.pid = None
  BY IdleIsFrame, LabelsArePlaces DEF Idle, Frame
<1>5. /\ client[c] \in ClientSession /\ r \in ClientSession
      /\ r.link = client[c].link /\ r.session_id = client[c].session_id
      /\ r.foreclosed = client[c].foreclosed /\ r.sent = client[c].sent
  <2>1. client[c] \in ClientSession
    BY DEF InvFor, GatewayTypeOK
  <2>2. client[c].spawns + 1 \in 0..MaxSpawns
    BY <1>1, <2>1, GatewayAssumption DEF ClientSession
  <2> QED BY <2>1, <2>2 DEF ClientSession
<1> HIDE DEF f, r
<1>6. call'[c] = f
  BY <1>2, <1>3 DEF InvFor, GatewayTypeOK
<1>7. TableKept
  BY <1>1, TouchIsKept, UnchangedIsKept DEF ClientReceives, InvFor, TableInv
<1>8. Notified(o, c)
  BY <1>1, <1>5, IdleThread DEF Notified, Gets, InvFor, GatewayTypeOK
<1>9. OwnFrame(o, c)'
  BY <1>2, <1>4, <1>6, <1>7
  DEF OwnFrame, FrameOK, ClientFrameOK, Spawning, Releasing, TableKept, InvFor,
      TableInv, TableTypeOK
<1> QED BY <1>1, <1>2, <1>3, <1>4, <1>7, <1>8, <1>9, SendMoves

\* A connection is accepted or unlinked, or its session id is cleared: only
\* its own record changes, and it has no session or is off the list then.
LEMMA ClientChanges ==
    ASSUME NEW o, InvFor(o), NEW c \in Clients, NEW f \in Frame, NEW r \in ClientSession,
           call' = [call EXCEPT ![c] = f], client' = [client EXCEPT ![c] = r],
           UNCHANGED <<tableVars, apphost, disabled, monitor>>,
           Gets(o, c), OwnFrame(o, c)', call[c].at # "close_client",
           client[c].link = "gone" => r.link = "gone",
           r.link = "none" => r.session_id = 0 /\ f.at = "idle",
           r.foreclosed = client[c].foreclosed,
           r.session_id = 0 \/ (r.link = "gone" /\ r.session_id = client[c].session_id),
           r.session_id = client[c].session_id
           \/ /\ ~Has(client[c].session_id)
              /\ \A a \in AppHosts : apphost[a].launched # client[c].session_id
    PROVE  InvFor(o)'
<1>1. c \in Threads /\ c # Monitor /\ c \notin AppHosts
  BY GatewayAssumption DEF Threads
<1>2. \A u \in Threads : call'[u] = IF u = c THEN f ELSE call[u]
  BY DEF InvFor, GatewayTypeOK
<1>3. \A d \in Clients : client'[d] = IF d = c THEN r ELSE client[d]
  BY DEF InvFor, GatewayTypeOK
<1>4. TableKept /\ TableShrunk /\ IndexComplete' /\ TableInv'
  BY UnchangedIsKept, KeptIsShrunk, KeptIndexComplete
  DEF InvFor, TableInv, tableVars, TableTypeOK, IndexSound, FreshIds, Has, SessionIds
<1>5. GatewayTypeOK'
  BY <1>1, <1>4 DEF InvFor, TableInv, GatewayTypeOK
<1>6. Rely(c)
  BY <1>2, <1>3, <1>4 DEF Rely, TableShrunk, TableKept
<1>7. Frames(o)'
  BY <1>1, <1>6, FramesCarry
<1>8. Stored(o)'
  BY <1>1, <1>2, <1>3, <1>4, StoredCarries
<1>9. \A d \in Clients : Gets(o, d)
  BY <1>3 DEF Gets
<1>10. AckMeansBound'
  BY <1>4, <1>9, AckCarries DEF InvFor
<1>11. AppHostsOK(o)'
  BY <1>1, <1>2, <1>3 DEF InvFor, OwnedBy, AppHostsOK, Threads, At, tableVars
<1>12. ClientsOK(o)'
  <2>1. \A d \in Clients :
          LET s == client'[d].session_id IN
          /\ s # 0 => s < next_session_id' /\ o[s] = d
          /\ client'[d].link = "none" => s = 0 /\ At(d, "idle")'
    BY <1>2, <1>3 DEF InvFor, OwnedBy, ClientsOK, Threads, At, tableVars
  <2>2. \A d \in Clients : \A i \in DOMAIN client'[d].sent :
          LET x == client'[d].sent[i].s IN
          x # 0 => x < next_session_id' /\ o[x] = d
    BY <1>9, SentCarries DEF tableVars
  <2> QED BY <2>1, <2>2 DEF ClientsOK
<1>13. EndIsTold'
  <2>1. ASSUME NEW d \in Clients, NEW s \in SessionIds,
               client'[d].session_id = s, client'[d].link = "linked"
        PROVE  /\ client[d].session_id = s /\ client[d].link = "linked"
               /\ EndNotices(d, s) # {} => EndNotices(d, s)' # {}
               /\ ~WillTell(c, d, s) /\ (Has(s) => Has(s)')
    <3>1. d # c
      BY <1>3, <2>1 DEF SessionIds
    <3>2. EndNotices(d, s) # {} => EndNotices(d, s)' # {}
      BY <1>9, NoticesGrow DEF InvFor
    <3> QED BY <1>1, <1>3, <1>4, <2>1, <3>1, <3>2 DEF WillTell, At, TableKept
  <2>2. /\ EndIsTold /\ disabled \subseteq disabled'
        /\ \A u \in Threads \ {c} : call'[u] = call[u]
        /\ \A d \in Clients : client'[d].foreclosed = client[d].foreclosed
    BY <1>2, <1>3 DEF InvFor
  <2> QED BY <2>1, <2>2, TellingCarries
<1>14. o \in Owners /\ Owners' = Owners
  BY DEF InvFor, Owners, SessionIds
<1> QED BY <1>4, <1>5, <1>7, <1>8, <1>10, <1>11, <1>12, <1>13, <1>14
        DEF InvFor, OwnedBy, Frames


LEMMA AcceptClientKeeps ==
    ASSUME NEW o, InvFor(o), NEW c \in Clients, AcceptClient(c)
    PROVE  InvFor(o)'
<1> DEFINE r == [client[c] EXCEPT !.link = "linked"]
<1>1. /\ UNCHANGED <<tableVars, apphost, disabled, call, monitor>>
      /\ client[c].link = "none" /\ client' = [client EXCEPT ![c] = r]
  BY DEF AcceptClient
<1>2. client[c].session_id = 0 /\ At(c, "idle")
  BY <1>1 DEF InvFor, OwnedBy, ClientsOK
<1>3. c \in Threads /\ call[c] = Idle /\ Idle \in Frame
  BY <1>2, IdleThread
<1>4. /\ r \in ClientSession /\ r.link = "linked"
      /\ r.session_id = client[c].session_id /\ r.sent = client[c].sent
      /\ r.foreclosed = client[c].foreclosed
  BY DEF InvFor, GatewayTypeOK, ClientSession
<1> HIDE DEF r
<1>5. /\ call' = [call EXCEPT ![c] = Idle] /\ call'[c] = Idle
      /\ client'[c] = r
  BY <1>1, <1>3 DEF InvFor, GatewayTypeOK
<1>6. OwnFrame(o, c)'
  BY <1>1, <1>3, <1>5, OwnIdle DEF tableVars
<1>7. Gets(o, c) /\ call[c].at # "close_client"
  BY <1>2, <1>4, <1>5 DEF Gets, At
<1> QED BY <1>1, <1>2, <1>3, <1>4, <1>5, <1>6, <1>7, ClientChanges

LEMMA ClientDisconnectsKeeps ==
    ASSUME NEW o, InvFor(o), NEW c \in Clients, ClientDisconnects(c)
    PROVE  InvFor(o)'
<1> DEFINE s == client[c].session_id
           r == [client[c] EXCEPT !.link = "gone"]
           f == [Idle EXCEPT !.at = "release", !.s = s]
<1>1. /\ UNCHANGED <<tableVars, apphost, disabled, monitor>>
      /\ client[c].link = "linked" /\ At(c, "idle")
      /\ client' = [client EXCEPT ![c] = r]
      /\ call' = [call EXCEPT ![c].at = "release", ![c].s = s]
  BY DEF ClientDisconnects
<1>2. c \in Threads /\ c \notin AppHosts /\ call[c] = Idle /\ Idle \in Frame
  BY <1>1, IdleThread
<1>3. /\ r \in ClientSession /\ r.link = "gone" /\ r.session_id = s
      /\ r.sent = client[c].sent /\ s \in SessionIds \cup {0}
      /\ r.foreclosed = client[c].foreclosed
  BY DEF InvFor, GatewayTypeOK, ClientSession
<1>4. /\ f \in Frame /\ f.at = "release" /\ f.s = s /\ f.client = None
      /\ f.apphost = None /\ f.pid = None
  BY <1>2, <1>3, LabelsArePlaces DEF Idle, Frame
<1>5. call' = [call EXCEPT ![c] = f]
  BY <1>1, <1>2
<1>6. s < next_session_id
  BY DEF InvFor, OwnedBy, ClientsOK, TableInv, TableTypeOK
<1> HIDE DEF f, r
<1>7. client'[c] = r /\ call'[c] = f
  BY <1>1, <1>2, <1>5 DEF InvFor, GatewayTypeOK
<1>8. OwnFrame(o, c)'
  BY <1>1, <1>2, <1>3, <1>4, <1>6, <1>7
  DEF OwnFrame, FrameOK, ClientFrameOK, Spawning, Releasing, tableVars
<1>9. Gets(o, c) /\ call[c].at # "close_client"
  BY <1>1, <1>3, <1>7 DEF Gets, At
<1> QED BY <1>1, <1>3, <1>4, <1>5, <1>8, <1>9, ClientChanges

LEMMA ReportSpawnFailureKeeps ==
    ASSUME NEW o, InvFor(o), NEW c \in Clients, ReportSpawnFailure(c)
    PROVE  InvFor(o)'
<1> DEFINE s == call[c].s
           n == [cmd |-> "ERROR_RESP", s |-> s]
           q == IF c \in disabled THEN client[c].sent ELSE Append(client[c].sent, n)
           r == [client[c] EXCEPT !.session_id = 0, !.sent = q]
<1>1. /\ UNCHANGED <<tableVars, apphost, disabled, monitor>>
      /\ call[c].at = "spawn_error" /\ call' = [call EXCEPT ![c] = Idle]
      /\ client' = [client EXCEPT ![c] = r]
  BY DEF ReportSpawnFailure, At, Return
<1>2. /\ c \in Threads /\ FrameOK(o, c) /\ ClientFrameOK(c) /\ client[c].link # "none"
      /\ call[c] \in Frame
  BY <1>1, BusyThread DEF At
<1>3. /\ s # 0 /\ s = client[c].session_id /\ ~Has(s) /\ s \in SessionIds
      /\ \A a \in AppHosts : apphost[a].launched # s
  BY <1>1, <1>2 DEF ClientFrameOK, Spawning, Frame
<1>4. n \in Notice /\ n.s = s /\ n.cmd = "ERROR_RESP"
  BY <1>3 DEF Notice
<1>5. client[c] \in ClientSession /\ client[c].sent \in Seq(Notice)
  BY DEF InvFor, GatewayTypeOK, ClientSession
<1>6. q \in Seq(Notice)
  BY <1>4, <1>5, Appended
<1>7. /\ r \in ClientSession /\ r.session_id = 0 /\ r.link = client[c].link /\ r.sent = q
      /\ r.foreclosed = client[c].foreclosed
  BY <1>5, <1>6 DEF ClientSession
<1>8. q = client[c].sent \/ q = Append(client[c].sent, n)
  OBVIOUS
<1>9. s < next_session_id /\ o[s] = c
  BY <1>3 DEF InvFor, OwnedBy, ClientsOK
<1> HIDE DEF r, q, n
<1>10. client'[c] = r /\ call'[c] = Idle
  BY <1>1, <1>2 DEF InvFor, GatewayTypeOK
<1>11. Gets(o, c)
  BY <1>4, <1>7, <1>8, <1>9, <1>10 DEF Gets
<1>12. OwnFrame(o, c)'
  BY <1>1, <1>2, <1>10, OwnIdle DEF tableVars
<1>13. Idle \in Frame /\ Idle.at = "idle"
  BY IdleIsFrame DEF Idle
<1> QED BY <1>1, <1>2, <1>3, <1>7, <1>11, <1>12, <1>13, ClientChanges

\* handle_spawn_app() that refuses.
LEMMA SpawnRefusalKeeps ==
    ASSUME NEW o, InvFor(o), NEW c \in Clients, At(c, "spawn"),
           UNCHANGED <<tableVars, apphost, disabled, monitor>>, TableInv',
           NEW s \in {client[c].session_id, 0}, ToClient(c, "ERROR_RESP", s), Return(c)
    PROVE  InvFor(o)'
<1>1. /\ c \in Threads /\ c # Monitor /\ c \notin AppHosts /\ client[c].link # "none"
  BY BusyThread, GatewayAssumption DEF At
<1>2. call' = [call EXCEPT ![c] = Idle] /\ call'[c] = Idle
  BY <1>1 DEF Return, InvFor, GatewayTypeOK
<1>3. OwnFrame(o, c)'
  BY <1>1, <1>2, OwnIdle DEF tableVars
<1>4. s \in SessionIds \cup {0} /\ (s # 0 => s < next_session_id /\ o[s] = c)
  BY DEF InvFor, GatewayTypeOK, ClientSession, OwnedBy, ClientsOK
<1>5. \A d \in Clients, x \in SessionIds : ~WillTell(c, d, x)
  BY DEF WillTell, At
<1>6. TableKept
  BY UnchangedIsKept
<1>7. Notified(o, c)
  <2>1. PICK x \in SessionIds \cup {0},
             cmd \in {"SESSION_ACK", "ERROR_RESP", "CLOSE_SESSION"} :
          x = s /\ cmd = "ERROR_RESP" /\ ToClient(c, cmd, x)
    BY <1>4
  <2> QED BY <1>4, <1>5, <1>6, <2>1, SendNotifies
<1> QED BY <1>1, <1>2, <1>3, <1>6, <1>7, SendMoves, IdleIsFrame


\* handle_spawn_app() that creates session n: its owner is c from now on.
LEMMA CreateKeeps ==
    ASSUME NEW o, InvFor(o), NEW c \in Clients, At(c, "spawn"),
           NEW n \in SessionIds, n = next_session_id,
           client[c].session_id = 0, CreateSpawningSession(c),
           NEW r \in ClientSession, r.session_id = n, r.link = client[c].link,
           r.sent = client[c].sent, BeingClosed(n) => r.foreclosed,
           client' = [client EXCEPT ![c] = r],
           call' = [call EXCEPT ![c].at = "fork", ![c].s = n],
           UNCHANGED <<apphost, disabled, monitor>>, TableInv',
           NEW p, p = [o EXCEPT ![n] = c]
    PROVE  InvFor(p)'
<1> DEFINE f == [call[c] EXCEPT !.at = "fork", !.s = n]
<1>1. /\ call[c] \in Frame /\ call[c].at = "spawn" /\ client[c].link # "none"
      /\ FrameOK(o, c) /\ ClientFrameOK(c)
      /\ c \in Threads /\ c # Monitor /\ c \notin AppHosts
  BY BusyThread DEF At
<1>2. /\ f \in Frame /\ f.at = "fork" /\ f.s = n /\ f.client = None
      /\ f.apphost = None /\ f.pid = None
  BY <1>1, LabelsArePlaces DEF Frame, ClientFrameOK
<1>3. /\ r \in ClientSession /\ r.session_id = n /\ r.link = client[c].link
      /\ r.sent = client[c].sent
  OBVIOUS
<1>4. call' = [call EXCEPT ![c] = f] /\ client' = [client EXCEPT ![c] = r]
  OBVIOUS
<1> HIDE DEF f
<1>5. /\ \A u \in Threads : call'[u] = IF u = c THEN f ELSE call[u]
      /\ \A d \in Clients : client'[d] = IF d = c THEN r ELSE client[d]
  BY <1>4 DEF InvFor, GatewayTypeOK
<1>6. /\ p \in Owners /\ p[n] = c /\ \A x \in SessionIds : x # n => p[x] = o[x]
      /\ Owners' = Owners
  BY DEF InvFor, Owners, SessionIds
<1>7. /\ next_session_id' = n + 1 /\ n < next_session_id' /\ ~Has(n) /\ n # 0
      /\ by_apphost' = by_apphost /\ by_pid' = by_pid
      /\ \A d \in Clients : by_client'[d] = IF d = c THEN n ELSE by_client[d]
  BY DEF CreateSpawningSession, InvFor, TableInv, FreshIds, TableTypeOK, SessionIds
<1>8. /\ \A x \in SessionIds : x # n => by_session'[x] = by_session[x]
      /\ by_session'[n].state = "SPAWNING" /\ by_session'[n].client_conn = c
      /\ by_session'[n].apphost_conn = None /\ by_session'[n].apphost_pid = None
  BY DEF CreateSpawningSession, InvFor, TableInv, TableTypeOK, NoSession
<1>9. /\ Has(n)' /\ \A x : x # n => (Has(x)' <=> Has(x))
  BY <1>8 DEF Has, SessionIds
<1>10. GatewayTypeOK'
  BY <1>2, <1>3, <1>4 DEF InvFor, GatewayTypeOK, TableInv
<1>11. Stored(p)'
  <2> SUFFICES ASSUME NEW x \in SessionIds, Has(x)'
               PROVE  LET rt == by_session'[x] IN
                      /\ rt.client_conn = p[x] /\ p[x] \in Clients
                      /\ client'[p[x]].session_id = x
                      /\ \A a \in AppHosts : rt.apphost_conn = a =>
                           /\ apphost'[a].launched = x
                           /\ apphost'[a].session_id = x \/ At(a, "ready_route")'
                      /\ \A q \in Pids : rt.apphost_pid = q => apphost'[q].launched = x
    BY DEF Stored, SessionIds
  <2>1. CASE x = n
    BY <1>3, <1>5, <1>6, <1>8, <2>1, TableAssumption
  <2>2. CASE x # n
    <3>1. /\ by_session[x].client_conn = o[x] /\ o[x] \in Clients
          /\ client[o[x]].session_id = x
          /\ \A a \in AppHosts : by_session[x].apphost_conn = a =>
               /\ apphost[a].launched = x
               /\ apphost[a].session_id = x \/ At(a, "ready_route")
          /\ \A q \in Pids : by_session[x].apphost_pid = q => apphost[q].launched = x
      BY <1>9, <2>2 DEF InvFor, OwnedBy, Stored
    <3>2. o[x] # c
      BY <3>1 DEF SessionIds
    <3>3. \A a \in AppHosts : At(a, "ready_route") => At(a, "ready_route")'
      BY <1>1, <1>5 DEF At, Threads
    <3> QED BY <1>5, <1>6, <1>8, <2>2, <3>1, <3>2, <3>3
  <2> QED BY <2>1, <2>2
<1>12. ClientsOK(p)'
  <2>1. ASSUME NEW d \in Clients, client'[d].session_id # 0
        PROVE  client'[d].session_id < next_session_id' /\ p[client'[d].session_id] = d
    <3>1. CASE d = c
      BY <1>3, <1>5, <1>6, <1>7, <3>1 DEF SessionIds
    <3>2. CASE d # c
      <4>1. /\ client[d].session_id \in SessionIds
            /\ client[d].session_id < n /\ o[client[d].session_id] = d
        BY <1>5, <2>1, <3>2 DEF InvFor, OwnedBy, ClientsOK, GatewayTypeOK, ClientSession
      <4> QED BY <1>5, <1>6, <1>7, <3>2, <4>1 DEF SessionIds
    <3> QED BY <3>1, <3>2
  <2>2. \A d \in Clients : client'[d].link = "none" =>
          client'[d].session_id = 0 /\ At(d, "idle")'
    <3> TAKE d \in Clients
    <3>1. CASE d = c
      BY <1>1, <1>3, <1>5, <3>1
    <3>2. CASE d # c
      <4>1. client[d].link = "none" => client[d].session_id = 0 /\ At(d, "idle")
        BY DEF InvFor, OwnedBy, ClientsOK
      <4>2. client'[d] = client[d] /\ call'[d] = call[d]
        BY <1>5, <3>2 DEF Threads
      <4> QED BY <4>1, <4>2 DEF At
    <3> QED BY <3>1, <3>2
  <2>3. ASSUME NEW d \in Clients, NEW i \in DOMAIN client'[d].sent,
               client'[d].sent[i].s # 0
        PROVE  LET x == client'[d].sent[i].s IN x < next_session_id' /\ p[x] = d
    <3>4. client[d].sent \in Seq(Notice)
      BY DEF InvFor, GatewayTypeOK, ClientSession
    <3>1. client'[d].sent = client[d].sent
      BY <1>3, <1>5
    <3>2. client[d].sent[i].s \in SessionIds
      <4>1. i \in DOMAIN client[d].sent /\ client[d].sent[i].s # 0
        BY <2>3, <3>1
      <4>2. client[d].sent[i] \in Notice
        BY <3>4, <4>1
      <4> QED BY <4>1, <4>2 DEF Notice
    <3>3. client[d].sent[i].s < n /\ o[client[d].sent[i].s] = d
      BY <2>3, <3>1 DEF InvFor, OwnedBy, ClientsOK
    <3> QED BY <1>6, <1>7, <3>1, <3>2, <3>3 DEF SessionIds
  <2> QED BY <2>1, <2>2, <2>3 DEF ClientsOK
<1>13. ASSUME NEW a \in AppHosts, apphost[a].launched # 0
       PROVE  /\ apphost[a].launched \in SessionIds /\ apphost[a].launched < n
              /\ o[apphost[a].launched] \in Clients \ {c}
              /\ client[o[apphost[a].launched]].session_id = apphost[a].launched
  BY <1>13 DEF InvFor, OwnedBy, AppHostsOK, GatewayTypeOK, AppHostSession
<1>14. AppHostsOK(p)'
  <2>1. \A a \in AppHosts : At(a, "idle") => At(a, "idle")'
    BY <1>1, <1>5 DEF At, Threads
  <2>2. ASSUME NEW a \in AppHosts, apphost[a].launched # 0
        PROVE  /\ apphost[a].launched < next_session_id'
               /\ p[apphost[a].launched] \in Clients
               /\ client'[p[apphost[a].launched]].session_id = apphost[a].launched
    BY <1>5, <1>6, <1>7, <1>13, <2>2 DEF SessionIds
  <2> QED BY <2>1, <2>2 DEF InvFor, OwnedBy, AppHostsOK
<1>15. ASSUME NEW t \in Threads, t # c, call[t].s # n
       PROVE  /\ call'[t] = call[t] /\ FrameOK(o, t)
              /\ call[t].s < n => call[t].s < next_session_id'
              /\ Has(call[t].s)' <=> Has(call[t].s)
              /\ call[t].s # 0 => p[call[t].s] = o[call[t].s]
              /\ Has(call[t].s) =>
                   client'[p[call[t].s]].foreclosed = client[o[call[t].s]].foreclosed
  <2>1. call'[t] = call[t] /\ FrameOK(o, t) /\ call[t].s \in SessionIds \cup {0}
    BY <1>5, <1>15, CallHasType DEF InvFor, OwnedBy
  <2>2. call[t].s < n => call[t].s < next_session_id'
    BY <1>7, <2>1 DEF SessionIds
  <2>3. Has(call[t].s)' <=> Has(call[t].s)
    BY <1>8, <1>15, <2>1 DEF Has
  <2>4. call[t].s # 0 => p[call[t].s] = o[call[t].s]
    BY <1>6, <1>15, <2>1
  <2>5. ASSUME Has(call[t].s)
        PROVE  client'[p[call[t].s]].foreclosed = client[o[call[t].s]].foreclosed
    <3>1. call[t].s # 0 /\ o[call[t].s] \in Clients /\ o[call[t].s] # c
      BY <2>1, <2>5 DEF InvFor, OwnedBy, Stored, Has, SessionIds
    <3> QED BY <1>5, <2>4, <3>1
  <2> QED BY <2>1, <2>2, <2>3, <2>4, <2>5
<1>16. ASSUME NEW t \in Threads, t # c, call[t].s = n
       PROVE  /\ call'[t] = call[t] /\ t \in Clients /\ call[t].at \in Naming
              /\ call[t].client = None /\ call[t].apphost = None /\ call[t].pid = None
              /\ call[t].at \in {"close_pid", "close_remove"} =>
                   client'[p[n]].foreclosed
  <2>1. call'[t] = call[t] /\ FrameOK(o, t)
    BY <1>5, <1>16 DEF InvFor, OwnedBy
  <2>2. ~(call[t].s < next_session_id)
    BY <1>16 DEF SessionIds
  <2>3. call[t].at \in {"close_pid", "close_remove"} => BeingClosed(n)
    BY <1>16 DEF BeingClosed
  <2> QED BY <1>3, <1>5, <1>6, <2>1, <2>2, <2>3 DEF FrameOK
<1>23. \A t \in Threads : FrameOK(p, t)'
  <2>1. ASSUME NEW t \in Threads, t # c, call[t].s # n PROVE FrameOK(p, t)'
    <3>1. /\ call'[t] = call[t] /\ FrameOK(o, t)
          /\ call[t].s < n => call[t].s < next_session_id'
          /\ Has(call[t].s)' <=> Has(call[t].s)
          /\ call[t].s # 0 => p[call[t].s] = o[call[t].s]
      BY <1>15, <2>1
    <3>2. Has(call[t].s) /\ client[o[call[t].s]].foreclosed =>
             client'[p[call[t].s]].foreclosed
      BY <1>15, <2>1
    <3> QED BY <3>1, <3>2 DEF FrameOK
  <2>2. ASSUME NEW t \in Threads, t # c, call[t].s = n PROVE FrameOK(p, t)'
    BY <1>7, <1>16, <2>2 DEF FrameOK, Naming, Idle
  <2>3. FrameOK(p, c)'
    <3>1. call'[c] = f
      BY <1>1, <1>5
    <3> QED BY <1>2, <1>7, <3>1 DEF FrameOK
  <2> QED BY <2>1, <2>2, <2>3
<1>17. \A d \in Clients : ClientFrameOK(d)'
  <2>1. ASSUME NEW d \in Clients, d # c PROVE ClientFrameOK(d)'
    <3>1. client'[d] = client[d] /\ d \in Threads /\ ClientFrameOK(d)
      BY <1>5, <2>1 DEF Threads, InvFor, OwnedBy
    <3>2. CASE call[d].s # n
      <4>1. call'[d] = call[d] /\ (Has(call[d].s)' <=> Has(call[d].s))
        BY <1>15, <2>1, <3>1, <3>2
      <4> QED BY <3>1, <4>1 DEF ClientFrameOK
    <3>3. CASE call[d].s = n
      BY <1>16, <2>1, <3>1, <3>3 DEF ClientFrameOK, Naming, Spawning, Releasing
    <3> QED BY <3>2, <3>3
  <2>2. ClientFrameOK(c)'
    <3>1. call'[c] = f /\ client'[c].session_id = n
      BY <1>1, <1>3, <1>5
    <3>2. \A a \in AppHosts : apphost'[a].launched # n
      BY <1>7, <1>13 DEF SessionIds
    <3> QED BY <1>2, <1>7, <3>1, <3>2 DEF ClientFrameOK, Releasing, Spawning
  <2> QED BY <2>1, <2>2
<1>18. \A a \in AppHosts : AppHostFrameOK(a)'
  <2> TAKE a \in AppHosts
  <2>1. a \in Threads /\ a # c /\ AppHostFrameOK(a) /\ call[a].s # n
    BY <1>1, <1>16, GatewayAssumption DEF Threads, InvFor, OwnedBy
  <2>2. Has(call[a].s) => by_session'[call[a].s] = by_session[call[a].s]
    BY <1>7, <1>8 DEF Has
  <2> QED BY <1>15, <2>1, <2>2 DEF AppHostFrameOK
<1>19. MonitorOK(p)'
  <2>1. /\ Monitor \in Threads /\ Monitor # c /\ MonitorOK(o)
        /\ \A d \in monitor.due : d[1] \in SessionIds
    BY <1>1 DEF Threads, InvFor, OwnedBy, GatewayTypeOK
  <2>2. \A d \in monitor.due : d[1] < next_session_id'
    BY <1>7, <2>1 DEF MonitorOK, SessionIds
  <2>3. /\ call'[Monitor] = call[Monitor]
        /\ call[Monitor].s # 0 => p[call[Monitor].s] = o[call[Monitor].s]
    BY <1>15, <1>16, <2>1, GatewayAssumption
  <2> QED BY <2>1, <2>2, <2>3 DEF MonitorOK
<1>20. IndexComplete'
  <2> SUFFICES ASSUME NEW x \in SessionIds, Has(x)'
               PROVE  LET rt == by_session'[x] IN
                      /\ rt.client_conn # None => by_client'[rt.client_conn] = x
                      /\ rt.apphost_conn # None => by_apphost'[rt.apphost_conn] = x
                      /\ rt.apphost_pid # None => by_pid'[rt.apphost_pid] = x
    BY DEF IndexComplete, SessionIds
  <2>1. CASE x = n
    BY <1>7, <1>8, <2>1
  <2>2. CASE x # n
    <3>1. Has(x) /\ by_session[x].client_conn \in Clients \ {c}
      BY <1>9, <2>2 DEF InvFor, OwnedBy, Stored, SessionIds
    <3> QED BY <1>7, <1>8, <2>2, <3>1 DEF InvFor, IndexComplete
  <2> QED BY <2>1, <2>2
<1>21. AckMeansBound'
  <2> SUFFICES ASSUME NEW d \in Clients, NEW x \in SessionIds, Knows(d, x)', Has(x)'
               PROVE  by_session'[x].apphost_conn # None
    BY DEF AckMeansBound, SessionIds
  <2>1. client'[d].sent = client[d].sent
    BY <1>3, <1>5
  <2>2. Knows(d, x) /\ x < n
    BY <2>1 DEF Knows, InvFor, OwnedBy, ClientsOK, SessionIds
  <2> QED BY <1>8, <1>9, <2>2 DEF InvFor, AckMeansBound, SessionIds
<1>22. EndIsTold'
  <2> SUFFICES ASSUME NEW d \in Clients, NEW x \in SessionIds,
                      client'[d].session_id = x, ~Has(x)',
                      client'[d].link = "linked", d \notin disabled',
                      ~client'[d].foreclosed
               PROVE  EndNotices(d, x)' # {} \/ \E u \in Threads : WillTell(u, d, x)'
    BY DEF EndIsTold, SessionIds, Threads
  <2>1. d # c /\ x # n /\ ~Has(x)
    BY <1>3, <1>5, <1>9
  <2>2. EndNotices(d, x)' = EndNotices(d, x)
    BY <1>5, <2>1 DEF EndNotices
  <2>3. EndNotices(d, x) # {} \/ \E u \in Threads : WillTell(u, d, x)
    BY <1>5, <2>1 DEF InvFor, EndIsTold
  <2>4. ASSUME NEW u \in Threads, WillTell(u, d, x)
        PROVE  WillTell(u, d, x)'
    BY <1>1, <1>5, <2>1, <2>4 DEF WillTell, At
  <2> QED BY <2>2, <2>3, <2>4
<1> QED BY <1>6, <1>10, <1>11, <1>12, <1>14, <1>17, <1>18, <1>19, <1>20, <1>21,
           <1>22, <1>23 DEF InvFor, OwnedBy


LEMMA HandleSpawnAppKeeps ==
    ASSUME NEW o, InvFor(o), NEW c \in Clients, HandleSpawnApp(c), TableInv'
    PROVE  \E p : InvFor(p)'
<1>1. /\ At(c, "spawn") /\ UNCHANGED <<apphost, disabled, monitor>>
  BY DEF HandleSpawnApp
<1>2. CASE /\ UNCHANGED tableVars /\ Return(c)
           /\ \/ ToClient(c, "ERROR_RESP", client[c].session_id)
              \/ ToClient(c, "ERROR_RESP", 0)
  <2>1. PICK s \in {client[c].session_id, 0} : ToClient(c, "ERROR_RESP", s)
    BY <1>2
  <2> QED BY <1>1, <1>2, <2>1, SpawnRefusalKeeps
<1>3. CASE /\ ~SpawnRefused(c) /\ CreateSpawningSession(c)
           /\ client' = [client EXCEPT
                ![c].session_id = next_session_id,
                ![c].foreclosed = BeingClosed(next_session_id)]
           /\ call' = [call EXCEPT ![c].at = "fork", ![c].s = next_session_id]
  <2>1. PICK n \in SessionIds : n = next_session_id
    BY <1>3 DEF CreateSpawningSession
  <2>2. PICK p : p = [o EXCEPT ![n] = c]
    OBVIOUS
  <2>3. client[c].session_id = 0
    BY <1>3 DEF SpawnRefused
  <2>4. PICK b \in BOOLEAN : b = BeingClosed(n)
    BY DEF BeingClosed
  <2>5. PICK r : r = [client[c] EXCEPT !.session_id = n, !.foreclosed = b]
    OBVIOUS
  <2>6. /\ r \in ClientSession /\ r.session_id = n /\ r.link = client[c].link
        /\ r.sent = client[c].sent /\ r.foreclosed = b
    BY <2>5 DEF InvFor, GatewayTypeOK, ClientSession
  <2>7. /\ client' = [client EXCEPT ![c] = r]
        /\ call' = [call EXCEPT ![c].at = "fork", ![c].s = n]
    BY <1>3, <2>1, <2>4, <2>5
  <2>8. BeingClosed(n) => r.foreclosed
    BY <2>4, <2>6
  <2> QED BY <1>1, <1>3, <2>1, <2>2, <2>3, <2>6, <2>7, <2>8, CreateKeeps
<1> QED BY <1>2, <1>3 DEF HandleSpawnApp

\* A handler that fills in a route of its session and goes on.
LEMMA RouteMoves ==
    ASSUME NEW o, InvFor(o), NEW t \in Clients \cup AppHosts, NEW f \in Frame,
           call' = [call EXCEPT ![t] = f],
           UNCHANGED <<client, apphost, disabled, monitor>>,
           next_session_id' = next_session_id,
           \A x : Has(x)' <=> Has(x),
           \A x \in SessionIds : by_session[x].apphost_conn # None =>
              by_session'[x].apphost_conn # None,
           Stored(o)', IndexComplete', TableInv', OwnFrame(o, t)',
           t \in Clients => client[t].link # "none",
           t \in AppHosts => apphost[t].link # "none",
           call[t].at \notin {"close_client", "release_tell", "spawn_error"}
    PROVE  InvFor(o)'
<1>1. t \in Threads /\ t # Monitor /\ (t \in Clients => t \notin AppHosts)
  BY GatewayAssumption DEF Threads
<1>2. \A u \in Threads : call'[u] = IF u = t THEN f ELSE call[u]
  BY DEF InvFor, GatewayTypeOK
<1>3. GatewayTypeOK'
  BY <1>1 DEF InvFor, TableInv, GatewayTypeOK
<1>4. Rely(t)
  BY <1>2 DEF Rely
<1>5. Frames(o)'
  BY <1>1, <1>4, FramesCarry
<1>6. ClientsOK(o)' /\ AppHostsOK(o)'
  BY <1>1, <1>2 DEF InvFor, OwnedBy, ClientsOK, AppHostsOK, At, Threads
<1>7. AckMeansBound'
  BY DEF InvFor, AckMeansBound, Knows, Has, SessionIds
<1>8. EndIsTold'
  <2>1. /\ EndIsTold /\ disabled \subseteq disabled'
        /\ \A u \in Threads \ {t} : call'[u] = call[u]
    BY <1>2 DEF InvFor
  <2>2. \A c \in Clients, s \in SessionIds : EndNotices(c, s)' = EndNotices(c, s)
    BY DEF EndNotices
  <2>3. \A c \in Clients, s \in SessionIds : ~WillTell(t, c, s)
    BY DEF WillTell, At
  <2> QED BY <2>1, <2>2, <2>3, TellingCarries
<1>9. o \in Owners /\ Owners' = Owners
  BY DEF InvFor, Owners, SessionIds
<1> QED BY <1>3, <1>5, <1>6, <1>7, <1>8, <1>9 DEF InvFor, OwnedBy, Frames

LEMMA RecordPidKeeps ==
    ASSUME NEW o, InvFor(o), NEW c \in Clients, RecordPid(c), TableInv'
    PROVE  InvFor(o)'
<1>1. /\ UNCHANGED <<client, apphost, disabled, monitor>>
      /\ call[c].at = "set_pid" /\ call' = [call EXCEPT ![c] = Idle]
      /\ SetAppHostPid(call[c].s, call[c].pid)
  BY DEF RecordPid, At, Return
<1>2. /\ c \in Threads /\ c \notin AppHosts /\ client[c].link # "none"
      /\ call[c] \in Frame /\ FrameOK(o, c) /\ ClientFrameOK(c)
  BY <1>1, BusyThread DEF At
<1>3. PICK s \in SessionIds, p \in Pids :
        /\ s = call[c].s /\ p = call[c].pid /\ apphost[p].launched = s
  BY <1>1, <1>2 DEF ClientFrameOK, FrameOK, Spawning, Frame
<1>4. call'[c] = Idle /\ Idle \in Frame
  BY <1>1, <1>2, IdleIsFrame DEF InvFor, GatewayTypeOK
<1>5. CASE ~Has(s)
  <2>1. UNCHANGED tableVars
    BY <1>1, <1>3, <1>5 DEF SetAppHostPid
  <2>2. OwnFrame(o, c)'
    BY <1>2, <1>4, <2>1, OwnIdle DEF tableVars
  <2> QED BY <1>1, <1>2, <1>4, <2>1, <2>2, UnchangedIsKept, HandlerMoves
<1>6. CASE Has(s)
  <2> DEFINE old == by_session[s].apphost_pid
  <2>1. /\ by_session' = [by_session EXCEPT ![s].apphost_pid = p]
        /\ by_pid' = [Erase(by_pid, old) EXCEPT ![p] = s]
        /\ UNCHANGED <<next_session_id, by_client, by_apphost>>
    BY <1>1, <1>3, <1>6 DEF SetAppHostPid
  <2>2. \A x \in SessionIds :
          /\ by_session'[x].state = by_session[x].state
          /\ by_session'[x].client_conn = by_session[x].client_conn
          /\ by_session'[x].apphost_conn = by_session[x].apphost_conn
          /\ by_session'[x].apphost_pid = IF x = s THEN p ELSE by_session[x].apphost_pid
    BY <2>1 DEF InvFor, TableInv, TableTypeOK, SessionRuntime
  <2>3. \A x : Has(x)' <=> Has(x)
    BY <2>2 DEF Has, SessionIds
  <2>4. OwnFrame(o, c)'
    BY <1>2, <1>4, <2>1, OwnIdle
  <2>5. Stored(o)'
    <3>1. \A a \in AppHosts : At(a, "ready_route") => At(a, "ready_route")'
      BY <1>1, <1>2 DEF At, Threads, InvFor, GatewayTypeOK
    <3>2. ASSUME NEW x \in SessionIds, Has(x)'
          PROVE  LET rt == by_session'[x] IN
                 /\ rt.client_conn = o[x] /\ o[x] \in Clients
                 /\ client'[o[x]].session_id = x
                 /\ \A a \in AppHosts : rt.apphost_conn = a =>
                      /\ apphost'[a].launched = x
                      /\ apphost'[a].session_id = x \/ At(a, "ready_route")'
                 /\ \A q \in Pids : rt.apphost_pid = q => apphost'[q].launched = x
      BY <1>1, <1>3, <2>2, <2>3, <3>1, <3>2 DEF InvFor, OwnedBy, Stored
    <3> QED BY <3>2 DEF Stored, SessionIds
  <2>6. IndexComplete'
    <3> SUFFICES ASSUME NEW x \in SessionIds, Has(x)'
                 PROVE  LET rt == by_session'[x] IN
                        /\ rt.client_conn # None => by_client'[rt.client_conn] = x
                        /\ rt.apphost_conn # None => by_apphost'[rt.apphost_conn] = x
                        /\ rt.apphost_pid # None => by_pid'[rt.apphost_pid] = x
      BY DEF IndexComplete, SessionIds
    <3>1. \A q \in Pids : by_pid'[q] =
            IF q = p THEN s ELSE IF q = old THEN 0 ELSE by_pid[q]
      BY <2>1, EraseType DEF InvFor, TableInv, TableTypeOK
    <3>2. CASE x = s
      BY <1>6, <2>1, <2>2, <3>1, <3>2 DEF InvFor, IndexComplete
    <3>3. CASE x # s
      <4>1. /\ Has(x) /\ by_session[x].apphost_pid \in Pids \cup {None}
            /\ by_session[x].apphost_pid # None => by_pid[by_session[x].apphost_pid] = x
        BY <2>3 DEF InvFor, IndexComplete, TableInv, TableTypeOK, SessionRuntime
      <4>2. by_session[x].apphost_pid # p
        BY <1>3, <3>3, <4>1 DEF InvFor, OwnedBy, Stored
      <4>3. by_session[x].apphost_pid # None => by_session[x].apphost_pid # old
        BY <1>6, <3>3, <4>1 DEF InvFor, IndexComplete
      <4>4. by_session[x].apphost_pid # None => by_pid'[by_session[x].apphost_pid] = x
        BY <3>1, <4>1, <4>2, <4>3
      <4>5. /\ by_session[x].client_conn # None => by_client[by_session[x].client_conn] = x
            /\ by_session[x].apphost_conn # None => by_apphost[by_session[x].apphost_conn] = x
        BY <4>1 DEF InvFor, IndexComplete
      <4> QED BY <2>1, <2>2, <3>3, <4>4, <4>5
    <3> QED BY <3>2, <3>3
  <2>7. /\ next_session_id' = next_session_id
        /\ \A x \in SessionIds : by_session[x].apphost_conn # None =>
             by_session'[x].apphost_conn # None
    BY <2>1, <2>2
  <2> QED BY <1>1, <1>2, <1>4, <2>3, <2>4, <2>5, <2>6, <2>7, RouteMoves
<1> QED BY <1>5, <1>6

LEMMA UndoSpawnKeeps ==
    ASSUME NEW o, InvFor(o), NEW c \in Clients, UndoSpawn(c), TableInv'
    PROVE  InvFor(o)'
<1> DEFINE s == call[c].s
           f == [call[c] EXCEPT !.at = "spawn_error"]
<1>1. /\ UNCHANGED <<client, apphost, disabled, monitor>> /\ RemoveSession(s)
      /\ call[c].at = "spawn_undo" /\ call' = [call EXCEPT ![c] = f]
  BY DEF UndoSpawn, At, Goto
<1>2. /\ c \in Threads /\ c \notin AppHosts /\ c # Monitor /\ client[c].link # "none"
      /\ call[c] \in Frame /\ FrameOK(o, c) /\ ClientFrameOK(c)
  BY <1>1, BusyThread DEF At
<1>3. /\ f \in Frame /\ f.at = "spawn_error" /\ f.s = s /\ f.pid = call[c].pid
      /\ f.client = call[c].client /\ f.apphost = call[c].apphost
  BY <1>2, LabelsArePlaces DEF Frame
<1> HIDE DEF f
<1>4. call'[c] = f
  BY <1>1, <1>2 DEF InvFor, GatewayTypeOK
<1>5. /\ next_session_id' = next_session_id /\ \A x : Has(x)' <=> Has(x) /\ x # s
  BY <1>1, RemoveIsShrunk DEF TableShrunk, InvFor, TableInv
<1>6. OwnFrame(o, c)'
  <2>1. ~Has(call[c].s)'
    BY <1>3, <1>4, <1>5 DEF Has
  <2> QED BY <1>1, <1>2, <1>3, <1>4, <1>5, <2>1
          DEF OwnFrame, FrameOK, ClientFrameOK, Spawning, Releasing, Naming
<1>7. ASSUME NEW d \in Clients, NEW x \in SessionIds, x = s, o[x] = d
      PROVE  WillTell(c, d, x)'
  <2>1. c = d
    BY <1>1, <1>2, <1>7 DEF ClientFrameOK, Spawning, InvFor, OwnedBy, ClientsOK
  <2> QED BY <1>3, <1>4, <1>7, <2>1 DEF WillTell, At
<1> QED BY <1>1, <1>2, <1>3, <1>6, <1>7, RemoveMoves


LEMMA ReleaseClientFindKeeps ==
    ASSUME NEW o, InvFor(o), NEW c \in Clients, ReleaseClientFind(c), TableInv'
    PROVE  InvFor(o)'
<1> DEFINE s == call[c].s
           f == [call[c] EXCEPT !.at = "release_remove", !.apphost = FindAppHost(s)]
<1>1. /\ UNCHANGED <<tableVars, client, apphost, disabled, monitor>>
      /\ call[c].at = "release" /\ call' = [call EXCEPT ![c] = f]
  BY DEF ReleaseClientFind, At
<1>2. /\ f \in Frame /\ f.at = "release_remove" /\ f.s = s /\ f.pid = call[c].pid
      /\ f.client = call[c].client /\ f.apphost = FindAppHost(s)
  BY <1>1, BusyThread, Finding, LabelsArePlaces DEF Frame, At
<1> HIDE DEF f
<1>3. call'[c] = f
  BY <1>1, BusyThread DEF InvFor, GatewayTypeOK, At
<1>4. OwnFrame(o, c)'
  BY <1>1, <1>2, <1>3, BusyThread, Finding
  DEF OwnFrame, FrameOK, ClientFrameOK, Spawning, Releasing, Naming, tableVars, Has, At
<1> QED BY <1>1, <1>2, <1>4, BusyThread, UnchangedIsKept, HandlerMoves DEF At

\* A Client without a session is not in the index either.
LEMMA ReleaseClientNoSessionKeeps ==
    ASSUME NEW o, InvFor(o), NEW c \in Clients, ReleaseClientNoSession(c), TableInv'
    PROVE  InvFor(o)'
<1>1. /\ UNCHANGED <<client, apphost, disabled, monitor>> /\ RemoveByClient(c)
      /\ call[c].at = "release" /\ call[c].s = 0 /\ call' = [call EXCEPT ![c] = Idle]
  BY DEF ReleaseClientNoSession, At, Return
<1>2. client[c].session_id = 0
  BY <1>1, BusyThread DEF ClientFrameOK, Releasing, At
<1>3. by_client[c] = 0
  <2>1. by_client[c] # 0 =>
          Has(by_client[c]) /\ by_session[by_client[c]].client_conn = c
    BY DEF InvFor, TableInv, IndexSound
  <2> QED BY <1>2, <2>1 DEF InvFor, OwnedBy, Stored, Has
<1>4. UNCHANGED tableVars
  BY <1>1, <1>3 DEF RemoveByClient
<1>5. call'[c] = Idle
  BY <1>1, BusyThread DEF InvFor, GatewayTypeOK, At
<1>6. OwnFrame(o, c)'
  BY <1>1, <1>4, <1>5, BusyThread, OwnIdle DEF tableVars, At
<1> QED BY <1>1, <1>4, <1>6, BusyThread, UnchangedIsKept, HandlerMoves, IdleIsFrame DEF At

LEMMA ReleaseClientRemoveKeeps ==
    ASSUME NEW o, InvFor(o), NEW c \in Clients, ReleaseClientRemove(c), TableInv'
    PROVE  InvFor(o)'
<1> DEFINE s == call[c].s
           f == [call[c] EXCEPT !.at = "release_tell"]
<1>1. /\ UNCHANGED <<client, apphost, disabled, monitor>> /\ RemoveSession(s)
      /\ call[c].at = "release_remove" /\ call' = [call EXCEPT ![c] = f]
  BY DEF ReleaseClientRemove, At, Goto
<1>2. /\ c \in Threads /\ c \notin AppHosts /\ c # Monitor /\ client[c].link = "gone"
      /\ call[c] \in Frame /\ FrameOK(o, c) /\ ClientFrameOK(c)
      /\ s = client[c].session_id
  BY <1>1, BusyThread DEF At, ClientFrameOK, Releasing
<1>3. /\ f \in Frame /\ f.at = "release_tell" /\ f.s = s /\ f.pid = call[c].pid
      /\ f.client = call[c].client /\ f.apphost = call[c].apphost
  BY <1>2, LabelsArePlaces DEF Frame
<1> HIDE DEF f
<1>4. call'[c] = f
  BY <1>1, <1>2 DEF InvFor, GatewayTypeOK
<1>5. next_session_id' = next_session_id
  BY <1>1, RemoveIsShrunk DEF TableShrunk, InvFor, TableInv
<1>6. OwnFrame(o, c)'
  BY <1>1, <1>2, <1>3, <1>4, <1>5
  DEF OwnFrame, FrameOK, ClientFrameOK, Spawning, Releasing, Naming
<1>7. ASSUME NEW d \in Clients, NEW x \in SessionIds, x = s, o[x] = d
      PROVE  client[d].link = "gone"
  BY <1>2, <1>7 DEF InvFor, OwnedBy, ClientsOK, SessionIds
<1> QED BY <1>1, <1>2, <1>3, <1>6, <1>7, RemoveMoves

LEMMA ReleaseClientTellKeeps ==
    ASSUME NEW o, InvFor(o), NEW c \in Clients, ReleaseClientTell(c), TableInv'
    PROVE  InvFor(o)'
<1> DEFINE s == call[c].s
<1>1. /\ UNCHANGED <<tableVars, client, disabled, monitor>>
      /\ TellAppHost(call[c].apphost, s)
      /\ call[c].at = "release_tell" /\ call' = [call EXCEPT ![c] = Idle]
  BY DEF ReleaseClientTell, At, Return
<1>2. /\ c \in Threads /\ c \notin AppHosts /\ c # Monitor /\ client[c].link = "gone"
      /\ call[c] \in Frame /\ FrameOK(o, c)
  BY <1>1, BusyThread DEF At, ClientFrameOK, Releasing
<1>3. call'[c] = Idle
  BY <1>1, <1>2 DEF InvFor, GatewayTypeOK
<1>4. /\ call[c].apphost \in AppHosts \cup {None} /\ s \in SessionIds \cup {0}
      /\ call[c].apphost # None => s # 0 /\ apphost[call[c].apphost].launched = s
  BY <1>2 DEF Frame, FrameOK
<1>5. /\ apphost' \in [AppHosts -> AppHostSession]
      /\ \A b \in AppHosts :
           /\ apphost'[b].process = apphost[b].process
           /\ apphost'[b].launched = apphost[b].launched
           /\ apphost'[b].link = apphost[b].link
           /\ apphost'[b].session_id = apphost[b].session_id
           /\ apphost'[b].told \subseteq
                apphost[b].told \cup (IF call[c].apphost = b THEN {s} ELSE {})
  BY <1>1, <1>4, Telling DEF InvFor
<1>6. \A b \in AppHosts :
        apphost'[b].told \subseteq apphost[b].told \cup {apphost[b].launched}
  <2> TAKE b \in AppHosts
  <2>1. CASE call[c].apphost = b
    <3>1. apphost[b].launched = s
      BY <1>4, <2>1, TableAssumption
    <3> QED BY <1>5, <2>1, <3>1
  <2>2. CASE call[c].apphost # b
    BY <1>5, <2>2
  <2> QED BY <2>1, <2>2
<1>7. OwnFrame(o, c)'
  BY <1>1, <1>2, <1>3, OwnIdle DEF tableVars
<1>8. \A d \in Clients, x \in SessionIds : ~WillTell(c, d, x)
  BY <1>1, <1>2 DEF WillTell, At
<1> QED BY <1>1, <1>2, <1>5, <1>6, <1>7, <1>8, UnchangedIsKept, ReachMoves, IdleIsFrame

\* spawn_apphost(): a child that did not exist runs for the session.
LEMMA ForkKeeps ==
    ASSUME NEW o, InvFor(o), NEW c \in Clients, Fork(c), TableInv'
    PROVE  InvFor(o)'
<1>1. /\ UNCHANGED <<tableVars, client, disabled, monitor>> /\ call[c].at = "fork"
  BY DEF Fork, At
<1>2. /\ c \in Threads /\ c \notin AppHosts /\ c # Monitor /\ client[c].link # "none"
      /\ call[c] \in Frame /\ FrameOK(o, c) /\ ClientFrameOK(c)
  BY <1>1, BusyThread DEF At
<1>3. PICK s \in SessionIds :
        /\ s = call[c].s /\ s # 0 /\ s = client[c].session_id /\ s < next_session_id
        /\ o[s] = c /\ \A a \in AppHosts : apphost[a].launched # s
  BY <1>1, <1>2 DEF ClientFrameOK, Spawning, Frame, InvFor, OwnedBy, ClientsOK
<1>4. CASE Goto(c, "spawn_undo") /\ UNCHANGED apphost
  <2> DEFINE f == [call[c] EXCEPT !.at = "spawn_undo"]
  <2>1. call' = [call EXCEPT ![c] = f]
    BY <1>4 DEF Goto
  <2>2. /\ f \in Frame /\ f.at = "spawn_undo" /\ f.s = call[c].s /\ f.pid = call[c].pid
        /\ f.client = call[c].client /\ f.apphost = call[c].apphost
    BY <1>2, LabelsArePlaces DEF Frame
  <2> HIDE DEF f
  <2>3. call'[c] = f
    BY <1>2, <2>1 DEF InvFor, GatewayTypeOK
  <2>4. OwnFrame(o, c)'
    BY <1>1, <1>2, <1>3, <1>4, <2>2, <2>3
    DEF OwnFrame, FrameOK, ClientFrameOK, Spawning, Releasing, tableVars, Has
  <2> QED BY <1>1, <1>2, <1>4, <2>1, <2>2, <2>4, UnchangedIsKept, HandlerMoves
<1>5. ASSUME NEW p \in Pids, apphost[p].process = "none",
             apphost' = [apphost EXCEPT ![p].process = "running",
                                        ![p].launched = call[c].s],
             call' = [call EXCEPT ![c].at = "set_pid", ![c].pid = p]
      PROVE  InvFor(o)'
  <2> DEFINE f == [call[c] EXCEPT !.at = "set_pid", !.pid = p]
             r == [apphost[p] EXCEPT !.process = "running", !.launched = s]
  <2>1. p \in AppHosts /\ apphost[p] \in AppHostSession
    BY GatewayAssumption DEF InvFor, GatewayTypeOK
  <2>2. /\ apphost[p].launched = 0 /\ apphost[p].link = "none"
        /\ apphost[p].session_id = 0 /\ apphost[p].told = {} /\ At(p, "idle")
    BY <1>5, <2>1 DEF InvFor, OwnedBy, AppHostsOK, AppHostSession, SessionIds
  <2>3. /\ r \in AppHostSession /\ r.process = "running" /\ r.launched = s
        /\ r.link = "none" /\ r.session_id = 0 /\ r.told = {}
    BY <1>3, <2>1, <2>2 DEF AppHostSession
  <2>4. /\ f \in Frame /\ f.at = "set_pid" /\ f.s = s /\ f.pid = p
        /\ f.client = call[c].client /\ f.apphost = call[c].apphost
    BY <1>2, <1>3, LabelsArePlaces DEF Frame
  <2>5. call' = [call EXCEPT ![c] = f] /\ apphost' = [apphost EXCEPT ![p] = r]
    BY <1>3, <1>5
  <2> HIDE DEF f, r
  <2>6. /\ \A u \in Threads : call'[u] = IF u = c THEN f ELSE call[u]
        /\ \A a \in AppHosts : apphost'[a] = IF a = p THEN r ELSE apphost[a]
    BY <2>5 DEF InvFor, GatewayTypeOK
  <2>7. GatewayTypeOK'
    BY <1>1, <1>2, <2>3, <2>4, <2>5 DEF InvFor, TableInv, GatewayTypeOK
  <2>8. TableKept /\ TableShrunk /\ IndexComplete'
    BY <1>1, UnchangedIsKept, KeptIsShrunk, KeptIndexComplete DEF InvFor
  <2>9. Rely(c)
    BY <1>1, <1>3, <2>2, <2>3, <2>6, <2>8 DEF Rely, TableShrunk, TableKept, At
  <2>10. OwnFrame(o, c)'
    <3>1. call'[c] = f /\ apphost'[p].launched = s
      BY <1>2, <2>1, <2>3, <2>6
    <3>2. f.apphost # None => apphost'[f.apphost].launched = s
      BY <1>2, <1>3, <2>2, <2>4, <2>6 DEF FrameOK, Frame
    <3>3. f.client # None => o[s] = f.client
      BY <1>2, <1>3, <2>4 DEF FrameOK
    <3> QED BY <1>1, <1>2, <1>3, <2>4, <2>8, <3>1, <3>2, <3>3, TableAssumption
            DEF OwnFrame, FrameOK, ClientFrameOK, Spawning, Releasing, TableKept
  <2>11. Frames(o)'
    BY <1>1, <1>2, <2>9, <2>10, FramesCarry
  <2>12. Stored(o)'
    <3>1. \A a \in AppHosts :
            /\ apphost[a].launched # 0 => apphost'[a].launched = apphost[a].launched
            /\ apphost'[a].session_id = apphost[a].session_id
      BY <2>2, <2>3, <2>6
    <3> QED BY <1>1, <1>2, <2>6, <2>8, <3>1, StoredCarries
  <2>13. ClientsOK(o)'
    BY <1>1, <1>2, <2>6 DEF InvFor, OwnedBy, ClientsOK, At, Threads, tableVars
  <2>14. AppHostsOK(o)'
    <3>1. \A a \in AppHosts : At(a, "idle") => At(a, "idle")'
      BY <1>2, <2>6 DEF At, Threads
    <3>2. ASSUME NEW a \in AppHosts, a # p
          PROVE  apphost'[a] = apphost[a]
      BY <2>6, <3>2
    <3>3. apphost'[p] = r /\ At(p, "idle")'
      BY <2>1, <2>2, <2>6, <3>1
    <3> QED BY <1>1, <1>3, <2>3, <2>8, <3>1, <3>2, <3>3
            DEF InvFor, OwnedBy, AppHostsOK, TableKept
  <2>15. AckMeansBound'
    BY <1>1, <2>8, AckCarries DEF InvFor, Gets
  <2>16. EndIsTold'
    <3>1. /\ EndIsTold /\ disabled \subseteq disabled'
          /\ \A u \in Threads \ {c} : call'[u] = call[u]
      BY <1>1, <2>6 DEF InvFor
    <3>2. \A d \in Clients, x \in SessionIds : EndNotices(d, x)' = EndNotices(d, x)
      BY <1>1 DEF EndNotices
    <3>3. \A d \in Clients, x \in SessionIds : ~WillTell(c, d, x) /\ (Has(x) => Has(x)')
      BY <1>1, <2>8 DEF WillTell, At, TableKept
    <3> QED BY <1>1, <3>1, <3>2, <3>3, TellingCarries
  <2>17. o \in Owners /\ Owners' = Owners
    BY DEF InvFor, Owners, SessionIds
  <2> QED BY <2>7, <2>8, <2>11, <2>12, <2>13, <2>14, <2>15, <2>16, <2>17
          DEF InvFor, OwnedBy, Frames
<1> QED BY <1>1, <1>4, <1>5 DEF Fork


LEMMA ClientKeeps ==
    ASSUME NEW o, InvFor(o), NEW c \in Clients, ClientSends(c) \/ ClientHandlerStep(c),
           TableInv'
    PROVE  \E p : InvFor(p)'
<1>1. CASE \/ AcceptClient(c) \/ ClientDisconnects(c) \/ ReceiveSpawnApp(c)
           \/ ReceiveClientClose(c) \/ ReceiveClientData(c) \/ ReceiveClientHeartbeat(c)
  BY <1>1, AcceptClientKeeps, ClientDisconnectsKeeps, ReceiveSpawnAppKeeps,
     ReceiveClientPacketKeeps, ReceiveClientHeartbeatKeeps
<1>2. CASE HandleSpawnApp(c)
  BY <1>2, HandleSpawnAppKeeps
<1>3. CASE \/ Fork(c) \/ RecordPid(c) \/ UndoSpawn(c) \/ ReportSpawnFailure(c)
           \/ ReleaseClientFind(c) \/ ReleaseClientNoSession(c)
           \/ ReleaseClientRemove(c) \/ ReleaseClientTell(c)
  BY <1>3, ForkKeeps, RecordPidKeeps, UndoSpawnKeeps, ReportSpawnFailureKeeps,
     ReleaseClientFindKeeps, ReleaseClientNoSessionKeeps, ReleaseClientRemoveKeeps,
     ReleaseClientTellKeeps
<1>4. CASE CloseOrForward(c)
  BY <1>4, CloseOrForwardKeeps
<1> QED BY <1>1, <1>2, <1>3, <1>4 DEF ClientSends, ClientHandlerStep

-----------------------------------------------------------------------------
(* AppHost processes and connections.                                      *)

\* A process connects or ends, a connection is unlinked or learns its session:
\* only its own record changes, and what it was launched for stays.
LEMMA AppHostChanges ==
    ASSUME NEW o, InvFor(o), NEW a \in AppHosts, NEW f \in Frame,
           NEW r \in AppHostSession,
           call' = [call EXCEPT ![a] = f], apphost' = [apphost EXCEPT ![a] = r],
           UNCHANGED <<client, disabled, monitor>>, TableKept, TableInv',
           r.launched = apphost[a].launched, r.told = apphost[a].told,
           r.launched # 0, r.process # "none",
           r.session_id \in {apphost[a].session_id, r.launched},
           r.link = "none" => f.at = "idle",
           At(a, "ready_route") => r.session_id = r.launched \/ f.at = "ready_route",
           call[a].at \in {"close_client", "release_tell"} => f = call[a],
           OwnFrame(o, a)'
    PROVE  InvFor(o)'
<1>1. a \in Threads /\ a # Monitor /\ a \notin Clients
  BY GatewayAssumption DEF Threads
<1>2. \A u \in Threads : call'[u] = IF u = a THEN f ELSE call[u]
  BY DEF InvFor, GatewayTypeOK
<1>3. \A b \in AppHosts : apphost'[b] = IF b = a THEN r ELSE apphost[b]
  BY DEF InvFor, GatewayTypeOK
<1>4. TableShrunk /\ IndexComplete'
  BY KeptIsShrunk, KeptIndexComplete DEF InvFor
<1>5. GatewayTypeOK'
  BY <1>1 DEF InvFor, TableInv, GatewayTypeOK
<1>6. Rely(a)
  BY <1>2, <1>3, <1>4 DEF Rely, TableShrunk, TableKept
<1>7. Frames(o)'
  BY <1>1, <1>6, FramesCarry
<1>8. Stored(o)'
  <2> SUFFICES ASSUME NEW s \in SessionIds, Has(s)'
               PROVE  LET rt == by_session'[s] IN
                      /\ rt.client_conn = o[s] /\ o[s] \in Clients
                      /\ client'[o[s]].session_id = s
                      /\ \A b \in AppHosts : rt.apphost_conn = b =>
                           /\ apphost'[b].launched = s
                           /\ apphost'[b].session_id = s \/ At(b, "ready_route")'
                      /\ \A p \in Pids : rt.apphost_pid = p => apphost'[p].launched = s
    BY DEF Stored, SessionIds
  <2>1. /\ Has(s)
        /\ by_session'[s].client_conn = by_session[s].client_conn
        /\ by_session'[s].apphost_conn = by_session[s].apphost_conn
        /\ by_session'[s].apphost_pid = by_session[s].apphost_pid
    BY DEF TableKept
  <2>2. /\ by_session[s].client_conn = o[s] /\ o[s] \in Clients
        /\ client[o[s]].session_id = s
        /\ \A b \in AppHosts : by_session[s].apphost_conn = b =>
             /\ apphost[b].launched = s
             /\ apphost[b].session_id = s \/ At(b, "ready_route")
        /\ \A p \in Pids : by_session[s].apphost_pid = p => apphost[p].launched = s
    BY <2>1 DEF InvFor, OwnedBy, Stored
  <2>3. ASSUME NEW b \in AppHosts, by_session[s].apphost_conn = b
        PROVE  /\ apphost'[b].launched = s
               /\ apphost'[b].session_id = s \/ At(b, "ready_route")'
    <3>1. CASE b = a
      BY <1>1, <1>2, <1>3, <2>2, <2>3, <3>1 DEF At
    <3>2. CASE b # a
      BY <1>2, <1>3, <2>2, <2>3, <3>2 DEF At, Threads
    <3> QED BY <3>1, <3>2
  <2>4. \A p \in Pids : by_session[s].apphost_pid = p => apphost'[p].launched = s
    BY <1>3, <2>2, GatewayAssumption
  <2> QED BY <2>1, <2>2, <2>3, <2>4
<1>9. ClientsOK(o)'
  BY <1>1, <1>2, <1>4 DEF InvFor, OwnedBy, ClientsOK, At, Threads, TableShrunk
<1>10. AppHostsOK(o)'
  <2>1. ASSUME NEW b \in AppHosts, b # a
        PROVE  apphost'[b] = apphost[b] /\ (At(b, "idle") => At(b, "idle")')
    BY <1>1, <1>2, <1>3, <2>1 DEF At, Threads
  <2>2. apphost'[a] = r /\ (r.link = "none" => At(a, "idle")')
    BY <1>1, <1>2, <1>3 DEF At
  <2> QED BY <1>4, <2>1, <2>2 DEF InvFor, OwnedBy, AppHostsOK, TableShrunk
<1>11. AckMeansBound'
  BY <1>4, AckCarries DEF InvFor, Gets
<1>12. EndIsTold'
  <2>1. /\ EndIsTold /\ disabled \subseteq disabled'
        /\ \A u \in Threads \ {a} : call'[u] = call[u]
    BY <1>2 DEF InvFor
  <2>2. \A d \in Clients, x \in SessionIds : EndNotices(d, x)' = EndNotices(d, x)
    BY DEF EndNotices
  <2>3. ASSUME NEW d \in Clients, NEW x \in SessionIds, WillTell(a, d, x)
        PROVE  WillTell(a, d, x)'
    BY <1>1, <1>2, <2>3 DEF WillTell, At
  <2>4. \A x : Has(x) => Has(x)'
    BY DEF TableKept
  <2> QED BY <1>1, <2>1, <2>2, <2>3, <2>4, TellingCarries
<1>13. o \in Owners /\ Owners' = Owners
  BY DEF InvFor, Owners, SessionIds
<1> QED BY <1>4, <1>5, <1>7, <1>8, <1>9, <1>10, <1>11, <1>12, <1>13
        DEF InvFor, OwnedBy, Frames

\* What an AppHost's record says.
LEMMA AppHostRecord ==
    ASSUME NEW o, InvFor(o), NEW a \in AppHosts
    PROVE  LET s == apphost[a].launched IN
           /\ apphost[a] \in AppHostSession
           /\ s \in SessionIds \cup {0} /\ apphost[a].session_id \in {0, s}
           /\ apphost[a].process # "none" <=> s # 0
           /\ apphost[a].link # "none" => apphost[a].process # "none"
           /\ apphost[a].link = "none" => At(a, "idle")
           /\ s < next_session_id
  BY DEF InvFor, GatewayTypeOK, AppHostSession, OwnedBy, AppHostsOK, TableInv, TableTypeOK


LEMMA AppHostConnectsKeeps ==
    ASSUME NEW o, InvFor(o), NEW a \in AppHosts, AppHostConnects(a), TableInv'
    PROVE  InvFor(o)'
<1> DEFINE r == [apphost[a] EXCEPT !.link = "linked", !.ready = "inflight"]
<1>1. /\ UNCHANGED <<tableVars, client, disabled, call, monitor>>
      /\ apphost[a].process = "running" /\ apphost[a].link = "none"
      /\ apphost' = [apphost EXCEPT ![a] = r]
  BY DEF AppHostConnects
<1>2. /\ apphost[a] \in AppHostSession /\ apphost[a].launched # 0 /\ At(a, "idle")
  BY <1>1, AppHostRecord
<1>3. a \in Threads /\ call[a] = Idle /\ Idle \in Frame
  BY <1>2, IdleThread
<1>4. /\ r \in AppHostSession /\ r.launched = apphost[a].launched
      /\ r.told = apphost[a].told /\ r.process = "running" /\ r.link = "linked"
      /\ r.session_id = apphost[a].session_id
  BY <1>1, <1>2 DEF AppHostSession
<1> HIDE DEF r
<1>5. call' = [call EXCEPT ![a] = Idle] /\ call'[a] = Idle
  BY <1>1, <1>3 DEF InvFor, GatewayTypeOK
<1>6. OwnFrame(o, a)'
  BY <1>1, <1>3, <1>5, OwnIdle DEF tableVars
<1> QED BY <1>1, <1>2, <1>3, <1>4, <1>5, <1>6, UnchangedIsKept, AppHostChanges DEF At

LEMMA AppHostExitsKeeps ==
    ASSUME NEW o, InvFor(o), NEW a \in AppHosts, AppHostExits(a), TableInv'
    PROVE  InvFor(o)'
<1> DEFINE r == [apphost[a] EXCEPT !.process = "exited"]
<1>1. /\ UNCHANGED <<tableVars, client, disabled, call, monitor>>
      /\ apphost[a].process = "running" /\ apphost' = [apphost EXCEPT ![a] = r]
  BY DEF AppHostExits
<1>2. /\ apphost[a] \in AppHostSession /\ apphost[a].launched # 0
      /\ apphost[a].link = "none" => call[a].at = "idle"
  BY <1>1, AppHostRecord DEF At
<1>3. a \in Threads /\ call[a] \in Frame /\ FrameOK(o, a) /\ AppHostFrameOK(a)
      /\ a \notin Clients
  BY GatewayAssumption DEF Threads, InvFor, GatewayTypeOK, OwnedBy
<1>4. /\ r \in AppHostSession /\ r.launched = apphost[a].launched
      /\ r.told = apphost[a].told /\ r.process = "exited" /\ r.link = apphost[a].link
      /\ r.session_id = apphost[a].session_id
  BY <1>2 DEF AppHostSession
<1> HIDE DEF r
<1>5. call' = [call EXCEPT ![a] = call[a]]
  BY <1>1, <1>3 DEF InvFor, GatewayTypeOK
<1>6. \A b \in AppHosts : /\ apphost'[b].launched = apphost[b].launched
                          /\ apphost'[b].session_id = apphost[b].session_id
  BY <1>1, <1>4 DEF InvFor, GatewayTypeOK
<1>7. OwnFrame(o, a)'
  BY <1>1, <1>3, <1>6, GatewayAssumption
  DEF OwnFrame, FrameOK, AppHostFrameOK, Frame, tableVars, Has
<1>8. At(a, "ready_route") => call[a].at = "ready_route"
  BY DEF At
<1> QED BY <1>1, <1>2, <1>3, <1>4, <1>5, <1>7, <1>8, UnchangedIsKept, AppHostChanges

\* A packet from an AppHost starts a handler that knows its session.
LEMMA AppHostPacket ==
    ASSUME NEW o, InvFor(o), NEW a \in AppHosts,
           NEW l \in {"ready", "close", "forward"}, AppHostReceives(a, l)
    PROVE  /\ apphost[a].link = "linked" /\ At(a, "idle") /\ TableKept
           /\ \E f \in Frame :
                /\ f.at = l /\ f.s = apphost[a].launched /\ f.client = None
                /\ f.apphost = None /\ f.pid = None
                /\ call' = [call EXCEPT ![a] = f] /\ call'[a] = f
<1> DEFINE s == apphost[a].launched
           f == [Idle EXCEPT !.at = l, !.s = s]
<1>1. /\ apphost[a].link = "linked" /\ At(a, "idle") /\ MarkAppHostSeen(s)
      /\ call' = [call EXCEPT ![a].at = l, ![a].s = s]
  BY DEF AppHostReceives
<1>2. a \in Threads /\ call[a] = Idle /\ Idle \in Frame /\ s \in SessionIds \cup {0}
  BY <1>1, IdleThread, AppHostRecord
<1>3. call' = [call EXCEPT ![a] = f]
  BY <1>1, <1>2
<1>4. /\ f \in Frame /\ f.at = l /\ f.s = s /\ f.client = None
      /\ f.apphost = None /\ f.pid = None
  BY <1>2, LabelsArePlaces DEF Idle, Frame
<1> HIDE DEF f
<1>5. call'[a] = f
  BY <1>2, <1>3 DEF InvFor, GatewayTypeOK
<1>6. TableKept
  BY <1>1, TouchIsKept DEF InvFor, TableInv
<1> QED BY <1>1, <1>3, <1>4, <1>5, <1>6

LEMMA ReceiveAppHostPacketKeeps ==
    ASSUME NEW o, InvFor(o), NEW a \in AppHosts,
           ReceiveAppHostData(a) \/ ReceiveAppHostClose(a), TableInv'
    PROVE  InvFor(o)'
<1>1. PICK l \in {"ready", "close", "forward"} : l # "ready" /\ AppHostReceives(a, l)
  BY DEF ReceiveAppHostData, ReceiveAppHostClose
<1>2. UNCHANGED <<client, apphost, disabled, monitor>>
  BY DEF ReceiveAppHostData, ReceiveAppHostClose
<1>3. PICK f \in Frame :
        /\ f.at = l /\ f.s = apphost[a].launched /\ f.client = None
        /\ f.apphost = None /\ f.pid = None
        /\ call' = [call EXCEPT ![a] = f] /\ call'[a] = f
  BY <1>1, AppHostPacket
<1>4. apphost[a].link = "linked" /\ At(a, "idle") /\ TableKept
  BY <1>1, AppHostPacket
<1>5. a \in Threads /\ a \notin Clients /\ f.s < next_session_id
  BY <1>3, <1>4, IdleThread, AppHostRecord
<1>6. OwnFrame(o, a)'
  BY <1>1, <1>2, <1>3, <1>4, <1>5
  DEF OwnFrame, FrameOK, AppHostFrameOK, Releasing, TableKept
<1> QED BY <1>2, <1>3, <1>4, <1>5, <1>6, HandlerMoves DEF At

LEMMA ReceiveAppHostHeartbeatKeeps ==
    ASSUME NEW o, InvFor(o), NEW a \in AppHosts, ReceiveAppHostHeartbeat(a), TableInv'
    PROVE  InvFor(o)'
<1>1. /\ UNCHANGED <<client, apphost, disabled, call, monitor>>
      /\ apphost[a].link = "linked" /\ At(a, "idle")
      /\ MarkAppHostSeen(apphost[a].launched)
  BY DEF ReceiveAppHostHeartbeat
<1>2. /\ a \in Threads /\ a \notin Clients /\ call[a] = Idle /\ Idle \in Frame
  BY <1>1, IdleThread
<1>3. call' = [call EXCEPT ![a] = Idle] /\ call'[a] = Idle
  BY <1>1, <1>2 DEF InvFor, GatewayTypeOK
<1>4. TableKept
  BY <1>1, TouchIsKept DEF InvFor, TableInv
<1>5. OwnFrame(o, a)'
  BY <1>2, <1>3, <1>4, OwnIdle DEF TableKept
<1> QED BY <1>1, <1>2, <1>3, <1>4, <1>5, HandlerMoves DEF At

LEMMA ReceiveReadyKeeps ==
    ASSUME NEW o, InvFor(o), NEW a \in AppHosts, ReceiveReady(a), TableInv'
    PROVE  InvFor(o)'
<1> DEFINE r == [apphost[a] EXCEPT !.ready = "handled"]
<1>1. PICK l \in {"ready", "close", "forward"} : l = "ready" /\ AppHostReceives(a, l)
  BY DEF ReceiveReady
<1>2. UNCHANGED <<client, disabled, monitor>> /\ apphost' = [apphost EXCEPT ![a] = r]
  BY DEF ReceiveReady
<1>3. PICK f \in Frame :
        /\ f.at = l /\ f.s = apphost[a].launched /\ f.client = None
        /\ f.apphost = None /\ f.pid = None
        /\ call' = [call EXCEPT ![a] = f] /\ call'[a] = f
  BY <1>1, AppHostPacket
<1>4. apphost[a].link = "linked" /\ At(a, "idle") /\ TableKept
  BY <1>1, AppHostPacket
<1>5. /\ a \in Threads /\ a \notin Clients /\ f.s < next_session_id
      /\ apphost[a] \in AppHostSession /\ apphost[a].launched # 0
      /\ apphost[a].process # "none"
  BY <1>3, <1>4, IdleThread, AppHostRecord
<1>6. /\ r \in AppHostSession /\ r.launched = apphost[a].launched
      /\ r.told = apphost[a].told /\ r.process = apphost[a].process
      /\ r.link = "linked" /\ r.session_id = apphost[a].session_id
  BY <1>4, <1>5 DEF AppHostSession
<1> HIDE DEF r
<1>7. apphost'[a] = r
  BY <1>2 DEF InvFor, GatewayTypeOK
<1>8. OwnFrame(o, a)'
  BY <1>1, <1>3, <1>4, <1>5, <1>6, <1>7
  DEF OwnFrame, FrameOK, AppHostFrameOK, Releasing, TableKept
<1> QED BY <1>2, <1>3, <1>4, <1>5, <1>6, <1>8, AppHostChanges DEF At


\* handle_apphost_ready(): the session is bound to the connection its process
\* opened, and to no other one's.
LEMMA HandleReadyKeeps ==
    ASSUME NEW o, InvFor(o), NEW a \in AppHosts, HandleReady(a), TableInv'
    PROVE  InvFor(o)'
<1>1. /\ UNCHANGED <<client, apphost, disabled, monitor>> /\ call[a].at = "ready"
      /\ BindAppHost(call[a].s, a)
  BY DEF HandleReady, At
<1>2. /\ a \in Threads /\ a \notin Clients /\ apphost[a].link # "none"
      /\ call[a] \in Frame /\ FrameOK(o, a) /\ AppHostFrameOK(a)
  BY <1>1, BusyThread DEF At
<1>3. PICK s \in SessionIds : s = call[a].s /\ s = apphost[a].launched
  BY <1>1, <1>2, AppHostRecord DEF AppHostFrameOK
<1>4. CASE ~Bindable(s)
  <2>1. UNCHANGED tableVars /\ call' = [call EXCEPT ![a] = Idle]
    BY <1>3, <1>4 DEF HandleReady, BindAppHost, Return
  <2>2. call'[a] = Idle /\ Idle \in Frame
    BY <1>2, <2>1, IdleIsFrame DEF InvFor, GatewayTypeOK
  <2>3. OwnFrame(o, a)'
    BY <1>2, <2>1, <2>2, OwnIdle DEF tableVars
  <2> QED BY <1>1, <1>2, <2>1, <2>2, <2>3, UnchangedIsKept, HandlerMoves
<1>5. CASE Bindable(s)
  <2> DEFINE old == by_session[s].apphost_conn
             f == [call[a] EXCEPT !.at = "ready_route"]
  <2>1. /\ by_session' = [by_session EXCEPT ![s].apphost_conn = a,
                                            ![s].state = "ACTIVE",
                                            ![s].late = FALSE,
                                            ![s].apphost_stale = FALSE]
        /\ by_apphost' = [Erase(by_apphost, old) EXCEPT ![a] = s]
        /\ UNCHANGED <<next_session_id, by_client, by_pid>>
        /\ call' = [call EXCEPT ![a] = f] /\ Has(s)
    BY <1>1, <1>3, <1>5 DEF HandleReady, BindAppHost, Goto, Bindable
  <2>2. /\ \A x \in SessionIds :
             /\ by_session'[x].client_conn = by_session[x].client_conn
             /\ by_session'[x].apphost_conn = IF x = s THEN a ELSE by_session[x].apphost_conn
             /\ by_session'[x].apphost_pid = by_session[x].apphost_pid
        /\ by_session'[s].state = "ACTIVE"
        /\ \A x \in SessionIds : x # s => by_session'[x].state = by_session[x].state
    <3>1. /\ by_session[s] \in SessionRuntime
          /\ \A x \in SessionIds : x # s => by_session'[x] = by_session[x]
      BY <2>1 DEF InvFor, TableInv, TableTypeOK
    <3>2. by_session'[s] = [by_session[s] EXCEPT !.apphost_conn = a, !.state = "ACTIVE",
                                                 !.late = FALSE, !.apphost_stale = FALSE]
      BY <2>1 DEF InvFor, TableInv, TableTypeOK
    <3>3. /\ by_session'[s].apphost_conn = a /\ by_session'[s].state = "ACTIVE"
          /\ by_session'[s].client_conn = by_session[s].client_conn
          /\ by_session'[s].apphost_pid = by_session[s].apphost_pid
      BY <3>1, <3>2 DEF SessionRuntime
    <3> QED BY <3>1, <3>3
  <2>3. \A x : Has(x)' <=> Has(x)
    BY <2>1, <2>2 DEF Has, SessionIds
  <2>4. /\ f \in Frame /\ f.at = "ready_route" /\ f.s = s /\ f.pid = call[a].pid
        /\ f.client = call[a].client /\ f.apphost = call[a].apphost
    BY <1>2, <1>3, LabelsArePlaces DEF Frame
  <2> HIDE DEF f
  <2>5. \A u \in Threads : call'[u] = IF u = a THEN f ELSE call[u]
    BY <2>1 DEF InvFor, GatewayTypeOK
  <2>6. OwnFrame(o, a)'
    <3>1. call'[a] = f /\ by_session'[s].apphost_conn # None
      BY <1>2, <2>2, <2>5, TableAssumption
    <3>2. FrameOK(o, a)'
      BY <1>1, <1>2, <1>3, <2>1, <2>4, <3>1 DEF FrameOK
    <3>3. AppHostFrameOK(a)'
      BY <1>1, <1>3, <2>4, <3>1 DEF AppHostFrameOK, Releasing
    <3> QED BY <1>2, <3>2, <3>3 DEF OwnFrame
  <2>7. Stored(o)'
    <3>1. \A b \in AppHosts : At(b, "ready_route") \/ b = a => At(b, "ready_route")'
      BY <1>1, <1>2, <2>4, <2>5 DEF At, Threads
    <3>2. ASSUME NEW x \in SessionIds, Has(x)'
          PROVE  LET rt == by_session'[x] IN
                 /\ rt.client_conn = o[x] /\ o[x] \in Clients
                 /\ client'[o[x]].session_id = x
                 /\ \A b \in AppHosts : rt.apphost_conn = b =>
                      /\ apphost'[b].launched = x
                      /\ apphost'[b].session_id = x \/ At(b, "ready_route")'
                 /\ \A q \in Pids : rt.apphost_pid = q => apphost'[q].launched = x
      <4>1. /\ by_session[x].client_conn = o[x] /\ o[x] \in Clients
            /\ client[o[x]].session_id = x
            /\ \A b \in AppHosts : by_session[x].apphost_conn = b =>
                 /\ apphost[b].launched = x
                 /\ apphost[b].session_id = x \/ At(b, "ready_route")
            /\ \A q \in Pids : by_session[x].apphost_pid = q => apphost[q].launched = x
        BY <2>3, <3>2 DEF InvFor, OwnedBy, Stored
      <4> QED BY <1>1, <1>3, <2>2, <3>1, <4>1
    <3> QED BY <3>2 DEF Stored, SessionIds
  <2>8. IndexComplete'
    <3> SUFFICES ASSUME NEW x \in SessionIds, Has(x)'
                 PROVE  LET rt == by_session'[x] IN
                        /\ rt.client_conn # None => by_client'[rt.client_conn] = x
                        /\ rt.apphost_conn # None => by_apphost'[rt.apphost_conn] = x
                        /\ rt.apphost_pid # None => by_pid'[rt.apphost_pid] = x
      BY DEF IndexComplete, SessionIds
    <3>1. \A b \in AppHosts : by_apphost'[b] =
            IF b = a THEN s ELSE IF b = old THEN 0 ELSE by_apphost[b]
      BY <2>1, EraseType DEF InvFor, TableInv, TableTypeOK
    <3>2. CASE x = s
      <4>1. /\ by_session'[s].apphost_conn = a /\ by_apphost'[a] = s
            /\ by_session'[s].client_conn = by_session[s].client_conn
            /\ by_session'[s].apphost_pid = by_session[s].apphost_pid
        BY <2>2, <3>1
      <4>2. UNCHANGED <<by_client, by_pid>> /\ Has(s) /\ s \in SessionIds
        BY <2>1
      <4>3. /\ by_session[s].client_conn # None => by_client[by_session[s].client_conn] = s
            /\ by_session[s].apphost_pid # None => by_pid[by_session[s].apphost_pid] = s
        BY <4>2 DEF InvFor, IndexComplete
      <4> QED BY <3>2, <4>1, <4>2, <4>3
    <3>3. CASE x # s
      <4>1. /\ Has(x) /\ by_session[x].apphost_conn \in AppHosts \cup {None}
            /\ by_session[x].apphost_conn # None =>
                 by_apphost[by_session[x].apphost_conn] = x
        BY <2>3 DEF InvFor, IndexComplete, TableInv, TableTypeOK, SessionRuntime
      <4>2. by_session[x].apphost_conn # a
        BY <1>3, <3>3, <4>1 DEF InvFor, OwnedBy, Stored
      <4>3. by_session[x].apphost_conn # None => by_session[x].apphost_conn # old
        BY <2>1, <3>3, <4>1 DEF InvFor, IndexComplete
      <4>4. by_session[x].apphost_conn # None =>
              by_apphost'[by_session[x].apphost_conn] = x
        BY <3>1, <4>1, <4>2, <4>3
      <4>5. /\ by_session[x].client_conn # None => by_client[by_session[x].client_conn] = x
            /\ by_session[x].apphost_pid # None => by_pid[by_session[x].apphost_pid] = x
        BY <4>1 DEF InvFor, IndexComplete
      <4> QED BY <2>1, <2>2, <3>3, <4>4, <4>5
    <3> QED BY <3>2, <3>3
  <2>9. /\ next_session_id' = next_session_id
        /\ \A x \in SessionIds : by_session[x].apphost_conn # None =>
             by_session'[x].apphost_conn # None
    BY <2>1, <2>2, TableAssumption
  <2> QED BY <1>1, <1>2, <2>1, <2>3, <2>4, <2>6, <2>7, <2>8, <2>9, RouteMoves
<1> QED BY <1>4, <1>5

LEMMA ReadyRouteKeeps ==
    ASSUME NEW o, InvFor(o), NEW a \in AppHosts, ReadyRoute(a), TableInv'
    PROVE  InvFor(o)'
<1> DEFINE s == call[a].s
           f == [call[a] EXCEPT !.at = "ready_ack", !.client = FindClient(s)]
           r == [apphost[a] EXCEPT !.session_id = s]
<1>1. /\ UNCHANGED <<tableVars, client, disabled, monitor>> /\ call[a].at = "ready_route"
      /\ call' = [call EXCEPT ![a] = f] /\ apphost' = [apphost EXCEPT ![a] = r]
  BY DEF ReadyRoute, At
<1>2. /\ a \in Threads /\ a \notin Clients /\ apphost[a].link # "none"
      /\ call[a] \in Frame /\ FrameOK(o, a) /\ AppHostFrameOK(a)
      /\ apphost[a] \in AppHostSession /\ s = apphost[a].launched /\ s # 0
      /\ apphost[a].process # "none" /\ s \in SessionIds
  BY <1>1, BusyThread, AppHostRecord DEF At, AppHostFrameOK
<1>3. /\ f \in Frame /\ f.at = "ready_ack" /\ f.s = s /\ f.pid = call[a].pid
      /\ f.client = FindClient(s) /\ f.apphost = call[a].apphost
  BY <1>2, Finding, LabelsArePlaces DEF Frame
<1>4. /\ r \in AppHostSession /\ r.launched = s /\ r.told = apphost[a].told
      /\ r.process = apphost[a].process /\ r.link = apphost[a].link /\ r.session_id = s
  BY <1>2 DEF AppHostSession
<1> HIDE DEF f, r
<1>5. call'[a] = f /\ apphost'[a] = r
  BY <1>1, <1>2 DEF InvFor, GatewayTypeOK
<1>6. \A b \in AppHosts : apphost'[b].launched = apphost[b].launched
  BY <1>1, <1>2, <1>4 DEF InvFor, GatewayTypeOK
<1>7. OwnFrame(o, a)'
  <2>1. FrameOK(o, a)'
    BY <1>1, <1>2, <1>3, <1>5, <1>6, Finding, GatewayAssumption
    DEF FrameOK, Frame, tableVars
  <2>2. AppHostFrameOK(a)'
    BY <1>1, <1>2, <1>3, <1>4, <1>5 DEF AppHostFrameOK, Releasing, tableVars, Has
  <2> QED BY <1>2, <2>1, <2>2 DEF OwnFrame
<1> QED BY <1>1, <1>2, <1>3, <1>4, <1>7, UnchangedIsKept, AppHostChanges

\* A handler of an AppHost's connection sends its Client a notice and returns.
LEMMA AppHostSendReturns ==
    ASSUME NEW o, InvFor(o), NEW a \in AppHosts,
           call[a].at \in {"ready_ack", "release_tell"},
           NEW cmd \in {"SESSION_ACK", "CLOSE_SESSION"},
           cmd = "SESSION_ACK" => call[a].at = "ready_ack",
           NEW c, c = call[a].client, NEW s, s = call[a].s, ToClient(c, cmd, s),
           call' = [call EXCEPT ![a] = Idle],
           UNCHANGED <<tableVars, apphost, disabled, monitor>>, TableInv',
           cmd = "CLOSE_SESSION" => call[a].at = "release_tell"
    PROVE  InvFor(o)'
<1>1. /\ a \in Threads /\ a \notin Clients /\ a # Monitor /\ apphost[a].link # "none"
      /\ call[a] \in Frame /\ FrameOK(o, a) /\ AppHostFrameOK(a)
  BY BusyThread DEF At
<1>2. call'[a] = Idle
  BY <1>1 DEF InvFor, GatewayTypeOK
<1>3. OwnFrame(o, a)'
  BY <1>1, <1>2, OwnIdle DEF tableVars
<1>4. /\ c \in Clients \cup {None} /\ s \in SessionIds \cup {0}
      /\ c # None => s < next_session_id /\ o[s] = c
      /\ cmd = "SESSION_ACK" /\ Has(s) => by_session[s].apphost_conn # None
  BY <1>1 DEF Frame, FrameOK, AppHostFrameOK
<1>5. \A d \in Clients, x \in SessionIds : WillTell(a, d, x) =>
        d = c /\ x = s /\ cmd # "SESSION_ACK"
  BY <1>1 DEF WillTell, At
<1>6. TableKept
  BY UnchangedIsKept
<1>7. Notified(o, a)
  <2>1. cmd \in {"SESSION_ACK", "ERROR_RESP", "CLOSE_SESSION"}
    OBVIOUS
  <2> QED BY <1>4, <1>5, <1>6, <2>1, SendNotifies
<1> QED BY <1>1, <1>2, <1>3, <1>6, <1>7, SendMoves, IdleIsFrame

LEMMA ReadyAckKeeps ==
    ASSUME NEW o, InvFor(o), NEW a \in AppHosts, ReadyAck(a), TableInv'
    PROVE  InvFor(o)'
<1>1. PICK c, s, cmd :
        /\ c = call[a].client /\ s = call[a].s /\ cmd = "SESSION_ACK"
        /\ ToClient(c, cmd, s)
  BY DEF ReadyAck, ToClient
<1>2. /\ call[a].at = "ready_ack" /\ call' = [call EXCEPT ![a] = Idle]
      /\ UNCHANGED <<tableVars, apphost, disabled, monitor>>
  BY DEF ReadyAck, At, Return
<1> QED BY <1>1, <1>2, AppHostSendReturns

LEMMA ReleaseAppHostTellKeeps ==
    ASSUME NEW o, InvFor(o), NEW a \in AppHosts, ReleaseAppHostTell(a), TableInv'
    PROVE  InvFor(o)'
<1>1. PICK c, s, cmd :
        /\ c = call[a].client /\ s = call[a].s /\ cmd = "CLOSE_SESSION"
        /\ ToClient(c, cmd, s)
  BY DEF ReleaseAppHostTell, ToClient
<1>2. /\ call[a].at = "release_tell" /\ call' = [call EXCEPT ![a] = Idle]
      /\ UNCHANGED <<tableVars, apphost, disabled, monitor>>
  BY DEF ReleaseAppHostTell, At, Return
<1> QED BY <1>1, <1>2, AppHostSendReturns


LEMMA ReleaseAppHostKeeps ==
    ASSUME NEW o, InvFor(o), NEW a \in AppHosts, ReleaseAppHost(a), TableInv'
    PROVE  InvFor(o)'
<1> DEFINE s == apphost[a].session_id
           f == [Idle EXCEPT !.at = "release", !.s = s]
           r == [apphost[a] EXCEPT !.link = "gone"]
<1>1. /\ UNCHANGED <<tableVars, client, disabled, monitor>>
      /\ apphost[a].link = "linked" /\ At(a, "idle")
      /\ apphost' = [apphost EXCEPT ![a] = r]
      /\ call' = [call EXCEPT ![a].at = "release", ![a].s = s]
  BY DEF ReleaseAppHost
<1>2. /\ a \in Threads /\ a \notin Clients /\ call[a] = Idle /\ Idle \in Frame
      /\ apphost[a] \in AppHostSession /\ apphost[a].process # "none"
      /\ apphost[a].launched # 0 /\ s \in SessionIds \cup {0} /\ s < next_session_id
  BY <1>1, IdleThread, AppHostRecord DEF InvFor, TableInv, TableTypeOK
<1>3. /\ r \in AppHostSession /\ r.launched = apphost[a].launched
      /\ r.told = apphost[a].told /\ r.process = apphost[a].process
      /\ r.link = "gone" /\ r.session_id = s
  BY <1>2 DEF AppHostSession
<1>4. /\ f \in Frame /\ f.at = "release" /\ f.s = s /\ f.client = None
      /\ f.apphost = None /\ f.pid = None
  BY <1>2, LabelsArePlaces DEF Idle, Frame
<1>5. call' = [call EXCEPT ![a] = f]
  BY <1>1, <1>2
<1> HIDE DEF f, r
<1>6. call'[a] = f /\ apphost'[a] = r
  BY <1>1, <1>2, <1>5 DEF InvFor, GatewayTypeOK
<1>7. OwnFrame(o, a)'
  BY <1>1, <1>2, <1>3, <1>4, <1>6
  DEF OwnFrame, FrameOK, AppHostFrameOK, Releasing, tableVars
<1> QED BY <1>1, <1>2, <1>3, <1>4, <1>5, <1>7, UnchangedIsKept, AppHostChanges DEF At

LEMMA ReleaseAppHostFindKeeps ==
    ASSUME NEW o, InvFor(o), NEW a \in AppHosts, ReleaseAppHostFind(a), TableInv'
    PROVE  InvFor(o)'
<1> DEFINE s == call[a].s
           f == [call[a] EXCEPT !.at = "release_remove", !.client = FindClient(s)]
<1>1. /\ UNCHANGED <<tableVars, client, apphost, disabled, monitor>>
      /\ call[a].at = "release" /\ call' = [call EXCEPT ![a] = f]
  BY DEF ReleaseAppHostFind, At
<1>2. /\ f \in Frame /\ f.at = "release_remove" /\ f.s = s /\ f.pid = call[a].pid
      /\ f.client = FindClient(s) /\ f.apphost = call[a].apphost
  BY <1>1, BusyThread, Finding, LabelsArePlaces DEF Frame, At
<1> HIDE DEF f
<1>3. call'[a] = f
  BY <1>1, BusyThread DEF InvFor, GatewayTypeOK, At
<1>4. OwnFrame(o, a)'
  BY <1>1, <1>2, <1>3, BusyThread, Finding
  DEF OwnFrame, FrameOK, AppHostFrameOK, Releasing, tableVars, Has, At
<1> QED BY <1>1, <1>2, <1>4, BusyThread, UnchangedIsKept, HandlerMoves DEF At

\* An AppHost connection that was not bound is not in the index either.
LEMMA ReleaseAppHostNoSessionKeeps ==
    ASSUME NEW o, InvFor(o), NEW a \in AppHosts, ReleaseAppHostNoSession(a), TableInv'
    PROVE  InvFor(o)'
<1>1. /\ UNCHANGED <<client, apphost, disabled, monitor>> /\ RemoveByAppHost(a)
      /\ call[a].at = "release" /\ call[a].s = 0 /\ call' = [call EXCEPT ![a] = Idle]
  BY DEF ReleaseAppHostNoSession, At, Return
<1>2. apphost[a].session_id = 0
  BY <1>1, BusyThread DEF AppHostFrameOK, Releasing, At
<1>3. by_apphost[a] = 0
  <2>1. by_apphost[a] # 0 =>
          Has(by_apphost[a]) /\ by_session[by_apphost[a]].apphost_conn = a
    BY DEF InvFor, TableInv, IndexSound
  <2> QED BY <1>1, <1>2, <2>1 DEF InvFor, OwnedBy, Stored, Has, At
<1>4. UNCHANGED tableVars
  BY <1>1, <1>3 DEF RemoveByAppHost
<1>5. call'[a] = Idle
  BY <1>1, BusyThread DEF InvFor, GatewayTypeOK, At
<1>6. OwnFrame(o, a)'
  BY <1>1, <1>4, <1>5, BusyThread, OwnIdle DEF tableVars, At
<1> QED BY <1>1, <1>4, <1>6, BusyThread, UnchangedIsKept, HandlerMoves, IdleIsFrame DEF At

LEMMA ReleaseAppHostRemoveKeeps ==
    ASSUME NEW o, InvFor(o), NEW a \in AppHosts, ReleaseAppHostRemove(a), TableInv'
    PROVE  InvFor(o)'
<1> DEFINE s == call[a].s
           f == [call[a] EXCEPT !.at = "release_tell"]
<1>1. /\ UNCHANGED <<client, apphost, disabled, monitor>> /\ RemoveSession(s)
      /\ call[a].at = "release_remove" /\ call' = [call EXCEPT ![a] = f]
  BY DEF ReleaseAppHostRemove, At, Goto
<1>2. /\ a \in Threads /\ a \notin Clients /\ a # Monitor /\ apphost[a].link # "none"
      /\ call[a] \in Frame /\ FrameOK(o, a) /\ AppHostFrameOK(a)
  BY <1>1, BusyThread DEF At
<1>3. /\ f \in Frame /\ f.at = "release_tell" /\ f.s = s /\ f.pid = call[a].pid
      /\ f.client = call[a].client /\ f.apphost = call[a].apphost
  BY <1>2, LabelsArePlaces DEF Frame
<1> HIDE DEF f
<1>4. call'[a] = f
  BY <1>1, <1>2 DEF InvFor, GatewayTypeOK
<1>5. next_session_id' = next_session_id
  BY <1>1, RemoveIsShrunk DEF TableShrunk, InvFor, TableInv
<1>6. OwnFrame(o, a)'
  BY <1>1, <1>2, <1>3, <1>4, <1>5 DEF OwnFrame, FrameOK, AppHostFrameOK, Releasing
<1>7. ASSUME NEW d \in Clients, NEW x \in SessionIds, x = s, Has(x), o[x] = d
      PROVE  WillTell(a, d, x)'
  <2>1. call[a].client = d
    BY <1>1, <1>2, <1>7 DEF FrameOK, AppHostFrameOK
  <2> QED BY <1>3, <1>4, <1>7, <2>1 DEF WillTell, At
<1> QED BY <1>1, <1>2, <1>3, <1>6, <1>7, RemoveMoves

LEMMA AppHostKeeps ==
    ASSUME NEW o, InvFor(o), NEW a \in AppHosts, TableInv',
           \/ AppHostSends(a) \/ ReceiveReady(a) \/ AppHostDisconnects(a)
           \/ AppHostHandlerStep(a)
    PROVE  InvFor(o)'
<1>1. CASE \/ AppHostConnects(a) \/ AppHostExits(a) \/ ReceiveReady(a)
           \/ ReceiveAppHostData(a) \/ ReceiveAppHostClose(a)
           \/ ReceiveAppHostHeartbeat(a)
  BY <1>1, AppHostConnectsKeeps, AppHostExitsKeeps, ReceiveReadyKeeps,
     ReceiveAppHostPacketKeeps, ReceiveAppHostHeartbeatKeeps
<1>2. CASE AppHostDisconnects(a) \/ AppHostIdlesOut(a)
  BY <1>2, ReleaseAppHostKeeps DEF AppHostDisconnects, AppHostIdlesOut
<1>3. CASE HandleReady(a) \/ ReadyRoute(a) \/ ReadyAck(a)
  BY <1>3, HandleReadyKeeps, ReadyRouteKeeps, ReadyAckKeeps
<1>4. CASE \/ ReleaseAppHostFind(a) \/ ReleaseAppHostNoSession(a)
           \/ ReleaseAppHostRemove(a) \/ ReleaseAppHostTell(a)
  BY <1>4, ReleaseAppHostFindKeeps, ReleaseAppHostNoSessionKeeps,
     ReleaseAppHostRemoveKeeps, ReleaseAppHostTellKeeps
<1>5. CASE CloseOrForward(a)
  BY <1>5, CloseOrForwardKeeps
<1> QED BY <1>1, <1>2, <1>3, <1>4, <1>5 DEF AppHostSends, AppHostHandlerStep


-----------------------------------------------------------------------------
(* The monitor thread.                                                     *)

MonitorType == [phase : {"sleep", "exits", "scan"}, exits : SUBSET Pids,
                due : SUBSET (SessionIds \X BOOLEAN)]

LEMMA MonitorThread ==
    ASSUME NEW o, InvFor(o)
    PROVE  /\ Monitor \in Threads /\ Monitor \notin Clients /\ Monitor \notin AppHosts
           /\ call[Monitor] \in Frame /\ FrameOK(o, Monitor) /\ MonitorOK(o)
           /\ monitor \in MonitorType
           /\ At(Monitor, "idle") => call[Monitor] = Idle
  BY GatewayAssumption
  DEF Threads, InvFor, GatewayTypeOK, OwnedBy, FrameOK, At, MonitorType

\* The monitor goes on, or the clock does, and nobody was to be told anything.
LEMMA MonitorMoves ==
    ASSUME NEW o, InvFor(o), NEW f \in Frame, call' = [call EXCEPT ![Monitor] = f],
           UNCHANGED <<client, apphost, disabled>>, TableKept, TableInv',
           FrameOK(o, Monitor)', MonitorOK(o)', monitor' \in MonitorType,
           call[Monitor].at # "close_client" \/ f = call[Monitor]
    PROVE  InvFor(o)'
<1>1. Monitor \in Threads /\ Monitor \notin Clients /\ Monitor \notin AppHosts
  BY MonitorThread
<1>2. TableShrunk /\ IndexComplete' /\ \A x : Has(x) => Has(x)'
  BY KeptIsShrunk, KeptIndexComplete DEF InvFor, TableKept
<1>3. OwnFrame(o, Monitor)'
  BY <1>1 DEF OwnFrame
<1>4. call'[Monitor] = f
  BY <1>1 DEF InvFor, GatewayTypeOK
<1>5. \A c \in Clients, x \in SessionIds :
        WillTell(Monitor, c, x) => WillTell(Monitor, c, x)'
  BY <1>1, <1>4 DEF WillTell, At
<1>6. monitor' \in [phase : {"sleep", "exits", "scan"}, exits : SUBSET Pids,
                    due : SUBSET (SessionIds \X BOOLEAN)]
  BY DEF MonitorType
<1> QED BY <1>1, <1>2, <1>3, <1>5, <1>6, FrameMoveKeeps

\* The monitor takes work from its lists, or fills them, between failures.
LEMMA MonitorListsKeep ==
    ASSUME NEW o, InvFor(o), NEW m \in MonitorType, monitor' = m,
           \A d \in m.due : d[1] < next_session_id,
           UNCHANGED <<client, apphost, disabled, call>>, TableKept, TableInv'
    PROVE  InvFor(o)'
<1>1. call' = [call EXCEPT ![Monitor] = call[Monitor]]
  BY MonitorThread DEF InvFor, GatewayTypeOK
<1>2. FrameOK(o, Monitor)'
  BY MonitorThread DEF FrameOK, TableKept
<1>3. MonitorOK(o)'
  BY MonitorThread DEF MonitorOK, TableKept
<1> QED BY <1>1, <1>2, <1>3, MonitorThread, MonitorMoves

LEMMA SnapshotKeeps ==
    ASSUME NEW o, InvFor(o), Snapshot, TableInv'
    PROVE  InvFor(o)'
<1> DEFINE due == {<<s, TRUE>>  : s \in {x \in SessionIds : SpawnTimedOut(x) \/ AppHostTimedOut(x)}}
             \cup {<<s, FALSE>> : s \in {x \in SessionIds : ClientTimedOut(x)}}
           m == [monitor EXCEPT !.phase = "scan", !.due = due]
<1>1. monitor' = m /\ UNCHANGED <<tableVars, client, apphost, disabled, call>>
  BY DEF Snapshot
<1>2. \A s \in SessionIds : SpawnTimedOut(s) \/ AppHostTimedOut(s) \/ ClientTimedOut(s)
        => s < next_session_id
  BY DEF SpawnTimedOut, AppHostTimedOut, ClientTimedOut, InvFor, TableInv, FreshIds,
         Has, TableTypeOK, SessionIds
<1>3. due \in SUBSET (SessionIds \X BOOLEAN) /\ \A d \in due : d[1] < next_session_id
  <2>1. ASSUME NEW d \in due
        PROVE  d \in SessionIds \X BOOLEAN /\ d[1] < next_session_id
    <3>1. PICK s \in SessionIds, b \in BOOLEAN : d = <<s, b>> /\ s < next_session_id
      BY <1>2, <2>1
    <3> QED BY <3>1
  <2> HIDE DEF due
  <2> QED BY <2>1
<1> HIDE DEF due
<1>4. m \in MonitorType /\ m.due = due
  BY <1>3, MonitorThread DEF MonitorType
<1> QED BY <1>1, <1>3, <1>4, UnchangedIsKept, MonitorListsKeep

LEMMA SleepKeeps ==
    ASSUME NEW o, InvFor(o), Sleep, TableInv'
    PROVE  InvFor(o)'
<1> DEFINE m == [monitor EXCEPT !.phase = "sleep"]
<1>1. monitor' = m /\ UNCHANGED <<tableVars, client, apphost, disabled, call>>
  BY DEF Sleep
<1>2. m \in MonitorType /\ m.due = monitor.due
  BY MonitorThread DEF MonitorType
<1> QED BY <1>1, <1>2, UnchangedIsKept, MonitorThread, MonitorListsKeep DEF MonitorOK

LEMMA TimePassesKeeps ==
    ASSUME NEW o, InvFor(o), TimePasses, TableInv'
    PROVE  InvFor(o)'
<1>1. TableKept
  BY TouchIsKept DEF TimePasses, InvFor, TableInv
<1>2. monitor' = monitor /\ UNCHANGED <<client, apphost, disabled, call>>
  BY DEF TimePasses
<1> QED BY <1>1, <1>2, MonitorThread, MonitorListsKeep DEF MonitorOK

\* The monitor takes up a session to fail.
LEMMA FailStarts ==
    ASSUME NEW o, InvFor(o), NEW m \in MonitorType, monitor' = m,
           m.due \subseteq monitor.due, At(Monitor, "idle"),
           NEW s \in SessionIds, s < next_session_id, NEW notify \in BOOLEAN,
           call' = [call EXCEPT ![Monitor] =
                      [Idle EXCEPT !.at = "fail", !.s = s, !.notify = notify]],
           UNCHANGED <<tableVars, client, apphost, disabled>>, TableInv'
    PROVE  InvFor(o)'
<1> DEFINE f == [Idle EXCEPT !.at = "fail", !.s = s, !.notify = notify]
<1>1. /\ f \in Frame /\ f.at = "fail" /\ f.s = s /\ f.client = None
      /\ f.apphost = None /\ f.pid = None
  BY IdleIsFrame, LabelsArePlaces DEF Idle, Frame
<1>2. call' = [call EXCEPT ![Monitor] = f]
  OBVIOUS
<1> HIDE DEF f
<1>3. call'[Monitor] = f
  BY <1>2, MonitorThread DEF InvFor, GatewayTypeOK
<1>4. FrameOK(o, Monitor)'
  BY <1>1, <1>3 DEF FrameOK, tableVars
<1>5. MonitorOK(o)'
  BY <1>1, <1>3, MonitorThread DEF MonitorOK, tableVars
<1> QED BY <1>1, <1>2, <1>4, <1>5, UnchangedIsKept, MonitorMoves DEF At

LEMMA NextExitKeeps ==
    ASSUME NEW o, InvFor(o), NextExit, TableInv'
    PROVE  InvFor(o)'
<1>1. PICK p \in monitor.exits :
         /\ monitor' = [monitor EXCEPT !.exits = @ \ {p}]
         /\ IF FindByPid(p) = 0 THEN UNCHANGED call
            ELSE call' = [call EXCEPT ![Monitor] =
                   [Idle EXCEPT !.at = "fail", !.s = FindByPid(p), !.notify = TRUE]]
  BY DEF NextExit
<1>2. At(Monitor, "idle") /\ UNCHANGED <<tableVars, client, apphost, disabled>>
  BY DEF NextExit
<1> DEFINE m == [monitor EXCEPT !.exits = @ \ {p}]
<1>3. m \in MonitorType /\ m.due = monitor.due /\ p \in Pids
  BY MonitorThread DEF MonitorType
<1> HIDE DEF m
<1>4. monitor' = m
  BY <1>1 DEF m
<1>5. CASE UNCHANGED call
  BY <1>2, <1>3, <1>4, <1>5, UnchangedIsKept, MonitorThread, MonitorListsKeep
  DEF MonitorOK
<1>6. CASE FindByPid(p) # 0
  <2>1. Has(FindByPid(p))
    BY <1>3, <1>6 DEF FindByPid, InvFor, TableInv, IndexSound
  <2>2. PICK s \in SessionIds : s = FindByPid(p) /\ s < next_session_id
    BY <2>1 DEF Has, InvFor, TableInv, FreshIds, TableTypeOK, SessionIds
  <2>3. PICK notify \in BOOLEAN : notify = TRUE
    OBVIOUS
  <2>4. call' = [call EXCEPT ![Monitor] =
                   [Idle EXCEPT !.at = "fail", !.s = s, !.notify = notify]]
    BY <1>1, <1>6, <2>2, <2>3
  <2> QED BY <1>2, <1>3, <1>4, <2>2, <2>4, FailStarts
<1> QED BY <1>1, <1>5, <1>6

LEMMA NextDueKeeps ==
    ASSUME NEW o, InvFor(o), NextDue, TableInv'
    PROVE  InvFor(o)'
<1>1. PICK d \in monitor.due :
         /\ monitor' = [monitor EXCEPT !.due = @ \ {d}]
         /\ call' = [call EXCEPT ![Monitor] =
              [Idle EXCEPT !.at = "fail", !.s = d[1], !.notify = d[2]]]
  BY DEF NextDue
<1>2. At(Monitor, "idle") /\ UNCHANGED <<tableVars, client, apphost, disabled>>
  BY DEF NextDue
<1> DEFINE m == [monitor EXCEPT !.due = @ \ {d}]
<1>3. m \in MonitorType /\ m.due \subseteq monitor.due
  BY MonitorThread DEF MonitorType
<1>4. d \in SessionIds \X BOOLEAN /\ d[1] < next_session_id
  BY MonitorThread DEF MonitorType, MonitorOK
<1>5. PICK s \in SessionIds, notify \in BOOLEAN :
        s = d[1] /\ notify = d[2] /\ s < next_session_id
  BY <1>4
<1> HIDE DEF m
<1>6. /\ monitor' = m
      /\ call' = [call EXCEPT ![Monitor] =
              [Idle EXCEPT !.at = "fail", !.s = s, !.notify = notify]]
  BY <1>1, <1>5 DEF m
<1> QED BY <1>2, <1>3, <1>5, <1>6, FailStarts


LEMMA ReapKeeps ==
    ASSUME NEW o, InvFor(o), Reap, TableInv'
    PROVE  InvFor(o)'
<1> DEFINE gone == {p \in Pids : apphost[p].process = "exited"}
           m == [monitor EXCEPT !.phase = "exits", !.exits = gone]
<1>1. /\ UNCHANGED <<tableVars, client, disabled, call>> /\ monitor' = m
      /\ apphost' = [p \in Pids |-> IF p \in gone
                                    THEN [apphost[p] EXCEPT !.process = "reaped"]
                                    ELSE apphost[p]]
  BY DEF Reap
<1>2. m \in MonitorType /\ m.due = monitor.due
  BY MonitorThread DEF MonitorType
<1>3. \A a \in AppHosts :
        /\ apphost'[a] \in AppHostSession
        /\ apphost'[a].process = "none" <=> apphost[a].process = "none"
        /\ apphost'[a].launched = apphost[a].launched
        /\ apphost'[a].link = apphost[a].link
        /\ apphost'[a].session_id = apphost[a].session_id
        /\ apphost'[a].told = apphost[a].told
  <2> TAKE a \in AppHosts
  <2>1. apphost[a] \in AppHostSession
    BY DEF InvFor, GatewayTypeOK
  <2>2. CASE a \in gone
    <3>1. apphost'[a] = [apphost[a] EXCEPT !.process = "reaped"]
      BY <1>1, <2>2
    <3> QED BY <2>1, <2>2, <3>1 DEF AppHostSession
  <2>3. CASE a \notin gone
    <3>1. apphost'[a] = apphost[a]
      BY <1>1, <2>3, GatewayAssumption
    <3> QED BY <2>1, <3>1
  <2> QED BY <2>2, <2>3
<1>4. apphost' \in [AppHosts -> AppHostSession]
  BY <1>1, <1>3, GatewayAssumption
<1> HIDE DEF m, gone
<1>5. GatewayTypeOK'
  BY <1>1, <1>2, <1>4 DEF InvFor, TableInv, GatewayTypeOK, MonitorType
<1>6. TableKept /\ TableShrunk /\ IndexComplete'
  BY <1>1, UnchangedIsKept, KeptIsShrunk, KeptIndexComplete DEF InvFor
<1>7. Move(o, Monitor)
  BY <1>1, <1>3, <1>6, MonitorThread DEF Move, Gets, At
<1>8. OwnFrame(o, Monitor)'
  BY <1>1, <1>3, MonitorThread, GatewayAssumption
  DEF OwnFrame, FrameOK, Frame, tableVars, Has
<1>9. MonitorOK(o)'
  BY <1>1, <1>2, MonitorThread DEF MonitorOK, tableVars
<1>10. ASSUME NEW c \in Clients, NEW x \in SessionIds,
              Has(x) \/ WillTell(Monitor, c, x)
       PROVE  Has(x)' \/ WillTell(Monitor, c, x)'
  BY <1>1, <1>6, <1>10 DEF TableKept, WillTell, At
<1> QED BY <1>5, <1>6, <1>7, <1>8, <1>9, <1>10, MonitorThread, MoveKeeps

\* fail_session() reads the route only of a session it has moved to CLOSING.
LEMMA FailBeginKeeps ==
    ASSUME NEW o, InvFor(o), FailBegin, TableInv'
    PROVE  InvFor(o)'
<1> DEFINE s == call[Monitor].s
<1>1. /\ UNCHANGED <<client, apphost, disabled, monitor>> /\ TransitionToClosing(s)
      /\ call[Monitor].at = "fail"
  BY DEF FailBegin, At
<1>2. TableKept
  BY <1>1, TouchIsKept DEF InvFor, TableInv
<1>3. CASE ~Closable(s)
  <2>1. call' = [call EXCEPT ![Monitor] = Idle]
    BY <1>3 DEF FailBegin, Return
  <2>2. call'[Monitor] = Idle /\ next_session_id' = next_session_id
    BY <1>2, <2>1, MonitorThread DEF InvFor, GatewayTypeOK, TableKept
  <2>3. FrameOK(o, Monitor)'
    BY <2>2, MonitorThread, OwnIdle DEF OwnFrame
  <2>4. MonitorOK(o)'
    BY <1>1, <2>2, MonitorThread DEF MonitorOK, Idle
  <2> QED BY <1>1, <1>2, <2>1, <2>3, <2>4, IdleIsFrame, MonitorThread, MonitorMoves
<1>4. CASE Closable(s)
  <2> DEFINE f == [call[Monitor] EXCEPT !.at = "fail_notify", !.client = FindClient(s),
                                        !.apphost = FindAppHost(s), !.pid = GetPid(s)]
  <2>1. call' = [call EXCEPT ![Monitor] = f]
    BY <1>4 DEF FailBegin
  <2>2. /\ f \in Frame /\ f.at = "fail_notify" /\ f.s = s /\ f.client = FindClient(s)
        /\ f.apphost = FindAppHost(s) /\ f.pid = GetPid(s)
    BY MonitorThread, Finding, LabelsArePlaces DEF Frame
  <2> HIDE DEF f
  <2>3. call'[Monitor] = f /\ next_session_id' = next_session_id
    BY <1>2, <2>1, MonitorThread DEF InvFor, GatewayTypeOK, TableKept
  <2>4. Has(s) /\ s < next_session_id
    BY <1>4, MonitorThread DEF Closable, FrameOK
  <2>5. FrameOK(o, Monitor)'
    BY <1>1, <2>2, <2>3, <2>4, Finding DEF FrameOK
  <2>6. MonitorOK(o)'
    BY <1>1, <2>2, <2>3, <2>4, Finding, MonitorThread DEF MonitorOK
  <2> QED BY <1>1, <1>2, <2>1, <2>2, <2>5, <2>6, MonitorThread, MonitorMoves
<1> QED BY <1>3, <1>4

LEMMA FailNotifyKeeps ==
    ASSUME NEW o, InvFor(o), FailNotify, TableInv'
    PROVE  InvFor(o)'
<1> DEFINE f == [call[Monitor] EXCEPT !.at = "fail_apphost", !.notify = FALSE]
<1>1. /\ UNCHANGED <<tableVars, apphost, disabled, monitor>>
      /\ call[Monitor].at = "fail_notify" /\ call' = [call EXCEPT ![Monitor] = f]
  BY DEF FailNotify, At
<1>2. /\ f \in Frame /\ f.at = "fail_apphost" /\ f.s = call[Monitor].s
      /\ f.client = call[Monitor].client /\ f.apphost = call[Monitor].apphost
      /\ f.pid = call[Monitor].pid
  BY MonitorThread, LabelsArePlaces DEF Frame
<1> HIDE DEF f
<1>3. call'[Monitor] = f
  BY <1>1, MonitorThread DEF InvFor, GatewayTypeOK
<1>4. OwnFrame(o, Monitor)'
  BY <1>1, <1>2, <1>3, MonitorThread DEF OwnFrame, FrameOK, tableVars
<1>5. MonitorOK(o)'
  BY <1>1, <1>2, <1>3, MonitorThread DEF MonitorOK, tableVars
<1>6. TableKept
  BY <1>1, UnchangedIsKept
<1>7. \A d \in Clients, x \in SessionIds : ~WillTell(Monitor, d, x)
  BY <1>1, MonitorThread DEF WillTell, At
<1>8. Notified(o, Monitor)
  <2>1. CASE UNCHANGED client
    BY <1>7, <2>1 DEF Notified, Gets, InvFor, GatewayTypeOK
  <2>2. CASE ToClient(call[Monitor].client, "ERROR_RESP", call[Monitor].s)
    <3>1. PICK c, s, cmd : /\ c = call[Monitor].client /\ s = call[Monitor].s
                           /\ cmd = "ERROR_RESP" /\ ToClient(c, cmd, s)
      BY <2>2 DEF ToClient
    <3>2. /\ c \in Clients \cup {None} /\ s \in SessionIds \cup {0}
          /\ c # None => s < next_session_id /\ o[s] = c
          /\ cmd \in {"SESSION_ACK", "ERROR_RESP", "CLOSE_SESSION"}
          /\ cmd # "SESSION_ACK"
      BY <3>1, MonitorThread DEF Frame, FrameOK
    <3> QED BY <1>6, <1>7, <3>1, <3>2, SendNotifies
  <2> QED BY <2>1, <2>2 DEF FailNotify
<1> QED BY <1>1, <1>2, <1>4, <1>5, <1>6, <1>8, MonitorThread, SendMoves

\* DisableHandle() on one more connection.
LEMMA DisableMoves ==
    ASSUME NEW o, InvFor(o), NEW f \in Frame, call' = [call EXCEPT ![Monitor] = f],
           UNCHANGED <<tableVars, client, apphost, monitor>>, TableInv',
           disabled \subseteq disabled', disabled' \subseteq Clients \cup AppHosts,
           call[Monitor].at # "close_client", OwnFrame(o, Monitor)', MonitorOK(o)'
    PROVE  InvFor(o)'
<1>1. GatewayTypeOK'
  BY DEF InvFor, TableInv, GatewayTypeOK
<1>2. TableKept /\ TableShrunk /\ IndexComplete'
  BY UnchangedIsKept, KeptIsShrunk, KeptIndexComplete DEF InvFor
<1>3. \A u \in Threads : call'[u] = IF u = Monitor THEN f ELSE call[u]
  BY DEF InvFor, GatewayTypeOK
<1>4. Move(o, Monitor)
  BY <1>2, <1>3, MonitorThread DEF Move, Gets, At, Threads
<1>5. \A c \in Clients, x \in SessionIds :
        ~WillTell(Monitor, c, x) /\ (Has(x) => Has(x)')
  BY <1>2, MonitorThread DEF WillTell, At, TableKept
<1> QED BY <1>1, <1>2, <1>4, <1>5, MoveKeeps

LEMMA FailDisableAppHostKeeps ==
    ASSUME NEW o, InvFor(o), FailDisableAppHost, TableInv'
    PROVE  InvFor(o)'
<1> DEFINE f == [call[Monitor] EXCEPT !.at = "fail_client", !.apphost = None]
<1>1. /\ UNCHANGED <<tableVars, client, apphost, monitor>>
      /\ call[Monitor].at = "fail_apphost" /\ call' = [call EXCEPT ![Monitor] = f]
      /\ disabled' = disabled \cup ({call[Monitor].apphost} \ {None})
  BY DEF FailDisableAppHost, At
<1>2. /\ f \in Frame /\ f.at = "fail_client" /\ f.s = call[Monitor].s
      /\ f.client = call[Monitor].client /\ f.apphost = None
      /\ f.pid = call[Monitor].pid
  BY MonitorThread, LabelsArePlaces DEF Frame
<1> HIDE DEF f
<1>3. call'[Monitor] = f
  BY <1>1, MonitorThread DEF InvFor, GatewayTypeOK
<1>4. disabled \subseteq disabled' /\ disabled' \subseteq Clients \cup AppHosts
  BY <1>1, MonitorThread DEF Frame, InvFor, GatewayTypeOK
<1>5. OwnFrame(o, Monitor)'
  BY <1>1, <1>2, <1>3, MonitorThread DEF OwnFrame, FrameOK, tableVars
<1>6. MonitorOK(o)'
  BY <1>1, <1>2, <1>3, MonitorThread DEF MonitorOK, tableVars
<1> QED BY <1>1, <1>2, <1>4, <1>5, <1>6, DisableMoves

LEMMA FailDisableClientKeeps ==
    ASSUME NEW o, InvFor(o), FailDisableClient, TableInv'
    PROVE  InvFor(o)'
<1> DEFINE f == [call[Monitor] EXCEPT !.at = "fail_kill", !.client = None]
<1>1. /\ UNCHANGED <<tableVars, client, apphost, monitor>>
      /\ call[Monitor].at = "fail_client" /\ call' = [call EXCEPT ![Monitor] = f]
      /\ disabled' = disabled \cup ({call[Monitor].client} \ {None})
  BY DEF FailDisableClient, At
<1>2. /\ f \in Frame /\ f.at = "fail_kill" /\ f.s = call[Monitor].s
      /\ f.client = None /\ f.apphost = call[Monitor].apphost
      /\ f.pid = call[Monitor].pid
  BY MonitorThread, LabelsArePlaces DEF Frame
<1> HIDE DEF f
<1>3. call'[Monitor] = f
  BY <1>1, MonitorThread DEF InvFor, GatewayTypeOK
<1>4. disabled \subseteq disabled' /\ disabled' \subseteq Clients \cup AppHosts
  BY <1>1, MonitorThread DEF Frame, InvFor, GatewayTypeOK
<1>5. OwnFrame(o, Monitor)'
  BY <1>1, <1>2, <1>3, MonitorThread DEF OwnFrame, FrameOK, tableVars
<1>6. MonitorOK(o)'
  <2>1. call[Monitor].s # 0 /\ o[call[Monitor].s] \in disabled'
    BY <1>1, MonitorThread DEF MonitorOK, FrameOK
  <2> QED BY <1>1, <1>2, <1>3, <2>1, MonitorThread DEF MonitorOK, tableVars
<1> QED BY <1>1, <1>2, <1>4, <1>5, <1>6, DisableMoves

LEMMA FailTerminateKeeps ==
    ASSUME NEW o, InvFor(o), FailTerminate, TableInv'
    PROVE  InvFor(o)'
<1> DEFINE f == [call[Monitor] EXCEPT !.at = "fail_remove", !.pid = None]
<1>1. /\ UNCHANGED <<tableVars, client, disabled, monitor>>
      /\ call[Monitor].at = "fail_kill" /\ call' = [call EXCEPT ![Monitor] = f]
      /\ Terminate(call[Monitor].pid)
  BY DEF FailTerminate, At
<1>2. /\ f \in Frame /\ f.at = "fail_remove" /\ f.s = call[Monitor].s
      /\ f.client = call[Monitor].client /\ f.apphost = call[Monitor].apphost
      /\ f.pid = None
  BY MonitorThread, LabelsArePlaces DEF Frame
<1> HIDE DEF f
<1>3. call'[Monitor] = f
  BY <1>1, MonitorThread DEF InvFor, GatewayTypeOK
<1>4. call[Monitor].pid \in Pids \cup {None}
  BY MonitorThread DEF Frame
<1>5. /\ apphost' \in [AppHosts -> AppHostSession]
      /\ \A b \in AppHosts :
           /\ apphost'[b].process = apphost[b].process
           /\ apphost'[b].launched = apphost[b].launched
           /\ apphost'[b].link = apphost[b].link
           /\ apphost'[b].session_id = apphost[b].session_id
           /\ apphost'[b].told = apphost[b].told
  BY <1>1, <1>4, Killing DEF InvFor
<1>6. OwnFrame(o, Monitor)'
  BY <1>1, <1>2, <1>3, <1>5, MonitorThread DEF OwnFrame, FrameOK, Frame, tableVars
<1>7. MonitorOK(o)'
  BY <1>1, <1>2, <1>3, MonitorThread DEF MonitorOK, tableVars
<1>8. \A d \in Clients, x \in SessionIds : ~WillTell(Monitor, d, x)
  BY <1>1, MonitorThread DEF WillTell, At
<1> QED BY <1>1, <1>2, <1>5, <1>6, <1>7, <1>8, MonitorThread, UnchangedIsKept, ReachMoves

LEMMA FailRemoveKeeps ==
    ASSUME NEW o, InvFor(o), FailRemove, TableInv'
    PROVE  InvFor(o)'
<1> DEFINE s == call[Monitor].s
<1>1. /\ UNCHANGED <<client, apphost, disabled, monitor>> /\ RemoveSession(s)
      /\ call[Monitor].at = "fail_remove" /\ call' = [call EXCEPT ![Monitor] = Idle]
  BY DEF FailRemove, At, Return
<1>2. call'[Monitor] = Idle
  BY <1>1, MonitorThread DEF InvFor, GatewayTypeOK
<1>3. next_session_id' = next_session_id
  BY <1>1, RemoveIsShrunk DEF TableShrunk, InvFor, TableInv
<1>4. OwnFrame(o, Monitor)'
  BY <1>2, <1>3, MonitorThread, OwnIdle
<1>5. MonitorOK(o)'
  BY <1>1, <1>2, <1>3, MonitorThread DEF MonitorOK, Idle
<1>6. \A d \in Clients, x \in SessionIds : x = s /\ o[x] = d => d \in disabled
  BY <1>1, MonitorThread DEF MonitorOK
<1> QED BY <1>1, <1>4, <1>5, <1>6, MonitorThread, IdleIsFrame, RemoveMoves

LEMMA MonitorKeeps ==
    ASSUME NEW o, InvFor(o), MonitorStep \/ TimePasses, TableInv'
    PROVE  InvFor(o)'
<1>1. CASE Reap \/ NextExit \/ Snapshot \/ NextDue \/ Sleep \/ TimePasses
  BY <1>1, ReapKeeps, NextExitKeeps, SnapshotKeeps, NextDueKeeps, SleepKeeps,
     TimePassesKeeps
<1>2. CASE \/ FailBegin \/ FailNotify \/ FailDisableAppHost \/ FailDisableClient
           \/ FailTerminate \/ FailRemove
  BY <1>2, FailBeginKeeps, FailNotifyKeeps, FailDisableAppHostKeeps,
     FailDisableClientKeeps, FailTerminateKeeps, FailRemoveKeeps
<1> QED BY <1>1, <1>2 DEF MonitorStep

-----------------------------------------------------------------------------
(* The invariant holds throughout, and what follows from it.               *)

LEMMA StutterKeeps ==
    ASSUME NEW o, InvFor(o), UNCHANGED vars
    PROVE  InvFor(o)'
<1>1. UNCHANGED <<client, apphost, disabled, call, monitor>> /\ UNCHANGED tableVars
  BY DEF vars
<1>2. TableInv'
  BY NextPreserves DEF vars, InvFor
<1> DEFINE m == monitor
<1>3. m \in MonitorType /\ monitor' = m /\ \A d \in m.due : d[1] < next_session_id
  BY <1>1 DEF InvFor, GatewayTypeOK, MonitorType, OwnedBy, MonitorOK
<1> HIDE DEF m
<1> QED BY <1>1, <1>2, <1>3, UnchangedIsKept, MonitorListsKeep

LEMMA InitOwned == GatewayInit => GatewayInv
<1> SUFFICES ASSUME GatewayInit PROVE GatewayInv
  OBVIOUS
<1> DEFINE o == [s \in SessionIds |-> None]
<1>1. o \in Owners
  BY DEF Owners
<1>2. TableInv /\ next_session_id = 1 /\ \A s : ~Has(s)
  BY NoSessionType, TableAssumption
  DEF GatewayInit, TableInit, TableInv, TableTypeOK, IndexSound, FreshIds, Has, SessionIds
<1>3. \A t \in Threads :
         /\ call[t] = Idle /\ call[t].at = "idle" /\ call[t].s = 0
         /\ call[t].client = None /\ call[t].apphost = None /\ call[t].pid = None
  BY DEF GatewayInit, Idle
<1>4. \A c \in Clients :
         client[c].session_id = 0 /\ client[c].link = "none" /\ DOMAIN client[c].sent = {}
  <2>1. \A c \in Clients :
           client[c].session_id = 0 /\ client[c].link = "none" /\ client[c].sent = <<>>
    BY DEF GatewayInit
  <2>2. DOMAIN <<>> = {}
    OBVIOUS
  <2> QED BY <2>1, <2>2
<1>5. \A a \in AppHosts :
         /\ apphost[a].process = "none" /\ apphost[a].link = "none"
         /\ apphost[a].launched = 0 /\ apphost[a].session_id = 0
         /\ apphost[a].told = {}
  BY DEF GatewayInit
<1>6. GatewayTypeOK
  <2>1. Idle \in Frame
    BY IdleIsFrame
  <2>2. client \in [Clients -> ClientSession]
    <3>1. <<>> \in Seq(Notice) /\ 0 \in 0..MaxSpawns
      BY GatewayAssumption
    <3> QED BY <3>1 DEF GatewayInit, ClientSession
  <2>3. apphost \in [AppHosts -> AppHostSession]
    BY DEF GatewayInit, AppHostSession
  <2> QED BY <1>2, <2>1, <2>2, <2>3 DEF GatewayInit, GatewayTypeOK, TableInv
<1>7. IndexComplete /\ AckMeansBound
  BY <1>2 DEF IndexComplete, AckMeansBound
<1>8. EndIsTold
  BY <1>4 DEF EndIsTold
<1>9. OwnedBy(o)
  <2>1. Stored(o)
    BY <1>2 DEF Stored
  <2>2. \A c \in Clients : c \in Threads
    BY DEF Threads
  <2>3. \A a \in AppHosts : a \in Threads
    BY DEF Threads
  <2>4. ClientsOK(o)
    BY <1>3, <1>4, <2>2 DEF ClientsOK, At
  <2>5. AppHostsOK(o)
    <3> HIDE DEF o
    <3> QED BY <1>3, <1>5, <2>3 DEF AppHostsOK, At
  <2>6. MonitorOK(o)
    <3> HIDE DEF o
    <3>1. call[Monitor].at = "idle"
      BY <1>3 DEF Threads
    <3>2. monitor.due = {}
      BY DEF GatewayInit
    <3> QED BY <3>1, <3>2 DEF MonitorOK
  <2>7. \A t \in Threads : FrameOK(o, t)
    BY <1>2, <1>3 DEF FrameOK
  <2>8. \A c \in Clients : ClientFrameOK(c)
    BY <1>3, <2>2 DEF ClientFrameOK, Spawning, Releasing
  <2>9. \A a \in AppHosts : AppHostFrameOK(a)
    BY <1>3, <2>3 DEF AppHostFrameOK, Releasing
  <2> QED BY <2>1, <2>4, <2>5, <2>6, <2>7, <2>8, <2>9 DEF OwnedBy
<1> HIDE DEF o
<1> QED BY <1>1, <1>2, <1>6, <1>7, <1>8, <1>9 DEF InvFor, GatewayInv

LEMMA NextOwned == GatewayInv /\ [GatewayNext]_vars => GatewayInv'
<1> SUFFICES ASSUME GatewayInv, [GatewayNext]_vars PROVE GatewayInv'
  OBVIOUS
<1>1. PICK o \in Owners : InvFor(o)
  BY DEF GatewayInv
<1>2. TableInv'
  BY <1>1, StepOnTable
<1>3. \E p : InvFor(p)'
  <2>1. ASSUME NEW c \in Clients, ClientSends(c) \/ ClientHandlerStep(c)
        PROVE  \E p : InvFor(p)'
    BY <1>1, <1>2, <2>1, ClientKeeps
  <2>2. ASSUME NEW a \in AppHosts,
               \/ AppHostSends(a) \/ ReceiveReady(a) \/ AppHostDisconnects(a)
               \/ AppHostHandlerStep(a)
        PROVE  InvFor(o)'
    BY <1>1, <1>2, <2>2, AppHostKeeps
  <2>3. CASE MonitorStep \/ TimePasses
    BY <1>1, <1>2, <2>3, MonitorKeeps
  <2>4. CASE UNCHANGED vars
    BY <1>1, <2>4, StutterKeeps
  <2> QED BY <2>1, <2>2, <2>3, <2>4 DEF GatewayNext
<1>4. PICK p : InvFor(p)'
  BY <1>3
<1>5. p \in Owners' /\ InvFor(p)'
  BY <1>4 DEF InvFor
<1> QED BY <1>5 DEF GatewayInv

\* There is at every moment a map of owners to which the table, the
\* connections, the frames and the packets sent agree.
THEOREM GatewayIsSound == GatewaySpec => []GatewayInv
<1>1. QED BY InitOwned, NextOwned, PTL DEF GatewaySpec

\* Every variable has its type: no handler runs with a frame it cannot hold.
THEOREM GatewayIsTyped == GatewaySpec => []GatewayTypeOK
<1>1. GatewayInv => GatewayTypeOK
  BY DEF GatewayInv, InvFor
<1>2. QED BY <1>1, GatewayIsSound, PTL

\* No session is hidden from the handle that a disconnect or an exited child
\* is looked up by, for any number of connections and any interleaving.
THEOREM IndexIsComplete == GatewaySpec => []IndexComplete
<1>1. GatewayInv => IndexComplete
  BY DEF GatewayInv, InvFor
<1>2. QED BY <1>1, GatewayIsSound, PTL

\* A Client is told that its session runs only once the AppHost is bound.
THEOREM AckIsBound == GatewaySpec => []AckMeansBound
<1>1. GatewayInv => AckMeansBound
  BY DEF GatewayInv, InvFor
<1>2. QED BY <1>1, GatewayIsSound, PTL

\* Nothing reaches a peer of another session than the one its header names,
\* however stale the route is; the sender need not be of that session, but an
\* AppHost is, and a Client that names an id it was given.
THEOREM RoutesAreOwn == GatewaySpec => []RoutedToOwnPeer
<1>1. GatewayInv => RoutedToOwnPeer
  <2> SUFFICES ASSUME NEW o \in Owners, InvFor(o) PROVE RoutedToOwnPeer
    BY DEF GatewayInv
  <2>1. ASSUME NEW t \in Threads, At(t, "forward_send")
        PROVE  /\ call[t].apphost # None =>
                    /\ apphost[call[t].apphost].launched = call[t].s
                    /\ Knows(t, call[t].s) => client[t].session_id = call[t].s
               /\ call[t].client # None =>
                    /\ client[call[t].client].session_id = call[t].s
                    /\ apphost[t].launched = call[t].s
    <3>1. FrameOK(o, t) /\ call[t].at = "forward_send"
      BY <2>1 DEF InvFor, OwnedBy, At
    <3>2. call[t].apphost # None => apphost[call[t].apphost].launched = call[t].s
      BY <3>1 DEF FrameOK
    <3>3. CASE t \in Clients
      <4>1. call[t].client = None
        BY <3>1, <3>3 DEF InvFor, OwnedBy, ClientFrameOK
      <4>2. ASSUME call[t].apphost # None, Knows(t, call[t].s)
            PROVE  client[t].session_id = call[t].s
        <5>1. /\ call[t].s # 0 /\ call[t].apphost \in AppHosts
              /\ apphost[call[t].apphost].launched = call[t].s
          BY <3>1, <3>2, <4>2, CallHasType DEF FrameOK, InvFor
        <5>2. o[call[t].s] = t
          BY <3>3, <4>2, <5>1 DEF Knows, InvFor, OwnedBy, ClientsOK
        <5> QED BY <5>1, <5>2 DEF InvFor, OwnedBy, AppHostsOK
      <4> QED BY <3>2, <4>1, <4>2
    <3>4. CASE t \in AppHosts
      <4>1. call[t].s = apphost[t].launched
        BY <3>1, <3>4 DEF InvFor, OwnedBy, AppHostFrameOK
      <4>2. call[t].client # None => call[t].s # 0 /\ o[call[t].s] = call[t].client
        BY <3>1 DEF FrameOK
      <4>3. call[t].s # 0 => client[o[call[t].s]].session_id = call[t].s
        BY <3>4, <4>1 DEF InvFor, OwnedBy, AppHostsOK
      <4>4. call[t].apphost = None
        BY <3>1, <3>4 DEF InvFor, OwnedBy, AppHostFrameOK
      <4> QED BY <4>1, <4>2, <4>3, <4>4
    <3>5. CASE t = Monitor
      BY <3>1, <3>5 DEF InvFor, OwnedBy, MonitorOK
    <3> QED BY <3>3, <3>4, <3>5 DEF Threads
  <2>2. \A a \in AppHosts : apphost[a].told \subseteq {apphost[a].launched}
    BY DEF InvFor, OwnedBy, AppHostsOK
  <2>3. ASSUME NEW c \in Clients, NEW d \in Clients, c # d,
               NEW i \in DOMAIN client[c].sent, NEW j \in DOMAIN client[d].sent,
               client[c].sent[i].s = client[d].sent[j].s
        PROVE  client[c].sent[i].s = 0
    <3> DEFINE x == client[c].sent[i].s  y == client[d].sent[j].s
    <3>1. x # 0 => o[x] = c
      BY DEF InvFor, OwnedBy, ClientsOK
    <3>2. y # 0 => o[y] = d
      BY DEF InvFor, OwnedBy, ClientsOK
    <3> QED BY <2>3, <3>1, <3>2
  <2> QED BY <2>1, <2>2, <2>3 DEF RoutedToOwnPeer
<1>2. QED BY <1>1, GatewayIsSound, PTL

\* A Client never has two sessions that are starting or running.
THEOREM ClientHasOneSession == GatewaySpec => []OneSessionPerClient
<1>1. GatewayInv => OneSessionPerClient
  <2> SUFFICES ASSUME NEW o \in Owners, InvFor(o), NEW c \in Clients
               PROVE  Cardinality({s \in SessionIds :
                        /\ Has(s) /\ by_session[s].client_conn = c
                        /\ by_session[s].state \in {"SPAWNING", "ACTIVE"}}) <= 1
    BY DEF GatewayInv, OneSessionPerClient
  <2> DEFINE x == client[c].session_id
             S == {s \in SessionIds :
                        /\ Has(s) /\ by_session[s].client_conn = c
                        /\ by_session[s].state \in {"SPAWNING", "ACTIVE"}}
  <2>1. S \subseteq {x}
    BY DEF InvFor, OwnedBy, Stored
  <2>2. IsFiniteSet({x}) /\ Cardinality({x}) = 1
    BY FS_Singleton
  <2>3. Cardinality(S) <= Cardinality({x})
    BY <2>1, <2>2, FS_Subset
  <2> QED BY <2>2, <2>3
<1>2. QED BY <1>1, GatewayIsSound, PTL

\* Whichever of the racing paths took a session out, its Client was told.
THEOREM EndsAreTold == GatewaySpec => []NoSilentEnd
<1>1. GatewayInv => NoSilentEnd
  <2> SUFFICES ASSUME NEW o \in Owners, InvFor(o), NEW c \in Clients,
                      client[c].session_id # 0, ~Has(client[c].session_id),
                      Quiet(client[c].session_id),
                      client[c].link = "linked", c \notin disabled,
                      ~client[c].foreclosed
               PROVE  EndNotices(c, client[c].session_id) # {}
    BY DEF GatewayInv, NoSilentEnd
  <2>1. client[c].session_id \in SessionIds
    BY DEF InvFor, GatewayTypeOK, ClientSession
  <2>2. \A t \in Threads : ~WillTell(t, c, client[c].session_id)
    BY DEF Quiet, WillTell
  <2> QED BY <2>1, <2>2 DEF InvFor, EndIsTold
<1>2. QED BY <1>1, GatewayIsSound, PTL

\* The Gateway's steps are steps of the table.
LEMMA GatewayUsesTable == GatewaySpec => TableSpec
<1>1. GatewayInit => TableInit
  BY DEF GatewayInit
<1>2. GatewayInv /\ [GatewayNext]_vars => [TableNext]_tableVars
  BY StepOnTable DEF GatewayInv
<1>3. QED BY <1>1, <1>2, GatewayIsSound, PTL DEF GatewaySpec, TableSpec

\* So the table's own theorems hold in the Gateway: its indexes lead only to
\* stored sessions, and no id is given out twice.
THEOREM TableInGateway ==
    GatewaySpec => [](IndexSound /\ FreshIds) /\ IdsNotReused
<1>1. QED BY GatewayUsesTable, TableIsSound, IdsAreNotReused, PTL


-----------------------------------------------------------------------------
(* A session that is stored still has both its ends.                       *)

\* The notice that session s was closed.
Closed(s) == [cmd |-> "CLOSE_SESSION", s |-> s]

\* The monitor is in the middle of failing session s.
Failing(s) == call[Monitor].s = s /\ ~At(Monitor, "fail")

\* Nothing was done yet to either end of session s.
Whole(s) ==
    /\ \A a \in AppHosts : apphost[a].launched = s =>
         ~apphost[a].killed /\ apphost[a].told = {} /\ a \notin disabled
    /\ \A c \in Clients : \A i \in DOMAIN client[c].sent :
         client[c].sent[i] # Closed(s)

Ending == {"close_client", "close_apphost", "close_kill", "release_tell"}

\* A handler that goes on to tell and to kill has taken its session out, or
\* it found no session and has nobody to reach.
EndsLast(t) ==
    LET f == call[t] IN
    f.at \in Ending /\ Has(f.s) =>
       /\ f.at # "release_tell"
       /\ f.client = None /\ f.apphost = None /\ f.pid = None

\* What NothingHalfClosed needs to be inductive, on top of GatewayInv.
WholeInv ==
    /\ \A s \in SessionIds : Has(s) /\ ~Failing(s) => Whole(s)
    /\ \A t \in Clients \cup AppHosts : EndsLast(t)
    /\ \A a \in AppHosts : apphost[a].launched = 0 =>
         ~apphost[a].killed /\ a \notin disabled

\* No Client hears in this step that session x was closed.
Unheard(x) ==
    \A c \in Clients : \A i \in DOMAIN client'[c].sent :
       client'[c].sent[i] = Closed(x) =>
         \E j \in DOMAIN client[c].sent : client[c].sent[j] = Closed(x)

\* The step does nothing to AppHost a, except that it may launch it.
Unhurt(a) ==
    /\ apphost[a].launched \in {0, apphost'[a].launched}
    /\ apphost'[a].killed => apphost[a].killed
    /\ apphost'[a].told \subseteq apphost[a].told
    /\ a \in disabled' => a \in disabled

\* The step does nothing to the ends of session x.
Spares(x) ==
    /\ \A a \in AppHosts : apphost'[a].launched = x => Unhurt(a)
    /\ Unheard(x)

\* No process was launched for an id that was not given out, and no Client
\* has heard of it.
LEMMA FreshIsWhole ==
    ASSUME NEW o, InvFor(o), NEW x \in SessionIds, ~(x < next_session_id)
    PROVE  Whole(x)
<1>1. x # 0
  BY DEF SessionIds
<1>2. \A a \in AppHosts : apphost[a].launched # x
  BY <1>1 DEF InvFor, OwnedBy, AppHostsOK
<1>3. ASSUME NEW c \in Clients, NEW i \in DOMAIN client[c].sent
      PROVE  client[c].sent[i] # Closed(x)
  <2>1. client[c].sent[i].s # x
    BY <1>1 DEF InvFor, OwnedBy, ClientsOK
  <2> QED BY <2>1 DEF Closed
<1> QED BY <1>2, <1>3 DEF Whole

\* Who is stored after a step was stored before it or has a fresh id.
LEMMA StoredBefore ==
    ASSUME NEW o, InvFor(o), [TableNext]_tableVars, NEW x, Has(x)'
    PROVE  x \in SessionIds /\ (Has(x) \/ ~(x < next_session_id))
<1>1. x \in SessionIds
  BY DEF Has
<1>2. CASE TableNext
  BY <1>1, <1>2, AbsentStaysAbsent DEF InvFor
<1>3. CASE UNCHANGED tableVars
  BY <1>3 DEF tableVars, Has
<1> QED BY <1>1, <1>2, <1>3

\* A step keeps the invariant if it spares the sessions that stay and that the
\* monitor is not failing, and a handler that moves has taken out what it goes
\* on to end.
LEMMA WholeCarries ==
    ASSUME NEW o, InvFor(o), WholeInv, [TableNext]_tableVars,
           \A u \in Clients \cup AppHosts : call'[u] = call[u] \/ EndsLast(u)',
           \A x \in SessionIds : Has(x)' /\ ~Failing(x)' =>
             Spares(x) /\ (Has(x) => ~Failing(x)),
           \A a \in AppHosts : apphost'[a].launched = 0 => Unhurt(a)
    PROVE  WholeInv'
<1>1. ASSUME NEW x \in SessionIds, Has(x)', ~Failing(x)'
      PROVE  Whole(x)'
  <2>1. Whole(x)
    BY <1>1, StoredBefore, FreshIsWhole DEF WholeInv
  <2>2. Spares(x)
    BY <1>1
  <2>3. ASSUME NEW a \in AppHosts, apphost'[a].launched = x
        PROVE  ~apphost'[a].killed /\ apphost'[a].told = {} /\ a \notin disabled'
    <3>1. Unhurt(a) /\ apphost[a].launched \in {0, x}
      BY <2>2, <2>3 DEF Spares, Unhurt
    <3>2. CASE apphost[a].launched = x
      BY <2>1, <3>1, <3>2 DEF Whole, Unhurt
    <3>3. CASE apphost[a].launched = 0
      <4>1. ~apphost[a].killed /\ a \notin disabled
        BY <3>3 DEF WholeInv
      <4>2. apphost[a].told \subseteq {0} /\ apphost[a].told \subseteq SessionIds
        BY <3>3 DEF InvFor, OwnedBy, AppHostsOK, GatewayTypeOK, AppHostSession
      <4>3. apphost[a].told = {}
        BY <4>2 DEF SessionIds
      <4> QED BY <3>1, <4>1, <4>3 DEF Unhurt
    <3> QED BY <3>1, <3>2, <3>3
  <2>4. \A c \in Clients : \A i \in DOMAIN client'[c].sent :
          client'[c].sent[i] # Closed(x)
    BY <2>1, <2>2 DEF Spares, Unheard, Whole
  <2> QED BY <2>3, <2>4 DEF Whole, Closed
<1>2. ASSUME NEW u \in Clients \cup AppHosts, call'[u] = call[u]
      PROVE  EndsLast(u)'
  <2> DEFINE s == call[u].s
  <2>1. FrameOK(o, u) /\ EndsLast(u)
    BY DEF Threads, InvFor, OwnedBy, WholeInv
  <2>2. Has(s)' => Has(s) \/ ~(s < next_session_id)
    BY <1>2, StoredBefore DEF Has
  <2>3. ~(s < next_session_id) =>
          /\ call[u].client = None /\ call[u].apphost = None /\ call[u].pid = None
          /\ call[u].at # "release_tell"
    BY <2>1 DEF FrameOK, Naming
  <2>4. /\ call[u].at \in Ending /\ Has(s)' =>
             /\ call[u].at # "release_tell"
             /\ call[u].client = None /\ call[u].apphost = None /\ call[u].pid = None
    BY <2>1, <2>2, <2>3 DEF EndsLast
  <2> QED BY <1>2, <2>4 DEF EndsLast, Has
<1>3. ASSUME NEW a \in AppHosts, apphost'[a].launched = 0
      PROVE  ~apphost'[a].killed /\ a \notin disabled'
  BY <1>3 DEF WholeInv, Unhurt
<1> QED BY <1>1, <1>2, <1>3 DEF WholeInv, SessionIds

\* A send of anything else, or about another session, or to nobody.
LEMMA SendUnheard ==
    ASSUME GatewayTypeOK, NEW c \in Clients \cup {None},
           NEW cmd \in {"SESSION_ACK", "ERROR_RESP", "CLOSE_SESSION"},
           NEW s \in SessionIds \cup {0}, ToClient(c, cmd, s), NEW x,
           cmd # "CLOSE_SESSION" \/ s # x \/ c = None
    PROVE  Unheard(x)
<1> DEFINE n == [cmd |-> cmd, s |-> s]
<1> SUFFICES ASSUME NEW d \in Clients, NEW i \in DOMAIN client'[d].sent,
                    client'[d].sent[i] = Closed(x)
             PROVE  \E j \in DOMAIN client[d].sent : client[d].sent[j] = Closed(x)
  BY DEF Unheard
<1>1. n \in Notice /\ (n = Closed(x) => cmd = "CLOSE_SESSION" /\ s = x)
  BY DEF Notice, Closed
<1>2. client[d].sent \in Seq(Notice)
  BY DEF GatewayTypeOK, ClientSession
<1>3. client'[d].sent =
        IF d = c /\ client[d].link = "linked" /\ d \notin disabled
        THEN Append(client[d].sent, n)
        ELSE client[d].sent
  BY Sending
<1> HIDE DEF n
<1>4. CASE client'[d].sent = client[d].sent
  BY <1>4
<1>5. CASE client'[d].sent = Append(client[d].sent, n) /\ d = c
  <2>1. n # Closed(x)
    BY <1>1, <1>5, TableAssumption
  <2> QED BY <1>1, <1>2, <1>5, <2>1, Appended
<1> QED BY <1>3, <1>4, <1>5

\* No Client hears of a close, no process is hurt, and no handler comes to
\* where it tells or kills.
Peaceful ==
    /\ call'[Monitor] = call[Monitor]
    /\ \A u \in Clients \cup AppHosts :
         call'[u] = call[u] \/ call'[u].at \notin Ending
    /\ \A a \in AppHosts : Unhurt(a)
    /\ \A x \in SessionIds : Unheard(x)

LEMMA PeaceKeepsWhole ==
    ASSUME NEW o, InvFor(o), WholeInv, [TableNext]_tableVars, Peaceful
    PROVE  WholeInv'
<1>1. \A x \in SessionIds : Spares(x)
  BY DEF Spares, Peaceful
<1>2. \A x : Failing(x)' <=> Failing(x)
  BY DEF Failing, At, Peaceful
<1>3. \A u \in Clients \cup AppHosts : call'[u].at \notin Ending => EndsLast(u)'
  BY DEF EndsLast
<1> QED BY <1>1, <1>2, <1>3, WholeCarries DEF Peaceful

\* A handler's own move, the Clients' and the AppHosts' part of it.
LEMMA OwnMove ==
    ASSUME NEW o, InvFor(o), NEW t \in Clients \cup AppHosts, NEW f,
           call' = [call EXCEPT ![t] = f]
    PROVE  /\ call'[t] = f /\ call'[Monitor] = call[Monitor]
           /\ \A u \in Clients \cup AppHosts : u # t => call'[u] = call[u]
  BY GatewayAssumption DEF InvFor, GatewayTypeOK, Threads

LEMMA UnchangedIsPeace ==
    /\ UNCHANGED <<apphost, disabled>> => \A a \in AppHosts : Unhurt(a)
    /\ UNCHANGED client => \A x : Unheard(x)
  BY DEF Unhurt, Unheard
-----------------------------------------------------------------------------
(* The steps in which nobody is told and nothing is killed.                *)

LEMMA SentKeptIsUnheard ==
    (\A c \in Clients : client'[c].sent = client[c].sent) => \A x : Unheard(x)
  BY DEF Unheard

\* A handler goes on to a place where it neither tells nor kills.
LEMMA MoveInPeace ==
    ASSUME NEW o, InvFor(o), NEW t \in Clients \cup AppHosts, NEW f,
           call' = [call EXCEPT ![t] = f], f.at \notin Ending
    PROVE  /\ call'[Monitor] = call[Monitor]
           /\ \A u \in Clients \cup AppHosts :
                call'[u] = call[u] \/ call'[u].at \notin Ending
  BY OwnMove

LEMMA SharedInPeace ==
    ASSUME NEW o, InvFor(o), NEW t \in Clients \cup AppHosts,
           CloseFind(t) \/ CloseGetPid(t) \/ Forward(t) \/ ForwardSend(t)
    PROVE  Peaceful
<1>1. UNCHANGED <<client, apphost, disabled>>
  BY DEF CloseFind, CloseGetPid, Forward, ForwardSend
<1>2. \E f : call' = [call EXCEPT ![t] = f] /\ f.at \notin Ending
  <2> DEFINE g == IF CloseFind(t)
                  THEN [call[t] EXCEPT !.at = "close_pid",
                                       !.client = FindClient(call[t].s),
                                       !.apphost = FindAppHost(call[t].s)]
                  ELSE IF CloseGetPid(t)
                  THEN [call[t] EXCEPT !.at = "close_remove",
                                       !.pid = GetPid(call[t].s)]
                  ELSE IF Forward(t)
                  THEN [call[t] EXCEPT
                    !.at = "forward_send",
                    !.apphost = IF t \in Clients THEN FindAppHost(call[t].s) ELSE None,
                    !.client  = IF t \in AppHosts THEN FindClient(call[t].s) ELSE None]
                  ELSE Idle
  <2>1. call[t] \in Frame
    BY DEF InvFor, GatewayTypeOK, Threads
  <2>2. g.at \notin Ending
    BY <2>1 DEF Ending, Idle, Frame
  <2>3. call' = [call EXCEPT ![t] = g]
    BY DEF CloseFind, CloseGetPid, Forward, ForwardSend, Return
  <2> QED BY <2>2, <2>3
<1> QED BY <1>1, <1>2, MoveInPeace, UnchangedIsPeace DEF Peaceful

\* Client packets, connections and lookups.
LEMMA ClientMovesInPeace ==
    ASSUME NEW o, InvFor(o), NEW c \in Clients,
           \/ AcceptClient(c) \/ ReceiveSpawnApp(c) \/ ReceiveClientClose(c)
           \/ ReceiveClientData(c) \/ ReceiveClientHeartbeat(c)
           \/ ClientDisconnects(c) \/ RecordPid(c) \/ UndoSpawn(c)
           \/ ReleaseClientFind(c) \/ ReleaseClientNoSession(c)
    PROVE  Peaceful
<1>1. UNCHANGED <<apphost, disabled>>
  BY DEF AcceptClient, ReceiveSpawnApp, ReceiveClientClose, ReceiveClientData,
         ReceiveClientHeartbeat, ClientDisconnects, RecordPid, UndoSpawn,
         ReleaseClientFind, ReleaseClientNoSession
<1>2. \A d \in Clients : client'[d].sent = client[d].sent
  <2>1. \A d \in Clients : client[d] \in ClientSession
    BY DEF InvFor, GatewayTypeOK
  <2>2. CASE AcceptClient(c)
    BY <2>1, <2>2 DEF AcceptClient, InvFor, GatewayTypeOK, ClientSession
  <2>3. CASE ReceiveSpawnApp(c)
    BY <2>1, <2>3 DEF ReceiveSpawnApp, InvFor, GatewayTypeOK, ClientSession
  <2>4. CASE ClientDisconnects(c)
    BY <2>1, <2>4 DEF ClientDisconnects, InvFor, GatewayTypeOK, ClientSession
  <2>5. CASE client' = client
    BY <2>5
  <2> QED
    BY <2>2, <2>3, <2>4, <2>5
    DEF ReceiveClientClose, ReceiveClientData, ReceiveClientHeartbeat, RecordPid,
        UndoSpawn, ReleaseClientFind, ReleaseClientNoSession
<1>3. call' = call \/ \E f : call' = [call EXCEPT ![c] = f] /\ f.at \notin Ending
  <2>1. call[c] \in Frame
    BY DEF InvFor, GatewayTypeOK, Threads
  <2>2. CASE AcceptClient(c) \/ ReceiveClientHeartbeat(c)
    BY <2>2 DEF AcceptClient, ReceiveClientHeartbeat
  <2>3. CASE RecordPid(c) \/ ReleaseClientNoSession(c)
    <3>1. call' = [call EXCEPT ![c] = Idle]
      BY <2>3 DEF RecordPid, ReleaseClientNoSession, Return
    <3>2. Idle.at \notin Ending
      BY DEF Idle, Ending
    <3> QED BY <3>1, <3>2
  <2>4. CASE ReceiveSpawnApp(c) \/ ReceiveClientClose(c) \/ ReceiveClientData(c)
    <3>1. PICK label \in {"spawn", "close", "forward"}, s \in SessionIds \cup {0} :
            ClientReceives(c, label, s)
      BY <2>4 DEF ReceiveSpawnApp, ReceiveClientClose, ReceiveClientData
    <3> DEFINE g == [call[c] EXCEPT !.at = label, !.s = s]
    <3>2. call' = [call EXCEPT ![c] = g] /\ g.at \notin Ending
      BY <2>1, <3>1 DEF ClientReceives, Ending, Frame
    <3> QED BY <3>2
  <2>5. CASE ClientDisconnects(c)
    <3> DEFINE g == [call[c] EXCEPT !.at = "release", !.s = client[c].session_id]
    <3>1. call' = [call EXCEPT ![c] = g] /\ g.at \notin Ending
      BY <2>1, <2>5 DEF ClientDisconnects, Ending, Frame
    <3> QED BY <3>1
  <2>6. CASE UndoSpawn(c)
    <3> DEFINE g == [call[c] EXCEPT !.at = "spawn_error"]
    <3>1. call' = [call EXCEPT ![c] = g] /\ g.at \notin Ending
      BY <2>1, <2>6 DEF UndoSpawn, Goto, Ending, Frame
    <3> QED BY <3>1
  <2>7. CASE ReleaseClientFind(c)
    <3> DEFINE g == [call[c] EXCEPT !.at = "release_remove",
                                    !.apphost = FindAppHost(call[c].s)]
    <3>1. call' = [call EXCEPT ![c] = g] /\ g.at \notin Ending
      BY <2>1, <2>7 DEF ReleaseClientFind, Ending, Frame
    <3> QED BY <3>1
  <2> QED BY <2>2, <2>3, <2>4, <2>5, <2>6, <2>7
<1> QED BY <1>1, <1>2, <1>3, MoveInPeace, UnchangedIsPeace, SentKeptIsUnheard DEF Peaceful

\* Both answers to a SPAWN_APP are no notice of a close.
LEMMA SpawnsInPeace ==
    ASSUME NEW o, InvFor(o), NEW c \in Clients,
           HandleSpawnApp(c) \/ ReportSpawnFailure(c)
    PROVE  Peaceful
<1>1. UNCHANGED <<apphost, disabled>>
  BY DEF HandleSpawnApp, ReportSpawnFailure
<1>2. \E f : call' = [call EXCEPT ![c] = f] /\ f.at \notin Ending
  <2>1. call[c] \in Frame
    BY DEF InvFor, GatewayTypeOK, Threads
  <2> DEFINE g == [call[c] EXCEPT !.at = "fork", !.s = next_session_id]
  <2>2. g.at \notin Ending /\ Idle.at \notin Ending
    BY <2>1 DEF Ending, Frame, Idle
  <2>3. call' = [call EXCEPT ![c] = g] \/ call' = [call EXCEPT ![c] = Idle]
    BY DEF HandleSpawnApp, ReportSpawnFailure, Return
  <2> QED BY <2>2, <2>3
<1>3. \A x \in SessionIds : Unheard(x)
  <2>1. ASSUME NEW s \in SessionIds \cup {0}, ToClient(c, "ERROR_RESP", s)
        PROVE  \A x \in SessionIds : Unheard(x)
    BY <2>1, SendUnheard DEF InvFor
  <2>2. client[c].session_id \in SessionIds \cup {0} /\ 0 \in SessionIds \cup {0}
    BY DEF InvFor, GatewayTypeOK, ClientSession
  <2>3. CASE HandleSpawnApp(c) /\ CreateSpawningSession(c)
             /\ client' = [client EXCEPT ![c].session_id = next_session_id,
                                 ![c].foreclosed = BeingClosed(next_session_id)]
    <3>1. \A d \in Clients : client'[d].sent = client[d].sent
      BY <2>3 DEF InvFor, GatewayTypeOK, ClientSession
    <3> QED BY <3>1, SentKeptIsUnheard
  <2>4. CASE ReportSpawnFailure(c)
    <3> DEFINE n == [cmd |-> "ERROR_RESP", s |-> call[c].s]
    <3>1. /\ \A d \in Clients : d # c => client'[d].sent = client[d].sent
          /\ client'[c].sent \in {client[c].sent, Append(client[c].sent, n)}
      BY <2>4 DEF ReportSpawnFailure, InvFor, GatewayTypeOK, ClientSession
    <3>2. call[c].s \in SessionIds \cup {0}
      BY CallHasType DEF InvFor, Threads
    <3>3. n \in Notice /\ \A x : n # Closed(x)
      BY <3>2 DEF Notice, Closed
    <3>4. client[c].sent \in Seq(Notice)
      BY DEF InvFor, GatewayTypeOK, ClientSession
    <3> HIDE DEF n
    <3>5. ASSUME NEW x, NEW i \in DOMAIN client'[c].sent, client'[c].sent[i] = Closed(x)
          PROVE  \E j \in DOMAIN client[c].sent : client[c].sent[j] = Closed(x)
      <4>1. CASE client'[c].sent = client[c].sent
        BY <3>5, <4>1
      <4>2. CASE client'[c].sent = Append(client[c].sent, n)
        BY <3>3, <3>4, <3>5, <4>2, Appended
      <4> QED BY <3>1, <4>1, <4>2
    <3> QED BY <3>1, <3>5 DEF Unheard
  <2> QED BY <2>1, <2>2, <2>3, <2>4 DEF HandleSpawnApp
<1> QED BY <1>1, <1>2, <1>3, MoveInPeace, UnchangedIsPeace DEF Peaceful

\* A new process has not been killed or told anything.
LEMMA ForksInPeace ==
    ASSUME NEW o, InvFor(o), NEW c \in Clients, Fork(c)
    PROVE  Peaceful
<1>1. UNCHANGED <<client, disabled>>
  BY DEF Fork
<1>2. call[c] \in Frame
  BY DEF InvFor, GatewayTypeOK, Threads
<1>3. CASE call' = [call EXCEPT ![c].at = "spawn_undo"] /\ UNCHANGED apphost
  <2> DEFINE g == [call[c] EXCEPT !.at = "spawn_undo"]
  <2>1. call' = [call EXCEPT ![c] = g] /\ g.at \notin Ending
    BY <1>2, <1>3 DEF Ending, Frame
  <2> QED BY <1>1, <1>3, <2>1, MoveInPeace, UnchangedIsPeace DEF Peaceful
<1>4. ASSUME NEW p \in Pids, apphost[p].process = "none",
             apphost' = [apphost EXCEPT ![p].process = "running",
                                        ![p].launched = call[c].s],
             call' = [call EXCEPT ![c].at = "set_pid", ![c].pid = p]
      PROVE  Peaceful
  <2> DEFINE g == [call[c] EXCEPT !.at = "set_pid", !.pid = p]
  <2>1. call' = [call EXCEPT ![c] = g] /\ g.at \notin Ending
    BY <1>2, <1>4 DEF Ending, Frame
  <2>2. \A a \in AppHosts : a # p => apphost'[a] = apphost[a]
    BY <1>4 DEF InvFor, GatewayTypeOK
  <2>3. /\ apphost[p].launched = 0 /\ apphost'[p].killed = apphost[p].killed
        /\ apphost'[p].told = apphost[p].told
    BY <1>4, GatewayAssumption
    DEF InvFor, GatewayTypeOK, AppHostSession, OwnedBy, AppHostsOK
  <2>4. \A a \in AppHosts : Unhurt(a)
    BY <1>1, <2>2, <2>3 DEF Unhurt
  <2> QED BY <1>1, <2>1, <2>4, MoveInPeace, UnchangedIsPeace DEF Peaceful
<1> QED BY <1>3, <1>4 DEF Fork, Goto

\* What happens to an AppHost by itself, its packets, and the lookups.
LEMMA AppHostMovesInPeace ==
    ASSUME NEW o, InvFor(o), NEW a \in AppHosts,
           \/ AppHostSends(a) \/ ReceiveReady(a) \/ AppHostDisconnects(a)
           \/ HandleReady(a) \/ ReadyRoute(a) \/ ReleaseAppHostFind(a)
           \/ ReleaseAppHostNoSession(a)
    PROVE  Peaceful
<1> USE DEF AppHostSends, ReceiveAppHostData, ReceiveAppHostClose,
            ReceiveAppHostHeartbeat, AppHostConnects, AppHostExits, AppHostIdlesOut,
            AppHostDisconnects, ReleaseAppHost, ReceiveReady, HandleReady,
            ReadyRoute, ReleaseAppHostFind, ReleaseAppHostNoSession
<1>1. UNCHANGED <<client, disabled>>
  OBVIOUS
<1>2. \A b \in AppHosts : Unhurt(b)
  <2>1. \A b \in AppHosts : b # a => apphost'[b] = apphost[b]
    BY DEF InvFor, GatewayTypeOK
  <2>2. /\ apphost'[a].launched = apphost[a].launched
        /\ apphost'[a].killed = apphost[a].killed
        /\ apphost'[a].told = apphost[a].told
    BY DEF InvFor, GatewayTypeOK, AppHostSession
  <2> QED BY <1>1, <2>1, <2>2 DEF Unhurt
<1>3. call' = call \/ \E f : call' = [call EXCEPT ![a] = f] /\ f.at \notin Ending
  <2>1. call[a] \in Frame
    BY DEF InvFor, GatewayTypeOK, Threads
  <2>2. CASE AppHostConnects(a) \/ AppHostExits(a) \/ ReceiveAppHostHeartbeat(a)
    BY <2>2
  <2>3. CASE ReleaseAppHostNoSession(a)
    <3>1. call' = [call EXCEPT ![a] = Idle]
      BY <2>3 DEF Return
    <3>2. Idle.at \notin Ending
      BY DEF Idle, Ending
    <3> QED BY <3>1, <3>2
  <2>4. CASE ReceiveReady(a) \/ ReceiveAppHostData(a) \/ ReceiveAppHostClose(a)
    <3>1. PICK label \in {"ready", "close", "forward"} : AppHostReceives(a, label)
      BY <2>4
    <3> DEFINE g == [call[a] EXCEPT !.at = label, !.s = apphost[a].launched]
    <3>2. call' = [call EXCEPT ![a] = g] /\ g.at \notin Ending
      BY <2>1, <3>1 DEF AppHostReceives, Ending, Frame
    <3> QED BY <3>2
  <2>5. CASE AppHostIdlesOut(a) \/ AppHostDisconnects(a)
    <3> DEFINE g == [call[a] EXCEPT !.at = "release", !.s = apphost[a].session_id]
    <3>1. call' = [call EXCEPT ![a] = g] /\ g.at \notin Ending
      BY <2>1, <2>5 DEF Ending, Frame
    <3> QED BY <3>1
  <2>6. CASE HandleReady(a)
    <3> DEFINE g == IF Bindable(call[a].s) THEN [call[a] EXCEPT !.at = "ready_route"]
                    ELSE Idle
    <3>1. call' = [call EXCEPT ![a] = g] /\ g.at \notin Ending
      BY <2>1, <2>6 DEF Goto, Return, Idle, Ending, Frame
    <3> QED BY <3>1
  <2>7. CASE ReadyRoute(a)
    <3> DEFINE g == [call[a] EXCEPT !.at = "ready_ack", !.client = FindClient(call[a].s)]
    <3>1. call' = [call EXCEPT ![a] = g] /\ g.at \notin Ending
      BY <2>1, <2>7 DEF Ending, Frame
    <3> QED BY <3>1
  <2>8. CASE ReleaseAppHostFind(a)
    <3> DEFINE g == [call[a] EXCEPT !.at = "release_remove",
                                    !.client = FindClient(call[a].s)]
    <3>1. call' = [call EXCEPT ![a] = g] /\ g.at \notin Ending
      BY <2>1, <2>8 DEF Ending, Frame
    <3> QED BY <3>1
  <2> QED BY <2>2, <2>3, <2>4, <2>5, <2>6, <2>7, <2>8
<1> QED BY <1>1, <1>2, <1>3, MoveInPeace, UnchangedIsPeace DEF Peaceful

LEMMA ReadyAckInPeace ==
    ASSUME NEW o, InvFor(o), NEW a \in AppHosts, ReadyAck(a)
    PROVE  Peaceful
<1>1. /\ UNCHANGED <<apphost, disabled>> /\ call' = [call EXCEPT ![a] = Idle]
      /\ ToClient(call[a].client, "SESSION_ACK", call[a].s)
  BY DEF ReadyAck, Return
<1>2. Idle.at \notin Ending
  BY DEF Idle, Ending
<1>3. \A x \in SessionIds : Unheard(x)
  BY <1>1, CallHasType, SendUnheard DEF InvFor, Threads
<1> QED BY <1>1, <1>2, <1>3, MoveInPeace, UnchangedIsPeace DEF Peaceful
-----------------------------------------------------------------------------
(* The steps of close_session() and of the releases.                       *)

\* A session is taken out by a handler that goes on to tell its ends.
LEMMA RemovesKeepWhole ==
    ASSUME NEW o, InvFor(o), WholeInv, NEW t \in Clients \cup AppHosts,
           \/ CloseRemove(t)
           \/ t \in Clients /\ ReleaseClientRemove(t)
           \/ t \in AppHosts /\ ReleaseAppHostRemove(t)
    PROVE  WholeInv'
<1> DEFINE s == call[t].s
<1>1. UNCHANGED <<client, apphost, disabled>> /\ RemoveSession(s)
  BY DEF CloseRemove, ReleaseClientRemove, ReleaseAppHostRemove
<1>2. TableTypeOK
  BY DEF InvFor, GatewayTypeOK
<1>3. [TableNext]_tableVars
  BY <1>1, CallIsTableStep
<1>4. \A x : Has(x)' <=> Has(x) /\ x # s
  BY <1>1, <1>2, RemoveIsShrunk
<1>5. \E f : call' = [call EXCEPT ![t] = f] /\ f.s = s
  <2>1. call[t] \in Frame
    BY DEF InvFor, GatewayTypeOK, Threads
  <2> DEFINE g == [call[t] EXCEPT !.at = "close_client"]
             h == [call[t] EXCEPT !.at = "release_tell"]
  <2>2. g.s = s /\ h.s = s
    BY <2>1 DEF Frame
  <2>3. call' = [call EXCEPT ![t] = g] \/ call' = [call EXCEPT ![t] = h]
    BY DEF CloseRemove, ReleaseClientRemove, ReleaseAppHostRemove, Goto
  <2> HIDE DEF g, h
  <2> QED BY <2>2, <2>3
<1>6. PICK f : call' = [call EXCEPT ![t] = f] /\ f.s = s
  BY <1>5
<1>7. /\ call'[t] = f /\ call'[Monitor] = call[Monitor]
      /\ \A u \in Clients \cup AppHosts : u # t => call'[u] = call[u]
  BY <1>6, OwnMove
<1>8. EndsLast(t)'
  <2>1. ~Has(call[t].s)'
    BY <1>4, <1>6, <1>7 DEF Has
  <2> QED BY <2>1 DEF EndsLast
<1>9. \A x : Failing(x)' <=> Failing(x)
  BY <1>7 DEF Failing, At
<1>10. \A x \in SessionIds : Spares(x)
  BY <1>1, UnchangedIsPeace DEF Spares
<1>11. \A x \in SessionIds : Has(x)' /\ ~Failing(x)' =>
         Spares(x) /\ (Has(x) => ~Failing(x))
  BY <1>9, <1>10
<1> QED BY <1>1, <1>3, <1>7, <1>8, <1>11, UnchangedIsPeace, WholeCarries

\* What a handler that tells or kills reaches is no session that is stored:
\* it took its session out before, or it has no route.
LEMMA EndsKeepWhole ==
    ASSUME NEW o, InvFor(o), WholeInv, NEW t \in Clients \cup AppHosts,
           \/ CloseTellClient(t) \/ CloseTellAppHost(t) \/ CloseTerminate(t)
           \/ t \in Clients /\ ReleaseClientTell(t)
           \/ t \in AppHosts /\ ReleaseAppHostTell(t)
    PROVE  WholeInv'
<1> DEFINE s == call[t].s
<1>1. UNCHANGED tableVars /\ disabled' = disabled /\ \A x : Has(x)' <=> Has(x)
  BY DEF CloseTellClient, CloseTellAppHost, CloseTerminate, ReleaseClientTell,
         ReleaseAppHostTell, tableVars, Has
<1>2. /\ t \in Threads /\ FrameOK(o, t) /\ EndsLast(t) /\ call[t] \in Frame
      /\ call[t].at \in Ending
  BY DEF Threads, InvFor, OwnedBy, WholeInv, GatewayTypeOK, Ending, At,
         CloseTellClient, CloseTellAppHost, CloseTerminate, ReleaseClientTell,
         ReleaseAppHostTell
<1>3. /\ s \in SessionIds \cup {0}
      /\ call[t].client \in Clients \cup {None}
      /\ call[t].apphost \in AppHosts \cup {None}
      /\ call[t].pid \in AppHosts \cup {None}
  BY <1>2, CallHasType, GatewayAssumption DEF InvFor
<1>4. /\ call[t].apphost # None => s # 0 /\ apphost[call[t].apphost].launched = s
      /\ call[t].pid # None => s # 0 /\ apphost[call[t].pid].launched = s
  BY <1>2 DEF FrameOK
<1>5. Has(s) => /\ call[t].at # "release_tell"
                /\ call[t].client = None /\ call[t].apphost = None /\ call[t].pid = None
  BY <1>2 DEF EndsLast
<1>6. /\ \A a \in AppHosts : apphost'[a].launched = apphost[a].launched
      /\ \A a \in AppHosts : apphost[a].launched # s \/ s = 0 => Unhurt(a)
      /\ Has(s) => \A a \in AppHosts : Unhurt(a)
  <2>1. CASE TellAppHost(call[t].apphost, s)
    <3>1. \A a \in AppHosts :
            /\ apphost'[a].launched = apphost[a].launched
            /\ apphost'[a].killed = apphost[a].killed
            /\ apphost'[a].told \subseteq
                 apphost[a].told \cup (IF call[t].apphost = a THEN {s} ELSE {})
      BY <1>3, <1>4, <2>1, Telling DEF InvFor
    <3> QED BY <1>1, <1>4, <1>5, <3>1, TableAssumption DEF Unhurt
  <2>2. CASE Terminate(call[t].pid)
    <3>1. \A a \in AppHosts :
            /\ apphost'[a].launched = apphost[a].launched
            /\ a # call[t].pid => apphost'[a].killed = apphost[a].killed
            /\ apphost'[a].told = apphost[a].told
      BY <1>2, <2>2, Killing, CallHasType DEF InvFor
    <3> QED BY <1>1, <1>4, <1>5, <3>1, TableAssumption, GatewayAssumption DEF Unhurt
  <2>3. CASE apphost' = apphost
    BY <1>1, <2>3 DEF Unhurt
  <2> QED BY <2>1, <2>2, <2>3
          DEF CloseTellClient, CloseTellAppHost, CloseTerminate, ReleaseClientTell,
              ReleaseAppHostTell
<1>7. \A x \in SessionIds : Has(x) => Unheard(x)
  <2>1. CASE ToClient(call[t].client, "CLOSE_SESSION", s)
    <3>1. ASSUME NEW x \in SessionIds, Has(x)
          PROVE  Unheard(x)
      <4>1. s # x \/ call[t].client = None
        BY <1>5, <3>1
      <4> QED BY <1>3, <2>1, <4>1, SendUnheard DEF InvFor
    <3> QED BY <3>1
  <2>2. CASE client' = client
    BY <2>2, UnchangedIsPeace
  <2> QED BY <2>1, <2>2
          DEF CloseTellClient, CloseTellAppHost, CloseTerminate, ReleaseClientTell,
              ReleaseAppHostTell
<1>8. \A x \in SessionIds : Has(x) => Spares(x)
  <2> SUFFICES ASSUME NEW x \in SessionIds, Has(x), NEW a \in AppHosts,
                      apphost'[a].launched = x
               PROVE  Unhurt(a)
    BY <1>7 DEF Spares
  <2> QED BY <1>6
<1>9. /\ call'[Monitor] = call[Monitor]
      /\ \A u \in Clients \cup AppHosts : call'[u] = call[u] \/ EndsLast(u)'
  <2> DEFINE g == [call[t] EXCEPT !.at = "close_apphost", !.client = None]
             h == [call[t] EXCEPT !.at = "close_kill", !.apphost = None]
  <2>1. \E f \in {g, h, Idle} : call' = [call EXCEPT ![t] = f]
    BY DEF CloseTellClient, CloseTellAppHost, CloseTerminate, ReleaseClientTell,
           ReleaseAppHostTell, Return
  <2>2. \A f \in {g, h} : /\ f.s = s /\ f.at # "release_tell"
                          /\ f.client \in {call[t].client, None}
                          /\ f.apphost \in {call[t].apphost, None}
                          /\ f.pid = call[t].pid
    BY <1>2 DEF Frame
  <2>3. Idle.at \notin Ending
    BY DEF Idle, Ending
  <2> HIDE DEF g, h
  <2>4. PICK f \in {g, h, Idle} : call' = [call EXCEPT ![t] = f]
    BY <2>1
  <2>5. /\ call'[t] = f /\ call'[Monitor] = call[Monitor]
        /\ \A u \in Clients \cup AppHosts : u # t => call'[u] = call[u]
    BY <2>4, OwnMove
  <2>6. EndsLast(t)'
    <3>1. CASE f = Idle
      BY <2>3, <2>5, <3>1 DEF EndsLast
    <3>2. CASE f \in {g, h}
      <4>1. /\ call'[t].s = s /\ call'[t].at # "release_tell"
            /\ call'[t].client \in {call[t].client, None}
            /\ call'[t].apphost \in {call[t].apphost, None}
            /\ call'[t].pid = call[t].pid
        BY <2>2, <2>5, <3>2
      <4>2. Has(call[t].s)' => Has(call[t].s)
        BY <1>1, <4>1
      <4> QED BY <1>1, <1>5, <4>1 DEF EndsLast, Has, tableVars
    <3> QED BY <3>1, <3>2
  <2> QED BY <2>5, <2>6
<1>10. \A x : Failing(x)' <=> Failing(x)
  BY <1>9 DEF Failing, At
<1>11. \A a \in AppHosts : apphost'[a].launched = 0 => Unhurt(a)
  BY <1>6
<1> QED BY <1>1, <1>8, <1>9, <1>10, <1>11, WholeCarries
-----------------------------------------------------------------------------
(* The monitor's steps, and the theorem.                                   *)

\* Between failures, at their begin and at their notices nothing is hurt.
LEMMA MonitorListsKeepWhole ==
    ASSUME NEW o, InvFor(o), WholeInv,
           Reap \/ NextExit \/ Snapshot \/ NextDue \/ Sleep \/ TimePasses
    PROVE  WholeInv'
<1>1. UNCHANGED <<client, disabled>>
  BY DEF Reap, NextExit, Snapshot, NextDue, Sleep, TimePasses
<1>2. \A a \in AppHosts : Unhurt(a)
  <2>1. CASE Reap
    <3>1. \A a \in AppHosts : /\ apphost'[a].launched = apphost[a].launched
                              /\ apphost'[a].killed = apphost[a].killed
                              /\ apphost'[a].told = apphost[a].told
      BY <2>1, GatewayAssumption DEF Reap, InvFor, GatewayTypeOK, AppHostSession
    <3> QED BY <1>1, <3>1 DEF Unhurt
  <2>2. CASE UNCHANGED apphost
    BY <1>1, <2>2 DEF Unhurt
  <2> QED BY <2>1, <2>2 DEF NextExit, Snapshot, NextDue, Sleep, TimePasses
<1>3. /\ Monitor \in Threads \ (Clients \cup AppHosts)
      /\ Clients \cup AppHosts \subseteq Threads
      /\ call \in [Threads -> Frame]
  BY MonitorThread DEF InvFor, GatewayTypeOK, Threads
<1>4. /\ \A u \in Clients \cup AppHosts : call'[u] = call[u]
      /\ call'[Monitor] = call[Monitor] \/ (At(Monitor, "idle") /\ At(Monitor, "fail")')
  <2>1. CASE call' = call
    BY <2>1
  <2>2. CASE NextExit \/ NextDue
    <3>1. PICK s, n : At(Monitor, "idle") /\ (call' = call \/ call' =
            [call EXCEPT ![Monitor] = [Idle EXCEPT !.at = "fail", !.s = s, !.notify = n]])
      BY <2>2 DEF NextExit, NextDue
    <3> DEFINE f == [Idle EXCEPT !.at = "fail", !.s = s, !.notify = n]
    <3>2. f.at = "fail"
      BY DEF Idle
    <3>3. call' = call \/ call' = [call EXCEPT ![Monitor] = f]
      BY <3>1
    <3> HIDE DEF f
    <3> QED BY <1>3, <3>1, <3>2, <3>3 DEF At
  <2> QED BY <2>1, <2>2 DEF Reap, Snapshot, Sleep, TimePasses
<1>5. \A x \in SessionIds : ~Failing(x)' => ~Failing(x)
  <2>1. At(Monitor, "idle") => \A x \in SessionIds : ~Failing(x)
    BY MonitorThread DEF Idle, Failing, SessionIds
  <2> QED BY <1>4, <2>1 DEF Failing, At
<1>6. [TableNext]_tableVars
  BY MonitorStepOnTable DEF MonitorStep
<1>7. \A x \in SessionIds : Spares(x)
  BY <1>1, <1>2, UnchangedIsPeace DEF Spares
<1> QED BY <1>2, <1>4, <1>5, <1>6, <1>7, WholeCarries

\* While the monitor fails a session it may do to its ends what it likes, and
\* at the end it takes it out, whatever state it has come to.
LEMMA FailKeepsWhole ==
    ASSUME NEW o, InvFor(o), WholeInv,
           \/ FailBegin \/ FailNotify \/ FailDisableAppHost \/ FailDisableClient
           \/ FailTerminate \/ FailRemove
    PROVE  WholeInv'
<1> DEFINE s == call[Monitor].s  a == call[Monitor].apphost  p == call[Monitor].pid
<1>1. [TableNext]_tableVars
  BY MonitorStepOnTable DEF MonitorStep
<1>2. /\ Monitor \in Threads /\ Monitor \notin Clients /\ Monitor \notin AppHosts
      /\ call[Monitor] \in Frame /\ FrameOK(o, Monitor)
      /\ s \in SessionIds \cup {0} /\ p \in Pids \cup {None}
      /\ a \in AppHosts \cup {None} /\ call[Monitor].client \in Clients \cup {None}
  BY MonitorThread, CallHasType DEF InvFor
<1>3. /\ a # None => s # 0 /\ apphost[a].launched = s
      /\ p # None => s # 0 /\ apphost[p].launched = s
  BY <1>2 DEF FrameOK
<1>4. \A u \in Clients \cup AppHosts : call'[u] = call[u]
  <2>1. call \in [Threads -> Frame] /\ Clients \cup AppHosts \subseteq Threads
    BY DEF InvFor, GatewayTypeOK, Threads
  <2> QED BY <1>2, <2>1
          DEF FailBegin, FailNotify, FailDisableAppHost, FailDisableClient,
              FailTerminate, FailRemove, Return
<1>5. \/ FailBegin /\ call'[Monitor] = Idle
      \/ FailRemove
      \/ call'[Monitor].s = s /\ ~At(Monitor, "fail")'
  BY <1>2
  DEF FailBegin, FailNotify, FailDisableAppHost, FailDisableClient, FailTerminate,
      Return, InvFor, GatewayTypeOK, Frame, At
<1>6. \A x \in SessionIds : Has(x)' /\ ~Failing(x)' => ~Failing(x)
  <2>1. CASE FailBegin
    BY <2>1 DEF FailBegin, Failing, At
  <2>2. CASE FailRemove
    <3>1. RemoveSession(s)
      BY <2>2 DEF FailRemove
    <3>2. \A x : Has(x)' => x # s
      BY <3>1, RemoveIsShrunk DEF InvFor, GatewayTypeOK
    <3> QED BY <3>2 DEF Failing
  <2>3. CASE call'[Monitor].s = s /\ ~At(Monitor, "fail")'
    BY <2>3 DEF Failing
  <2> QED BY <1>5, <2>1, <2>2, <2>3
<1>7. /\ \A b \in AppHosts : apphost'[b].launched = apphost[b].launched
      /\ \A b \in AppHosts : Unhurt(b) \/ (apphost[b].launched = s /\ s # 0)
  <2>1. CASE FailDisableAppHost
    BY <1>2, <1>3, <2>1, TableAssumption DEF FailDisableAppHost, Unhurt
  <2>2. CASE FailDisableClient
    BY <1>2, <2>2, GatewayAssumption DEF FailDisableClient, Unhurt
  <2>3. CASE FailTerminate
    <3>1. Terminate(p) /\ disabled' = disabled
      BY <2>3 DEF FailTerminate
    <3>2. \A b \in AppHosts :
            /\ apphost'[b].launched = apphost[b].launched
            /\ apphost'[b].told = apphost[b].told
            /\ b # p => apphost'[b].killed = apphost[b].killed
      BY <1>2, <3>1, Killing DEF InvFor
    <3> QED BY <1>3, <3>1, <3>2, TableAssumption, GatewayAssumption DEF Unhurt
  <2>4. CASE UNCHANGED <<apphost, disabled>>
    BY <2>4 DEF Unhurt
  <2> QED BY <2>1, <2>2, <2>3, <2>4 DEF FailBegin, FailNotify, FailRemove
<1>8. \A x \in SessionIds : Unheard(x)
  <2>1. CASE ToClient(call[Monitor].client, "ERROR_RESP", s)
    BY <1>2, <2>1, SendUnheard DEF InvFor
  <2>2. CASE client' = client
    BY <2>2, UnchangedIsPeace
  <2> QED BY <2>1, <2>2
          DEF FailBegin, FailNotify, FailDisableAppHost, FailDisableClient,
              FailTerminate, FailRemove
<1>9. ASSUME NEW x \in SessionIds, Has(x)', ~Failing(x)'
      PROVE  x # s \/ FailBegin
  <2>1. CASE FailRemove
    <3>1. RemoveSession(s)
      BY <2>1 DEF FailRemove
    <3> QED BY <1>9, <3>1, RemoveIsShrunk DEF InvFor, GatewayTypeOK
  <2>2. CASE call'[Monitor].s = s /\ ~At(Monitor, "fail")'
    BY <1>9, <2>2 DEF Failing
  <2> QED BY <1>5, <2>1, <2>2
<1>10. FailBegin => \A b \in AppHosts : Unhurt(b)
  BY UnchangedIsPeace DEF FailBegin
<1>11. \A x \in SessionIds : Has(x)' /\ ~Failing(x)' => Spares(x)
  BY <1>7, <1>8, <1>9, <1>10 DEF Spares
<1>12. \A b \in AppHosts : apphost'[b].launched = 0 => Unhurt(b)
  BY <1>7
<1> QED BY <1>1, <1>4, <1>6, <1>11, <1>12, WholeCarries

LEMMA InitWhole == GatewayInit => WholeInv
<1> SUFFICES ASSUME GatewayInit PROVE WholeInv
  OBVIOUS
<1>1. \A s \in SessionIds : ~Has(s)
  BY NoSessionType DEF GatewayInit, TableInit, Has
<1>2. \A t \in Clients \cup AppHosts : call[t] = Idle
  BY DEF GatewayInit, Threads
<1>3. Idle.at \notin Ending
  BY DEF Idle, Ending
<1> QED BY <1>1, <1>2, <1>3 DEF GatewayInit, WholeInv, EndsLast

LEMMA NextWhole == GatewayInv /\ WholeInv /\ [GatewayNext]_vars => WholeInv'
<1> SUFFICES ASSUME NEW o, InvFor(o), WholeInv, [GatewayNext]_vars PROVE WholeInv'
  BY DEF GatewayInv
<1>1. [TableNext]_tableVars
  BY StepOnTable
<1>2. ASSUME NEW c \in Clients, ClientSends(c) \/ ClientHandlerStep(c)
      PROVE  WholeInv'
  <2>1. CASE ReleaseClientRemove(c) \/ CloseRemove(c)
    BY <2>1, RemovesKeepWhole
  <2>2. CASE \/ ReleaseClientTell(c) \/ CloseTellClient(c) \/ CloseTellAppHost(c)
             \/ CloseTerminate(c)
    BY <2>2, EndsKeepWhole
  <2>3. CASE ~ \/ ReleaseClientRemove(c) \/ CloseRemove(c)
               \/ ReleaseClientTell(c) \/ CloseTellClient(c) \/ CloseTellAppHost(c)
               \/ CloseTerminate(c)
    <3>1. Peaceful
      BY <1>2, <2>3, ClientMovesInPeace, SpawnsInPeace, ForksInPeace, SharedInPeace
      DEF ClientSends, ClientHandlerStep, CloseOrForward
    <3> QED BY <1>1, <3>1, PeaceKeepsWhole
  <2> QED BY <2>1, <2>2, <2>3
<1>3. ASSUME NEW a \in AppHosts,
             \/ AppHostSends(a) \/ ReceiveReady(a) \/ AppHostDisconnects(a)
             \/ AppHostHandlerStep(a)
      PROVE  WholeInv'
  <2>1. CASE ReleaseAppHostRemove(a) \/ CloseRemove(a)
    BY <2>1, RemovesKeepWhole
  <2>2. CASE \/ ReleaseAppHostTell(a) \/ CloseTellClient(a) \/ CloseTellAppHost(a)
             \/ CloseTerminate(a)
    BY <2>2, EndsKeepWhole
  <2>3. CASE ~ \/ ReleaseAppHostRemove(a) \/ CloseRemove(a)
               \/ ReleaseAppHostTell(a) \/ CloseTellClient(a) \/ CloseTellAppHost(a)
               \/ CloseTerminate(a)
    <3>1. Peaceful
      BY <1>3, <2>3, AppHostMovesInPeace, ReadyAckInPeace, SharedInPeace
      DEF AppHostHandlerStep, CloseOrForward
    <3> QED BY <1>1, <3>1, PeaceKeepsWhole
  <2> QED BY <2>1, <2>2, <2>3
<1>4. CASE MonitorStep \/ TimePasses
  BY <1>4, MonitorListsKeepWhole, FailKeepsWhole DEF MonitorStep
<1>5. CASE UNCHANGED vars
  <2>1. Peaceful
    BY <1>5, UnchangedIsPeace DEF vars, Peaceful
  <2> QED BY <1>1, <2>1, PeaceKeepsWhole
<1> QED BY <1>2, <1>3, <1>4, <1>5 DEF GatewayNext

\* No handler leaves a session in the table whose AppHost it has killed, told
\* or disabled, or whose Client it has told that it was closed, for any number
\* of connections and any interleaving; only the monitor does so, and goes on
\* to take the session out.
THEOREM NoHalfClosedSession == GatewaySpec => []NothingHalfClosed
<1>1. WholeInv => NothingHalfClosed
  BY DEF WholeInv, Whole, Failing, NothingHalfClosed, Closed
<1>2. QED BY <1>1, InitWhole, NextWhole, GatewayIsSound, PTL DEF GatewaySpec
=============================================================================
