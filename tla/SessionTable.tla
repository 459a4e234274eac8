---------------------------- MODULE SessionTable ----------------------------
(***************************************************************************)
(* The Gateway's session table (src/gateway/session_manager.h and .cpp):   *)
(* the primary map from session ids to runtime records and the three       *)
(* reverse indexes that lead from a Client connection, an AppHost          *)
(* connection or an AppHost pid back to a session.                         *)
(*                                                                         *)
(* Every public method of SessionTable takes mutex_ for its whole body, so *)
(* each is one atomic action here, or an operator when it only reads.  The *)
(* module TableSpec lets any thread call any method with any argument at   *)
(* any time: what holds of it holds however the Gateway interleaves the    *)
(* calls.                                                                  *)
(*                                                                         *)
(* Times are abstracted to what the monitor compares them with: `late'     *)
(* stands for now > spawn_deadline in a SPAWNING session, `client_stale'   *)
(* and `apphost_stale' for a last_..._seen older than its timeout in an    *)
(* ACTIVE one: the states the monitor compares them in.  Names and paths   *)
(* are left out.                                                           *)
(***************************************************************************)
EXTENDS Naturals

CONSTANTS
    Clients,      \* IoPool handles of Client connections (uintptr, not 0)
    AppHosts,     \* IoPool handles of AppHost connections (uintptr, not 0)
    Pids,         \* OS process ids (> 0)
    MaxSessions,  \* bound on next_session_id_: sessions created in one run
    None          \* "no handle" (0) and "no pid" (-1)

ASSUME TableAssumption ==
    /\ MaxSessions \in Nat
    /\ None \notin Clients \cup AppHosts \cup Pids

VARIABLES
    next_session_id,  \* next_session_id_
    by_session,       \* by_session_; an id that is not in the map has NoSession
    by_client,        \* by_client_, by_apphost_, by_pid_: a key that is not in
    by_apphost,       \*   the index maps to 0, the id the protocol reserves
    by_pid

tableVars == <<next_session_id, by_session, by_client, by_apphost, by_pid>>

SessionIds == 1..MaxSessions

\* SessionState, and ABSENT for an id that the map does not hold.
SessionState == {"SPAWNING", "ACTIVE", "CLOSING", "DEAD"}

SessionRuntime ==
    [state         : SessionState \cup {"ABSENT"},
     client_conn   : Clients \cup {None},
     apphost_conn  : AppHosts \cup {None},
     apphost_pid   : Pids \cup {None},
     late          : BOOLEAN,
     client_stale  : BOOLEAN,
     apphost_stale : BOOLEAN]

NoSession ==
    [state |-> "ABSENT", client_conn |-> None, apphost_conn |-> None,
     apphost_pid |-> None, late |-> FALSE, client_stale |-> FALSE,
     apphost_stale |-> FALSE]

TableTypeOK ==
    /\ next_session_id \in 1..(MaxSessions + 1)
    /\ by_session \in [SessionIds -> SessionRuntime]
    /\ by_client  \in [Clients  -> SessionIds \cup {0}]
    /\ by_apphost \in [AppHosts -> SessionIds \cup {0}]
    /\ by_pid     \in [Pids     -> SessionIds \cup {0}]

TableInit ==
    /\ next_session_id = 1
    /\ by_session = [s \in SessionIds |-> NoSession]
    /\ by_client  = [c \in Clients  |-> 0]
    /\ by_apphost = [a \in AppHosts |-> 0]
    /\ by_pid     = [p \in Pids     |-> 0]

-----------------------------------------------------------------------------
(* The methods that only read.                                             *)

\* by_session_.find(s) != end().  0 is never a key.
Has(s) == s \in SessionIds /\ by_session[s].state # "ABSENT"

\* find(), find_client(), find_apphost(): a missing session has no route.
FindClient(s)  == IF Has(s) THEN by_session[s].client_conn ELSE None
FindAppHost(s) == IF Has(s) THEN by_session[s].apphost_conn ELSE None

\* get_pid(); the caller's pid stays -1 when the session is missing.
GetPid(s) == IF Has(s) THEN by_session[s].apphost_pid ELSE None

FindByPid(p) == by_pid[p]

HasActiveOrSpawning(c) ==
    /\ by_client[c] # 0
    /\ Has(by_client[c])
    /\ by_session[by_client[c]].state \in {"SPAWNING", "ACTIVE"}

-----------------------------------------------------------------------------
(* The methods that write.                                                 *)

\* Mutant of Erase: the entry is reset to the "no handle" value, not erased.
EraseToNone(index, key) ==
    [k \in DOMAIN index |-> IF k = key THEN None ELSE index[k]]

\* map.erase(key) for the index entry of a handle or pid that may be unset.
Erase(index, key) ==
    [k \in DOMAIN index |-> IF k = key THEN 0 ELSE index[k]]

CreateSpawningSession(c) ==
    /\ next_session_id \in SessionIds
    /\ next_session_id' = next_session_id + 1
    /\ by_session' = [by_session EXCEPT ![next_session_id] =
                        [NoSession EXCEPT !.state = "SPAWNING", !.client_conn = c]]
    /\ by_client' = [by_client EXCEPT ![c] = next_session_id]
    /\ UNCHANGED <<by_apphost, by_pid>>

\* A session that is missing leaves the table as it is (and returns false).
SetAppHostPid(s, p) ==
    IF Has(s)
    THEN /\ by_session' = [by_session EXCEPT ![s].apphost_pid = p]
         /\ by_pid' = [Erase(by_pid, by_session[s].apphost_pid) EXCEPT ![p] = s]
         /\ UNCHANGED <<next_session_id, by_client, by_apphost>>
    ELSE UNCHANGED tableVars

\* Mutant of Bindable: the lookup that finds no session is forgotten.
BindableUnchecked(s) == s \in SessionIds /\ by_session[s].state # "DEAD"

\* What bind_apphost() asks of the state: only a DEAD session is refused.
Bindable(s) == Has(s) /\ by_session[s].state # "DEAD"

\* Mutant of BindAppHost: the entry of the connection it replaces is kept.
BindKeepingOldEntry(s, a) ==
    IF Bindable(s)
    THEN /\ by_session' = [by_session EXCEPT ![s].apphost_conn = a,
                                             ![s].state = "ACTIVE",
                                             ![s].late = FALSE,
                                             ![s].apphost_stale = FALSE]
         /\ by_apphost' = [by_apphost EXCEPT ![a] = s]
         /\ UNCHANGED <<next_session_id, by_client, by_pid>>
    ELSE UNCHANGED tableVars

BindAppHost(s, a) ==
    IF Bindable(s)
    THEN /\ by_session' = [by_session EXCEPT ![s].apphost_conn = a,
                                             ![s].state = "ACTIVE",
                                             ![s].late = FALSE,
                                             ![s].apphost_stale = FALSE]
         /\ by_apphost' = [Erase(by_apphost, by_session[s].apphost_conn)
                             EXCEPT ![a] = s]
         /\ UNCHANGED <<next_session_id, by_client, by_pid>>
    ELSE UNCHANGED tableVars

MarkClientSeen(s) ==
    IF Has(s)
    THEN /\ by_session' = [by_session EXCEPT ![s].client_stale = FALSE]
         /\ UNCHANGED <<next_session_id, by_client, by_apphost, by_pid>>
    ELSE UNCHANGED tableVars

MarkAppHostSeen(s) ==
    IF Has(s)
    THEN /\ by_session' = [by_session EXCEPT ![s].apphost_stale = FALSE]
         /\ UNCHANGED <<next_session_id, by_client, by_apphost, by_pid>>
    ELSE UNCHANGED tableVars

\* What transition_to_closing() asks of the state.
Closable(s) == Has(s) /\ by_session[s].state \notin {"DEAD", "CLOSING"}

TransitionToClosing(s) ==
    IF Closable(s)
    THEN /\ by_session' = [by_session EXCEPT ![s].state = "CLOSING"]
         /\ UNCHANGED <<next_session_id, by_client, by_apphost, by_pid>>
    ELSE UNCHANGED tableVars

RemoveSession(s) ==
    IF Has(s)
    THEN /\ by_client'  = Erase(by_client,  by_session[s].client_conn)
         /\ by_apphost' = Erase(by_apphost, by_session[s].apphost_conn)
         /\ by_pid'     = Erase(by_pid,     by_session[s].apphost_pid)
         /\ by_session' = [by_session EXCEPT ![s] = NoSession]
         /\ UNCHANGED next_session_id
    ELSE UNCHANGED tableVars

\* The session is reached through the index, and the index entry itself is
\* erased by its own key rather than by the session's handle.
RemoveByClient(c) ==
    LET s == by_client[c] IN
    IF s = 0 THEN UNCHANGED tableVars
    ELSE /\ by_client'  = Erase(by_client, c)
         /\ by_apphost' = IF Has(s) THEN Erase(by_apphost, by_session[s].apphost_conn)
                          ELSE by_apphost
         /\ by_pid'     = IF Has(s) THEN Erase(by_pid, by_session[s].apphost_pid)
                          ELSE by_pid
         /\ by_session' = [by_session EXCEPT ![s] = NoSession]
         /\ UNCHANGED next_session_id

RemoveByAppHost(a) ==
    LET s == by_apphost[a] IN
    IF s = 0 THEN UNCHANGED tableVars
    ELSE /\ by_apphost' = Erase(by_apphost, a)
         /\ by_client'  = IF Has(s) THEN Erase(by_client, by_session[s].client_conn)
                          ELSE by_client
         /\ by_pid'     = IF Has(s) THEN Erase(by_pid, by_session[s].apphost_pid)
                          ELSE by_pid
         /\ by_session' = [by_session EXCEPT ![s] = NoSession]
         /\ UNCHANGED next_session_id

-----------------------------------------------------------------------------
(* Time.  A deadline or a timeout of a stored session may expire between   *)
(* any two calls; SPAWNING sessions are judged by spawn_deadline alone.    *)

SpawnDeadlinePasses(s) ==
    /\ Has(s) /\ by_session[s].state = "SPAWNING" /\ ~by_session[s].late
    /\ by_session' = [by_session EXCEPT ![s].late = TRUE]
    /\ UNCHANGED <<next_session_id, by_client, by_apphost, by_pid>>

ClientFallsSilent(s) ==
    /\ Has(s) /\ by_session[s].state = "ACTIVE" /\ ~by_session[s].client_stale
    /\ by_session' = [by_session EXCEPT ![s].client_stale = TRUE]
    /\ UNCHANGED <<next_session_id, by_client, by_apphost, by_pid>>

AppHostFallsSilent(s) ==
    /\ Has(s) /\ by_session[s].state = "ACTIVE" /\ ~by_session[s].apphost_stale
    /\ by_session' = [by_session EXCEPT ![s].apphost_stale = TRUE]
    /\ UNCHANGED <<next_session_id, by_client, by_apphost, by_pid>>

-----------------------------------------------------------------------------
(* The table under every sequence of calls.                                *)

TableStep(s) ==
    \/ \E p \in Pids : SetAppHostPid(s, p)
    \/ \E a \in AppHosts : BindAppHost(s, a)
    \/ MarkClientSeen(s)
    \/ MarkAppHostSeen(s)
    \/ TransitionToClosing(s)
    \/ RemoveSession(s)
    \/ SpawnDeadlinePasses(s)
    \/ ClientFallsSilent(s)
    \/ AppHostFallsSilent(s)

TableNext ==
    \/ \E c \in Clients : CreateSpawningSession(c) \/ RemoveByClient(c)
    \/ \E a \in AppHosts : RemoveByAppHost(a)
    \/ \E s \in SessionIds : TableStep(s)

TableSpec == TableInit /\ [][TableNext]_tableVars

-----------------------------------------------------------------------------
(* Properties.                                                             *)

\* A reverse index never dangles and never lies: an entry for a handle or a
\* pid names a stored session that carries that same handle or pid.  The
\* disconnect and waitpid paths act on the session the index gives them, so
\* a dangling or crossed entry would tear down somebody else's session
\* (session_manager.h, "Reverse indexes let Gateway find the session").
IndexSound ==
    /\ \A c \in Clients : by_client[c] # 0 =>
         /\ Has(by_client[c])
         /\ by_session[by_client[c]].client_conn = c
    /\ \A a \in AppHosts : by_apphost[a] # 0 =>
         /\ Has(by_apphost[a])
         /\ by_session[by_apphost[a]].apphost_conn = a
    /\ \A p \in Pids : by_pid[p] # 0 =>
         /\ Has(by_pid[p])
         /\ by_session[by_pid[p]].apphost_pid = p

\* An id that was not handed out yet names nothing, so a new session never
\* overwrites a stored one and leaves its index entries behind
\* (session_manager.h, "Monotonic source of Session IDs").
FreshIds == \A s \in SessionIds : s >= next_session_id => ~Has(s)

\* "IDs are not reused during the Gateway process lifetime": an id that was
\* handed out and whose session was removed never names a session again,
\* whatever late call (a pid recorded, an AppHost bound, a mark) still
\* carries it.
IdsNotReused ==
    [][\A s \in SessionIds :
          s < next_session_id /\ ~Has(s) => ~Has(s)']_tableVars
=============================================================================
