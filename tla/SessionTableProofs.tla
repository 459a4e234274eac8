------------------------- MODULE SessionTableProofs -------------------------
(***************************************************************************)
(* SessionTable proved for any number of handles, pids and sessions and    *)
(* for every order of calls: its type, the soundness of its reverse        *)
(* indexes, and that a session id is never used twice.                     *)
(***************************************************************************)
EXTENDS SessionTable, TLAPS

\* The inductive invariant.  FreshIds is what IndexSound lacks: without it a
\* new session could replace a stored one whose handles are still indexed.
TableInv == TableTypeOK /\ IndexSound /\ FreshIds

\* What the index maps look like after an erase, entry by entry.
LEMMA EraseType ==
    ASSUME NEW S, NEW index \in [S -> SessionIds \cup {0}], NEW key
    PROVE  /\ Erase(index, key) \in [S -> SessionIds \cup {0}]
           /\ \A k \in S : Erase(index, key)[k] = IF k = key THEN 0 ELSE index[k]
  BY DEF Erase

\* A removed session is stored as a record of the record type.
LEMMA NoSessionType == NoSession \in SessionRuntime /\ NoSession.state = "ABSENT"
  BY TableAssumption DEF NoSession, SessionRuntime, SessionState

\* The record create_spawning_session() stores.
LEMMA NewSessionType ==
    ASSUME NEW c \in Clients
    PROVE  LET r == [NoSession EXCEPT !.state = "SPAWNING", !.client_conn = c]
           IN  /\ r \in SessionRuntime
               /\ r.state = "SPAWNING"
               /\ r.client_conn = c
  BY DEF NoSession, SessionRuntime, SessionState

LEMMA CreatePreserves ==
    ASSUME TableInv, NEW c \in Clients, CreateSpawningSession(c)
    PROVE  TableInv'
  <1> DEFINE r == [NoSession EXCEPT !.state = "SPAWNING", !.client_conn = c]
             n == next_session_id
  <1> USE TableAssumption
  <1>1. r \in SessionRuntime /\ r.state = "SPAWNING" /\ r.client_conn = c
    BY NewSessionType
  <1>2. /\ n \in SessionIds /\ n # 0
        /\ next_session_id' = n + 1
        /\ by_session' = [by_session EXCEPT ![n] = r]
        /\ by_client' = [by_client EXCEPT ![c] = n]
        /\ by_apphost' = by_apphost /\ by_pid' = by_pid
    BY DEF CreateSpawningSession, SessionIds
  <1> HIDE DEF r
  <1>3. /\ \A s \in SessionIds : by_session'[s] = IF s = n THEN r ELSE by_session[s]
        /\ \A d \in Clients : by_client'[d] = IF d = c THEN n ELSE by_client[d]
    BY <1>2 DEF TableInv, TableTypeOK
  <1>4. TableTypeOK'
    BY <1>1, <1>2 DEF TableInv, TableTypeOK, SessionIds
  <1>5. ~Has(n)
    BY <1>2 DEF TableInv, FreshIds, SessionIds
  <1>6. IndexSound'
    BY <1>1, <1>2, <1>3, <1>5 DEF TableInv, TableTypeOK, IndexSound, Has
  <1>7. FreshIds'
    BY <1>2, <1>3 DEF TableInv, TableTypeOK, FreshIds, Has, SessionIds
  <1>8. QED BY <1>4, <1>6, <1>7 DEF TableInv

\* Steps that rewrite a stored record but keep its handles and its pid: the
\* marks, the transition to CLOSING and the passing of time.
LEMMA TouchPreserves ==
    ASSUME TableInv, NEW s \in SessionIds, NEW r \in SessionRuntime,
           Has(s), r.state # "ABSENT",
           r.client_conn = by_session[s].client_conn,
           r.apphost_conn = by_session[s].apphost_conn,
           r.apphost_pid = by_session[s].apphost_pid,
           by_session' = [by_session EXCEPT ![s] = r],
           UNCHANGED <<next_session_id, by_client, by_apphost, by_pid>>
    PROVE  TableInv'
  <1>1. \A x \in SessionIds : by_session'[x] = IF x = s THEN r ELSE by_session[x]
    BY DEF TableInv, TableTypeOK
  <1>2. TableTypeOK'
    BY DEF TableInv, TableTypeOK
  <1>3. \A x : Has(x)' <=> Has(x)
    BY <1>1 DEF Has
  <1>4. IndexSound'
    BY <1>1, <1>3 DEF TableInv, TableTypeOK, IndexSound, Has
  <1>5. FreshIds'
    BY <1>3 DEF TableInv, FreshIds
  <1>6. QED BY <1>2, <1>4, <1>5 DEF TableInv

\* Steps that take one session out of the table.  Whatever index entries they
\* erase, it is enough that none that is left names the session.
LEMMA TakeOutPreserves ==
    ASSUME TableInv, NEW s \in SessionIds,
           by_session' = [by_session EXCEPT ![s] = NoSession],
           next_session_id' = next_session_id,
           by_client'  \in [Clients  -> SessionIds \cup {0}],
           by_apphost' \in [AppHosts -> SessionIds \cup {0}],
           by_pid'     \in [Pids     -> SessionIds \cup {0}],
           \A c \in Clients : by_client'[c] # 0 =>
               by_client'[c] = by_client[c] /\ by_client[c] # s,
           \A a \in AppHosts : by_apphost'[a] # 0 =>
               by_apphost'[a] = by_apphost[a] /\ by_apphost[a] # s,
           \A p \in Pids : by_pid'[p] # 0 =>
               by_pid'[p] = by_pid[p] /\ by_pid[p] # s
    PROVE  TableInv'
  <1>1. \A x \in SessionIds :
           by_session'[x] = IF x = s THEN NoSession ELSE by_session[x]
    BY DEF TableInv, TableTypeOK
  <1>2. TableTypeOK'
    BY NoSessionType DEF TableInv, TableTypeOK
  <1>3. \A x : Has(x)' <=> (Has(x) /\ x # s)
    BY <1>1, NoSessionType DEF Has
  <1>4. IndexSound'
    BY <1>1, <1>3 DEF TableInv, TableTypeOK, IndexSound, Has
  <1>5. FreshIds'
    BY <1>3 DEF TableInv, FreshIds
  <1>6. QED BY <1>2, <1>4, <1>5 DEF TableInv

LEMMA RemoveSessionPreserves ==
    ASSUME TableInv, NEW s \in SessionIds, RemoveSession(s)
    PROVE  TableInv'
  <1>1. CASE Has(s)
    <2>1. /\ by_client'  = Erase(by_client,  by_session[s].client_conn)
          /\ by_apphost' = Erase(by_apphost, by_session[s].apphost_conn)
          /\ by_pid'     = Erase(by_pid,     by_session[s].apphost_pid)
          /\ by_session' = [by_session EXCEPT ![s] = NoSession]
          /\ next_session_id' = next_session_id
      BY <1>1 DEF RemoveSession
    <2>2. \A c \in Clients : by_client'[c] # 0 =>
             by_client'[c] = by_client[c] /\ by_client[c] # s
      BY <2>1, EraseType DEF TableInv, TableTypeOK, IndexSound
    <2>3. \A a \in AppHosts : by_apphost'[a] # 0 =>
             by_apphost'[a] = by_apphost[a] /\ by_apphost[a] # s
      BY <2>1, EraseType DEF TableInv, TableTypeOK, IndexSound
    <2>4. \A p \in Pids : by_pid'[p] # 0 =>
             by_pid'[p] = by_pid[p] /\ by_pid[p] # s
      BY <2>1, EraseType DEF TableInv, TableTypeOK, IndexSound
    <2>5. /\ by_client'  \in [Clients  -> SessionIds \cup {0}]
          /\ by_apphost' \in [AppHosts -> SessionIds \cup {0}]
          /\ by_pid'     \in [Pids     -> SessionIds \cup {0}]
      BY <2>1, EraseType DEF TableInv, TableTypeOK
    <2>6. QED BY <2>1, <2>2, <2>3, <2>4, <2>5, TakeOutPreserves
  <1>2. CASE ~Has(s)
    BY <1>2 DEF RemoveSession, tableVars, TableInv, TableTypeOK, IndexSound,
                FreshIds, Has
  <1>3. QED BY <1>1, <1>2

LEMMA RemoveByClientPreserves ==
    ASSUME TableInv, NEW c \in Clients, RemoveByClient(c)
    PROVE  TableInv'
  <1> DEFINE s == by_client[c]
  <1>1. CASE s = 0
    BY <1>1 DEF RemoveByClient, tableVars, TableInv, TableTypeOK, IndexSound,
                FreshIds, Has
  <1>2. CASE s # 0
    <2>1. s \in SessionIds /\ Has(s) /\ by_session[s].client_conn = c
      BY <1>2 DEF TableInv, TableTypeOK, IndexSound
    <2>2. /\ by_client'  = Erase(by_client, c)
          /\ by_apphost' = Erase(by_apphost, by_session[s].apphost_conn)
          /\ by_pid'     = Erase(by_pid,     by_session[s].apphost_pid)
          /\ by_session' = [by_session EXCEPT ![s] = NoSession]
          /\ next_session_id' = next_session_id
      BY <1>2, <2>1 DEF RemoveByClient
    <2> HIDE DEF s
    <2>3. \A d \in Clients : by_client'[d] # 0 =>
             by_client'[d] = by_client[d] /\ by_client[d] # s
      BY <2>1, <2>2, EraseType DEF TableInv, TableTypeOK, IndexSound
    <2>4. \A a \in AppHosts : by_apphost'[a] # 0 =>
             by_apphost'[a] = by_apphost[a] /\ by_apphost[a] # s
      BY <2>1, <2>2, EraseType DEF TableInv, TableTypeOK, IndexSound
    <2>5. \A p \in Pids : by_pid'[p] # 0 =>
             by_pid'[p] = by_pid[p] /\ by_pid[p] # s
      BY <2>1, <2>2, EraseType DEF TableInv, TableTypeOK, IndexSound
    <2>6. /\ by_client'  \in [Clients  -> SessionIds \cup {0}]
          /\ by_apphost' \in [AppHosts -> SessionIds \cup {0}]
          /\ by_pid'     \in [Pids     -> SessionIds \cup {0}]
      BY <2>2, EraseType DEF TableInv, TableTypeOK
    <2>7. QED BY <2>1, <2>2, <2>3, <2>4, <2>5, <2>6, TakeOutPreserves
  <1>3. QED BY <1>1, <1>2

LEMMA RemoveByAppHostPreserves ==
    ASSUME TableInv, NEW a \in AppHosts, RemoveByAppHost(a)
    PROVE  TableInv'
  <1> DEFINE s == by_apphost[a]
  <1>1. CASE s = 0
    BY <1>1 DEF RemoveByAppHost, tableVars, TableInv, TableTypeOK, IndexSound,
                FreshIds, Has
  <1>2. CASE s # 0
    <2>1. s \in SessionIds /\ Has(s) /\ by_session[s].apphost_conn = a
      BY <1>2 DEF TableInv, TableTypeOK, IndexSound
    <2>2. /\ by_client'  = Erase(by_client,  by_session[s].client_conn)
          /\ by_apphost' = Erase(by_apphost, a)
          /\ by_pid'     = Erase(by_pid,     by_session[s].apphost_pid)
          /\ by_session' = [by_session EXCEPT ![s] = NoSession]
          /\ next_session_id' = next_session_id
      BY <1>2, <2>1 DEF RemoveByAppHost
    <2> HIDE DEF s
    <2>3. \A c \in Clients : by_client'[c] # 0 =>
             by_client'[c] = by_client[c] /\ by_client[c] # s
      BY <2>1, <2>2, EraseType DEF TableInv, TableTypeOK, IndexSound
    <2>4. \A b \in AppHosts : by_apphost'[b] # 0 =>
             by_apphost'[b] = by_apphost[b] /\ by_apphost[b] # s
      BY <2>1, <2>2, EraseType DEF TableInv, TableTypeOK, IndexSound
    <2>5. \A p \in Pids : by_pid'[p] # 0 =>
             by_pid'[p] = by_pid[p] /\ by_pid[p] # s
      BY <2>1, <2>2, EraseType DEF TableInv, TableTypeOK, IndexSound
    <2>6. /\ by_client'  \in [Clients  -> SessionIds \cup {0}]
          /\ by_apphost' \in [AppHosts -> SessionIds \cup {0}]
          /\ by_pid'     \in [Pids     -> SessionIds \cup {0}]
      BY <2>2, EraseType DEF TableInv, TableTypeOK
    <2>7. QED BY <2>1, <2>2, <2>3, <2>4, <2>5, <2>6, TakeOutPreserves
  <1>3. QED BY <1>1, <1>2

\* The pid index is soundly replaced: the entry of the old pid goes, even if
\* another session has taken it over, and the new pid leads to this session.
LEMMA SetAppHostPidPreserves ==
    ASSUME TableInv, NEW s \in SessionIds, NEW p \in Pids, SetAppHostPid(s, p)
    PROVE  TableInv'
  <1>1. CASE Has(s)
    <2> DEFINE old == Erase(by_pid, by_session[s].apphost_pid)
    <2>1. /\ by_session' = [by_session EXCEPT ![s].apphost_pid = p]
          /\ by_pid' = [old EXCEPT ![p] = s]
          /\ UNCHANGED <<next_session_id, by_client, by_apphost>>
      BY <1>1 DEF SetAppHostPid
    <2>2. /\ old \in [Pids -> SessionIds \cup {0}]
          /\ \A q \in Pids : old[q] # 0 => old[q] = by_pid[q] /\ by_pid[q] # s
      BY EraseType DEF TableInv, TableTypeOK, IndexSound
    <2> HIDE DEF old
    <2>3. \A q \in Pids : by_pid'[q] = IF q = p THEN s ELSE old[q]
      BY <2>1, <2>2
    <2>4. TableTypeOK'
      BY <2>1, <2>2 DEF TableInv, TableTypeOK, SessionRuntime
    <2>5. \A x \in SessionIds :
             /\ by_session'[x].state = by_session[x].state
             /\ by_session'[x].client_conn = by_session[x].client_conn
             /\ by_session'[x].apphost_conn = by_session[x].apphost_conn
             /\ x # s => by_session'[x].apphost_pid = by_session[x].apphost_pid
             /\ x = s => by_session'[x].apphost_pid = p
      BY <2>1 DEF TableInv, TableTypeOK, SessionRuntime
    <2>6. \A x : Has(x)' <=> Has(x)
      BY <2>5 DEF Has
    <2>7. IndexSound'
      BY <1>1, <2>1, <2>2, <2>3, <2>5, <2>6
      DEF TableInv, TableTypeOK, IndexSound, Has
    <2>8. FreshIds'
      BY <2>1, <2>6 DEF TableInv, FreshIds
    <2>9. QED BY <2>4, <2>7, <2>8 DEF TableInv
  <1>2. CASE ~Has(s)
    BY <1>2 DEF SetAppHostPid, tableVars, TableInv, TableTypeOK, IndexSound,
                FreshIds, Has
  <1>3. QED BY <1>1, <1>2

\* Binding replaces the AppHost index in the same way, and never brings an
\* absent session back: Bindable asks for a stored one.
LEMMA BindAppHostPreserves ==
    ASSUME TableInv, NEW s \in SessionIds, NEW a \in AppHosts, BindAppHost(s, a)
    PROVE  TableInv'
  <1>1. CASE Bindable(s)
    <2> DEFINE old == Erase(by_apphost, by_session[s].apphost_conn)
    <2>1. /\ by_session' = [by_session EXCEPT ![s].apphost_conn = a,
                                               ![s].state = "ACTIVE",
                                               ![s].late = FALSE,
                                               ![s].apphost_stale = FALSE]
          /\ by_apphost' = [old EXCEPT ![a] = s]
          /\ UNCHANGED <<next_session_id, by_client, by_pid>>
      BY <1>1 DEF BindAppHost
    <2>2. /\ old \in [AppHosts -> SessionIds \cup {0}]
          /\ \A b \in AppHosts : old[b] # 0 =>
                 old[b] = by_apphost[b] /\ by_apphost[b] # s
      BY EraseType DEF TableInv, TableTypeOK, IndexSound
    <2> HIDE DEF old
    <2>3. \A b \in AppHosts : by_apphost'[b] = IF b = a THEN s ELSE old[b]
      BY <2>1, <2>2
    <2> DEFINE r == [by_session[s] EXCEPT !.apphost_conn = a, !.state = "ACTIVE",
                                          !.late = FALSE, !.apphost_stale = FALSE]
    <2>4. TableTypeOK'
      <3>1. by_session[s] \in SessionRuntime
        BY DEF TableInv, TableTypeOK
      <3>2. r \in SessionRuntime
        BY <3>1 DEF SessionRuntime, SessionState
      <3>3. by_session' = [by_session EXCEPT ![s] = r]
        BY <2>1, Zenon DEF TableInv, TableTypeOK
      <3> HIDE DEF r
      <3>4. by_session' \in [SessionIds -> SessionRuntime]
        BY <3>2, <3>3 DEF TableInv, TableTypeOK
      <3>5. by_apphost' \in [AppHosts -> SessionIds \cup {0}]
        BY <2>1, <2>2
      <3>6. UNCHANGED <<next_session_id, by_client, by_pid>>
        BY <2>1
      <3>7. QED BY <3>4, <3>5, <3>6 DEF TableInv, TableTypeOK
    <2>5. \A x \in SessionIds :
             /\ x # s => by_session'[x] = by_session[x]
             /\ by_session'[x].client_conn = by_session[x].client_conn
             /\ by_session'[x].apphost_pid = by_session[x].apphost_pid
             /\ x = s => /\ by_session'[x].apphost_conn = a
                         /\ by_session'[x].state = "ACTIVE"
      BY <2>1 DEF TableInv, TableTypeOK, SessionRuntime
    <2>6. \A x : Has(x)' <=> Has(x)
      BY <1>1, <2>5 DEF Has, Bindable
    <2>7. IndexSound'
      BY <1>1, <2>1, <2>2, <2>3, <2>5, <2>6
      DEF TableInv, TableTypeOK, IndexSound, Has
    <2>8. FreshIds'
      BY <2>1, <2>6 DEF TableInv, FreshIds
    <2>9. QED BY <2>4, <2>7, <2>8 DEF TableInv
  <1>2. CASE ~Bindable(s)
    BY <1>2 DEF BindAppHost, tableVars, TableInv, TableTypeOK, IndexSound,
                FreshIds, Has
  <1>3. QED BY <1>1, <1>2

\* The marks, the transition to CLOSING and the clock, one by one.
LEMMA TouchesPreserve ==
    ASSUME TableInv, NEW s \in SessionIds,
           \/ MarkClientSeen(s) \/ MarkAppHostSeen(s) \/ TransitionToClosing(s)
           \/ SpawnDeadlinePasses(s) \/ ClientFallsSilent(s)
           \/ AppHostFallsSilent(s)
    PROVE  TableInv'
  <1> DEFINE R == by_session[s]
  <1>1. R \in SessionRuntime
    BY DEF TableInv, TableTypeOK
  <1>2. CASE UNCHANGED tableVars
    BY <1>2 DEF tableVars, TableInv, TableTypeOK, IndexSound, FreshIds, Has
  <1>3. CASE ~UNCHANGED tableVars
    <2>1. /\ Has(s)
          /\ UNCHANGED <<next_session_id, by_client, by_apphost, by_pid>>
          /\ \E r \in {[R EXCEPT !.client_stale = FALSE],
                        [R EXCEPT !.apphost_stale = FALSE],
                        [R EXCEPT !.state = "CLOSING"],
                        [R EXCEPT !.late = TRUE],
                        [R EXCEPT !.client_stale = TRUE],
                        [R EXCEPT !.apphost_stale = TRUE]} :
                 by_session' = [by_session EXCEPT ![s] = r]
      BY <1>3 DEF MarkClientSeen, MarkAppHostSeen, TransitionToClosing, Closable,
                  SpawnDeadlinePasses, ClientFallsSilent, AppHostFallsSilent
    <2>2. PICK r \in {[R EXCEPT !.client_stale = FALSE],
                      [R EXCEPT !.apphost_stale = FALSE],
                      [R EXCEPT !.state = "CLOSING"],
                      [R EXCEPT !.late = TRUE],
                      [R EXCEPT !.client_stale = TRUE],
                      [R EXCEPT !.apphost_stale = TRUE]} :
             by_session' = [by_session EXCEPT ![s] = r]
      BY <2>1
    <2>3. /\ r \in SessionRuntime
          /\ r.state # "ABSENT"
          /\ r.client_conn = R.client_conn
          /\ r.apphost_conn = R.apphost_conn
          /\ r.apphost_pid = R.apphost_pid
      <3>1. R.state # "ABSENT"
        BY <2>1 DEF Has
      <3>2. CASE r = [R EXCEPT !.client_stale = FALSE]
        BY <1>1, <3>1, <3>2 DEF SessionRuntime
      <3>3. CASE r = [R EXCEPT !.apphost_stale = FALSE]
        BY <1>1, <3>1, <3>3 DEF SessionRuntime
      <3>4. CASE r = [R EXCEPT !.state = "CLOSING"]
        BY <1>1, <3>4 DEF SessionRuntime, SessionState
      <3>5. CASE r = [R EXCEPT !.late = TRUE]
        BY <1>1, <3>1, <3>5 DEF SessionRuntime
      <3>6. CASE r = [R EXCEPT !.client_stale = TRUE]
        BY <1>1, <3>1, <3>6 DEF SessionRuntime
      <3>7. CASE r = [R EXCEPT !.apphost_stale = TRUE]
        BY <1>1, <3>1, <3>7 DEF SessionRuntime
      <3>8. QED BY <3>2, <3>3, <3>4, <3>5, <3>6, <3>7, <2>2
    <2>4. QED BY <2>1, <2>2, <2>3, TouchPreserves
  <1>4. QED BY <1>2, <1>3

LEMMA NextPreserves == TableInv /\ [TableNext]_tableVars => TableInv'
  <1> SUFFICES ASSUME TableInv, [TableNext]_tableVars
               PROVE  TableInv'
    OBVIOUS
  <1>1. ASSUME NEW c \in Clients, CreateSpawningSession(c) \/ RemoveByClient(c)
        PROVE  TableInv'
    BY <1>1, CreatePreserves, RemoveByClientPreserves
  <1>2. ASSUME NEW a \in AppHosts, RemoveByAppHost(a)
        PROVE  TableInv'
    BY <1>2, RemoveByAppHostPreserves
  <1>3. ASSUME NEW s \in SessionIds, TableStep(s)
        PROVE  TableInv'
    BY <1>3, SetAppHostPidPreserves, BindAppHostPreserves, TouchesPreserve,
       RemoveSessionPreserves
    DEF TableStep
  <1>4. CASE UNCHANGED tableVars
    BY <1>4 DEF tableVars, TableInv, TableTypeOK, IndexSound, FreshIds, Has
  <1>5. QED BY <1>1, <1>2, <1>3, <1>4 DEF TableNext

\* The table's types and both its safety invariants, for every number of
\* sessions, handles and pids and for every interleaving of the methods.
THEOREM TableIsSound == TableSpec => [](TableTypeOK /\ IndexSound /\ FreshIds)
  <1>1. TableInit => TableInv
    BY NoSessionType, TableAssumption
    DEF TableInit, TableInv, TableTypeOK, IndexSound, FreshIds, Has, SessionIds
  <1>2. TableInv => TableTypeOK /\ IndexSound /\ FreshIds
    BY DEF TableInv
  <1>3. QED BY <1>1, <1>2, NextPreserves, PTL DEF TableSpec

\* Every field of the table keeps its type, and no id exceeds the counter.
THEOREM TableIsTyped == TableSpec => []TableTypeOK
  <1>1. TableTypeOK /\ IndexSound /\ FreshIds => TableTypeOK
    OBVIOUS
  <1>2. QED BY <1>1, TableIsSound, PTL

\* An id the counter has not reached names no session.
THEOREM UnusedIdsNameNothing == TableSpec => []FreshIds
  <1>1. TableTypeOK /\ IndexSound /\ FreshIds => FreshIds
    OBVIOUS
  <1>2. QED BY <1>1, TableIsSound, PTL

\* An id whose session is gone stays without one: the only method that stores
\* a new record uses next_session_id_, and all others ask for a stored one.
LEMMA AbsentStaysAbsent ==
    ASSUME TableInv, TableNext, NEW s \in SessionIds,
           s < next_session_id, ~Has(s)
    PROVE  ~Has(s)'
  <1> USE NoSessionType DEF TableInv, TableTypeOK
  <1>1. ASSUME NEW c \in Clients, CreateSpawningSession(c)
        PROVE  ~Has(s)'
    BY <1>1 DEF CreateSpawningSession, Has, SessionIds
  <1>2. ASSUME NEW c \in Clients, RemoveByClient(c)
        PROVE  ~Has(s)'
    BY <1>2 DEF RemoveByClient, tableVars, Has
  <1>3. ASSUME NEW a \in AppHosts, RemoveByAppHost(a)
        PROVE  ~Has(s)'
    BY <1>3 DEF RemoveByAppHost, tableVars, Has
  <1>4. ASSUME NEW x \in SessionIds, TableStep(x)
        PROVE  ~Has(s)'
    <2>1. CASE x = s
      BY <1>4, <2>1
      DEF TableStep, SetAppHostPid, BindAppHost, Bindable, MarkClientSeen,
          MarkAppHostSeen, TransitionToClosing, Closable, RemoveSession,
          SpawnDeadlinePasses, ClientFallsSilent, AppHostFallsSilent,
          tableVars, Has
    <2>2. CASE x # s
      <3>1. by_session'[s] = by_session[s]
        BY <1>4, <2>2
        DEF TableStep, SetAppHostPid, BindAppHost, Bindable, MarkClientSeen,
            MarkAppHostSeen, TransitionToClosing, Closable, RemoveSession,
            SpawnDeadlinePasses, ClientFallsSilent, AppHostFallsSilent,
            tableVars
      <3>2. QED BY <3>1 DEF Has
    <2>3. QED BY <2>1, <2>2
  <1>5. QED BY <1>1, <1>2, <1>3, <1>4 DEF TableNext

THEOREM IdsAreNotReused == TableSpec => IdsNotReused
  <1> DEFINE Keeps == \A s \in SessionIds :
                         s < next_session_id /\ ~Has(s) => ~Has(s)'
  <1>1. TableInv /\ [TableNext]_tableVars => [Keeps]_tableVars
    BY AbsentStaysAbsent
  <1>2. TableInit => TableInv
    BY NoSessionType, TableAssumption
    DEF TableInit, TableInv, TableTypeOK, IndexSound, FreshIds, Has, SessionIds
  <1>3. QED BY <1>1, <1>2, NextPreserves, PTL DEF TableSpec, IdsNotReused
=============================================================================
