----------------------------- MODULE SendQueue -----------------------------
(***************************************************************************)
(* The Gateway's connections of one kind (src/gateway/gateway.cpp; the     *)
(* code for Clients and for AppHosts is the same twice): the nodes of the  *)
(* free_list that hold them, and on each the send_queue_ of 4000-byte      *)
(* chunks in front of IoPool's one send buffer per handle.                 *)
(*                                                                         *)
(* IoPool (external) gives every callback of a handle the node that        *)
(* SetHandleFunc() named, for as long as the handle lives; the code gives  *)
(* the node back at the first of RECV_ERROR, RECV_TIMEOUT and              *)
(* BEFORE_CLOSE.  It takes a chunk between BeginInput() and EndInput() and *)
(* refuses the next while iSend is set.  It raises IO_TYPE_SENT when the   *)
(* chunk is sent and clears iSend only after that callback has returned    *)
(* (docs/design/M2.md), so the callback leaves the next chunk to a thread  *)
(* that sleeps 1 ms first.  Any thread may send.  client_lock_             *)
(* (apphost_lock_) is held for one action at a time.                       *)
(***************************************************************************)
EXTENDS Naturals, Sequences, FiniteSets

CONSTANTS
    MaxConns,       \* bound on the handles that IoPool gives out
    Nodes,          \* the nodes of the free_list
    MaxPackets,     \* bound on the packets that are sent
    MaxChunks,      \* bound on the chunks of a packet
    PromptCallback, \* whether the callback always returns within the 1 ms
                    \*   that the drain it schedules sleeps
    None

ASSUME SendQueueAssumption ==
    /\ MaxConns \in Nat /\ MaxPackets \in Nat
    /\ MaxChunks \in Nat \ {0}
    /\ PromptCallback \in BOOLEAN
    /\ None \notin Nat \cup Nodes

VARIABLES
    at,         \* where a node is: "free", "active" (on the active list),
                \*   "released" (off it, and not yet put back)
    node,       \* the ClientSession in a node
    handle,     \* IoPool's handles
    found,      \* sends between send_to_client()'s two locks
    drains,     \* drain threads that are asleep, by what they hold
    notifying,  \* drain threads that have drain_workers_ taken to 0 and
                \*   have yet to notify
    owner,      \* owner[g] is the connection of generation g (history)
    addressed,  \* addressed[p] is the connection packet p is for (history)
    enqueued,   \* every chunk queued on a connection, in order (history)
    submitted   \* every chunk given to IoPool, in order (history)

vars == <<at, node, handle, found, drains, notifying, owner, addressed,
          enqueued, submitted>>

\* The handles, in the order they are given out, each once.
Conns == 1..MaxConns

\* Chunk i of packet p.
Chunk == (1..MaxPackets) \X (1..MaxChunks)

Generations == Conns

TypeOK ==
    /\ at \in [Nodes -> {"free", "active", "released"}]
    /\ \A n \in Nodes :
          /\ node[n].id \in Conns \cup {None}
          /\ node[n].generation \in 0 .. Len(owner)
          /\ node[n].send_queue \in Seq(Chunk)
          /\ at[n] # "active" => node[n].send_queue = <<>>
    /\ \A c \in Conns :
          /\ handle[c].phase \in {"new", "open", "erred", "closed"}
          /\ handle[c].ctx \in Nodes \cup {None}
          /\ handle[c].cancelled \in BOOLEAN
          /\ handle[c].slot \in {"free", "inflight", "callback", "returning"}
          /\ handle[c].due \in Generations \cup {0}
    /\ found \subseteq [packet : 1..MaxPackets, node : Nodes]
    /\ drains \in [Nodes \X Generations -> Nat] /\ notifying \in Nat
    /\ owner \in Seq(Conns) /\ addressed \in Seq(Conns)
    /\ enqueued \in [Conns -> Seq(Chunk)] /\ submitted \in [Conns -> Seq(Chunk)]

Init ==
    /\ at = [n \in Nodes |-> "free"]
    /\ node = [n \in Nodes |-> [id |-> None, generation |-> 0, send_queue |-> <<>>]]
    /\ handle = [c \in Conns |-> [phase |-> "new", ctx |-> None, cancelled |-> FALSE,
                                  slot |-> "free", due |-> 0]]
    /\ found = {} /\ drains = [d \in Nodes \X Generations |-> 0] /\ notifying = 0
    /\ owner = <<>> /\ addressed = <<>>
    /\ enqueued = [c \in Conns |-> <<>>] /\ submitted = [c \in Conns |-> <<>>]

\* A handle that IoPool has closed, or never opened.
Closed == [phase |-> "closed", ctx |-> None, cancelled |-> TRUE, slot |-> "free",
           due |-> 0]

-----------------------------------------------------------------------------
(* Nodes: alloc_client(), release_client() and the active list.            *)

\* find_client_locked(), as the set of what it finds.
FindLocked(c) == {n \in Nodes : at[n] = "active" /\ node[n].id = c}

\* find_client_locked(conn->id_) == conn.
IsActive(n) == n \in FindLocked(node[n].id)

\* IO_TYPE_ACCEPT_INIT: a free node is constructed and linked, and becomes
\* the context of the handle's callbacks; without a free node the connection
\* is refused.  If the handle is cancelled meanwhile, the node goes back.
Accept(c) ==
    /\ handle[c].phase = "new" /\ \A b \in 1..(c - 1) : handle[b].phase # "new"
    /\ \/ /\ \A n \in Nodes : at[n] # "free"
          /\ handle' = [handle EXCEPT ![c] = Closed]
          /\ UNCHANGED <<at, node, owner>>
       \/ \E n \in Nodes :
          /\ at[n] = "free"
          /\ owner' = Append(owner, c)
          /\ node' = [node EXCEPT ![n] = [id |-> c, generation |-> Len(owner'),
                                          send_queue |-> <<>>]]
          /\ \/ /\ at' = [at EXCEPT ![n] = "active"]
                /\ handle' = [handle EXCEPT ![c].phase = "open", ![c].ctx = n]
             \/ /\ handle' = [handle EXCEPT ![c] = Closed]
                /\ UNCHANGED at
    /\ UNCHANGED <<found, drains, notifying, addressed, enqueued, submitted>>

\* Mutant of Release: the node goes back to its pool with what it had queued.
ReleaseKeepsQueue(n) ==
    /\ at' = IF at[n] = "active" THEN [at EXCEPT ![n] = "released"] ELSE at
    /\ UNCHANGED node

\* release_client() up to its destructor: nothing, if the node is off the list.
Release(n) ==
    IF at[n] = "active"
    THEN /\ at' = [at EXCEPT ![n] = "released"]
         /\ node' = [node EXCEPT ![n].send_queue = <<>>]
    ELSE UNCHANGED <<at, node>>

\* RECV_ERROR or RECV_TIMEOUT: IoPool gives the handle up.
ReceiveFails(c) ==
    /\ handle[c].phase = "open"
    /\ handle' = [handle EXCEPT ![c].phase = "erred", ![c].cancelled = TRUE]
    /\ Release(handle[c].ctx)
    /\ UNCHANGED <<found, drains, notifying, owner, addressed, enqueued, submitted>>

\* BEFORE_CLOSE, minutes after the end of the connection: the node it comes
\* with may be another connection's by now, which is then released.
BeforeClose(c) ==
    /\ handle[c].phase \in {"open", "erred"}
    /\ handle[c].slot \notin {"callback", "returning"}
    /\ handle' = [handle EXCEPT ![c] = Closed]
    /\ Release(handle[c].ctx)
    /\ UNCHANGED <<found, drains, notifying, owner, addressed, enqueued, submitted>>

\* PutFreeNode() at the end of release_client().
PutFreeNode(n) ==
    /\ at[n] = "released" /\ at' = [at EXCEPT ![n] = "free"]
    /\ UNCHANGED <<node, handle, found, drains, notifying, owner, addressed,
                   enqueued, submitted>>

-----------------------------------------------------------------------------
(* Sending.                                                                *)

\* send_to_client() up to its unlock: a connection that is not found is sent
\* nothing.
Send(c) ==
    /\ Len(addressed) < MaxPackets
    /\ \E n \in FindLocked(c) :
          found' = found \cup {[packet |-> Len(addressed) + 1, node |-> n]}
    /\ addressed' = Append(addressed, c)
    /\ UNCHANGED <<at, node, handle, drains, notifying, owner, enqueued, submitted>>

\* push_chunked(): the chunks of a packet that is cut into k.
ChunksOf(p, k) == [i \in 1..k |-> <<p, i>>]

\* BeginInput() succeeds when iSend is clear and the handle was not disabled.
CanSubmit(c) == handle[c].slot = "free" /\ ~handle[c].cancelled

\* BeginInput(), memcpy, pop() and EndInput() of the head of q on node n.
Submit(n, q) ==
    LET c == node[n].id
    IN  /\ submitted' = [submitted EXCEPT ![c] = Append(@, Head(q))]
        /\ node' = [node EXCEPT ![n].send_queue = Tail(q)]
        /\ handle' = [handle EXCEPT ![c].slot = "inflight"]

Push(n, q) ==
    /\ node' = [node EXCEPT ![n].send_queue = q]
    /\ UNCHANGED <<handle, submitted>>

\* Mutant of Enqueue: the eager path is taken whatever is queued already.
EnqueueAlwaysEager(f, k) ==
    /\ f \in found /\ found' = found \ {f}
    /\ IF ~IsActive(f.node)
       THEN UNCHANGED <<node, handle, enqueued, submitted>>
       ELSE LET c == node[f.node].id
                q == node[f.node].send_queue
                new == ChunksOf(f.packet, k)
            IN  /\ enqueued' = [enqueued EXCEPT ![c] = @ \o new]
                /\ IF CanSubmit(c) THEN Submit(f.node, new \o q)
                   ELSE Push(f.node, q \o new)
    /\ UNCHANGED <<at, drains, notifying, owner, addressed>>

\* Mutant of Enqueue: everything is left to the drains.
EnqueueNeverEager(f, k) ==
    /\ f \in found /\ found' = found \ {f}
    /\ IF ~IsActive(f.node)
       THEN UNCHANGED <<node, handle, enqueued, submitted>>
       ELSE LET c == node[f.node].id
                new == ChunksOf(f.packet, k)
            IN  /\ enqueued' = [enqueued EXCEPT ![c] = @ \o new]
                /\ Push(f.node, node[f.node].send_queue \o new)
    /\ UNCHANGED <<at, drains, notifying, owner, addressed>>

\* enqueue_client(), on the connection the node holds by now, if any: the
\* chunks go behind what is queued, and only into an empty queue the first one
\* is submitted at once.
Enqueue(f, k) ==
    /\ f \in found /\ found' = found \ {f}
    /\ IF ~IsActive(f.node)
       THEN UNCHANGED <<node, handle, enqueued, submitted>>
       ELSE LET c == node[f.node].id
                q == node[f.node].send_queue
                new == ChunksOf(f.packet, k)
            IN  /\ enqueued' = [enqueued EXCEPT ![c] = @ \o new]
                /\ IF q = <<>> /\ CanSubmit(c) THEN Submit(f.node, new)
                   ELSE Push(f.node, q \o new)
    /\ UNCHANGED <<at, drains, notifying, owner, addressed>>

\* IoPool has sent the chunk and raises IO_TYPE_SENT.
Sent(c) ==
    /\ handle[c].phase # "closed" /\ handle[c].slot = "inflight"
    /\ handle' = [handle EXCEPT ![c].slot = "callback"]
    /\ UNCHANGED <<at, node, found, drains, notifying, owner, addressed,
                   enqueued, submitted>>

\* client_generation().
GenerationOf(n) == IF IsActive(n) THEN node[n].generation ELSE 0

\* on_client_sent() and schedule_client_drain(): a drain thread for the
\* connection that the node holds by now, if any.
OnSent(c) ==
    /\ handle[c].slot = "callback"
    /\ \E n \in {handle[c].ctx} : \E g \in {GenerationOf(n)} :
          /\ handle' = [handle EXCEPT ![c].slot = "returning", ![c].due = g]
          /\ drains' = IF g = 0 THEN drains ELSE [drains EXCEPT ![<<n, g>>] = @ + 1]
    /\ UNCHANGED <<at, node, found, notifying, owner, addressed, enqueued, submitted>>

\* The callback has returned and IoPool clears iSend.
ClearSend(c) ==
    /\ handle[c].slot = "returning"
    /\ handle' = [handle EXCEPT ![c].slot = "free", ![c].due = 0]
    /\ UNCHANGED <<at, node, found, drains, notifying, owner, addressed,
                   enqueued, submitted>>

\* The 1 ms of one of the drains of node n and generation g can be over.
Awake(n, g) ==
    LET running == {c \in Conns : /\ handle[c].slot = "returning"
                                  /\ handle[c].ctx = n /\ handle[c].due = g}
    IN  drains[<<n, g>>] > IF PromptCallback THEN Cardinality(running) ELSE 0

\* The thread ends: the last one will notify.
DrainEnds(n, g) ==
    /\ drains' = [drains EXCEPT ![<<n, g>>] = @ - 1]
    /\ notifying' = IF \A d \in DOMAIN drains : drains'[d] = 0
                    THEN notifying + 1 ELSE notifying

\* Mutant of Drain: the generation is not compared.
DrainAnyGeneration(n, g) ==
    /\ Awake(n, g)
    /\ IF ~IsActive(n) \/ node[n].send_queue = <<>> \/ handle[node[n].id].cancelled
       THEN DrainEnds(n, g) /\ UNCHANGED <<node, handle, submitted>>
       ELSE IF CanSubmit(node[n].id)
       THEN DrainEnds(n, g) /\ Submit(n, node[n].send_queue)
       ELSE UNCHANGED <<node, handle, drains, notifying, submitted>>
    /\ UNCHANGED <<at, found, owner, addressed, enqueued>>

\* drain_client_queue() by a thread whose sleep is over.  It ends without work,
\* or when the handle is disabled, or with the head submitted; while iSend is
\* set another drain thread takes its place.
Drain(n, g) ==
    /\ Awake(n, g)
    /\ LET mine == IsActive(n) /\ node[n].generation = g
           idle == ~mine \/ node[n].send_queue = <<>>
       IN  \/ /\ idle \/ handle[node[n].id].cancelled
              /\ DrainEnds(n, g)
              /\ UNCHANGED <<node, handle, submitted>>
           \/ /\ ~idle /\ CanSubmit(node[n].id)
              /\ DrainEnds(n, g)
              /\ Submit(n, node[n].send_queue)
           \/ /\ ~idle /\ ~handle[node[n].id].cancelled
              /\ handle[node[n].id].slot # "free"
              /\ UNCHANGED <<node, handle, submitted, drains, notifying>>
    /\ UNCHANGED <<at, found, owner, addressed, enqueued>>

\* cv_.notify_all() of the last drain thread.
NotifyAll ==
    /\ notifying > 0 /\ notifying' = notifying - 1
    /\ UNCHANGED <<at, node, handle, found, drains, owner, addressed,
                   enqueued, submitted>>

\* DisableHandle().
Disable(c) ==
    /\ handle[c].phase = "open" /\ ~handle[c].cancelled
    /\ handle' = [handle EXCEPT ![c].cancelled = TRUE]
    /\ UNCHANGED <<at, node, found, drains, notifying, owner, addressed,
                   enqueued, submitted>>

-----------------------------------------------------------------------------

\* The callbacks of IoPool for one connection.
SentCallback(c) == Sent(c) \/ OnSent(c) \/ ClearSend(c)
Callback(c) == Accept(c) \/ ReceiveFails(c) \/ BeforeClose(c) \/ SentCallback(c)

\* What a thread has begun.
Sends == \E f \in found, k \in 1..MaxChunks : Enqueue(f, k)
Drains == \E n \in Nodes, g \in Generations : Drain(n, g)
Puts == \E n \in Nodes : PutFreeNode(n)

Next ==
    \/ \E c \in Conns : Callback(c) \/ Send(c) \/ Disable(c)
    \/ Sends \/ Drains \/ Puts \/ NotifyAll

Spec == Init /\ [][Next]_vars

\* IoPool sends what it took, callbacks return, sleeping drains wake up and
\* threads go on.
FairSpec == /\ Spec
            /\ \A c \in Conns : WF_vars(SentCallback(c))
            /\ WF_vars(Drains) /\ WF_vars(Sends)

-----------------------------------------------------------------------------
(* Properties.                                                             *)

\* The chunks of a connection reach IoPool in the order they were enqueued,
\* none twice and none left out: the eager path never overtakes a drain, and
\* the chunks of one packet are never mixed with those of another.  Nor is a
\* connection that is there robbed of a packet by another (one that is gone may
\* be: its node is the other's by then).
SentInOrder ==
    /\ \A n \in Nodes : at[n] = "active" =>
          submitted[node[n].id] \o node[n].send_queue = enqueued[node[n].id]
    /\ \A c \in Conns : FindLocked(c) = {} =>
          /\ Len(submitted[c]) <= Len(enqueued[c])
          /\ submitted[c] = SubSeq(enqueued[c], 1, Len(submitted[c]))
    /\ \A c \in Conns : \A i \in DOMAIN enqueued[c] :
          LET to == addressed[enqueued[c][i][1]] IN to = c \/ FindLocked(to) = {}

\* "Deferred tasks check both the pointer and the generation" (M2.md:182): a
\* drain that was scheduled for one connection sends nothing of another,
\* whoever holds its node by the time it wakes up.
DrainsItsOwn ==
    [][\A n \in Nodes, g \in Generations : drains'[<<n, g>>] < drains[<<n, g>>] =>
          \A c \in Conns : submitted'[c] # submitted[c] => c = owner[g]]_vars

\* Nothing that is queued is left to nobody: while callbacks return within the
\* 1 ms, a chunk is in IoPool, whose SENT callback will schedule a drain, or a
\* drain of this very connection is still to run.
QueueServed ==
    PromptCallback =>
       \A n \in Nodes : \A c \in {node[n].id} :
          at[n] = "active" /\ node[n].send_queue # <<>> /\ ~handle[c].cancelled =>
             \/ handle[c].slot \in {"inflight", "callback"}
             \/ drains[<<n, node[n].generation>>] > 0

\* "The existing drain path (IO_TYPE_SENT -> schedule_client_drain) will pick
\* up the new tail when iSend clears" (gateway.cpp:402): what is queued does
\* get sent, as long as the connection lives.
EnqueuedIsSent ==
    \A c \in Conns :
       submitted[c] # enqueued[c]
          ~> submitted[c] = enqueued[c] \/ FindLocked(c) = {} \/ handle[c].cancelled
=============================================================================
