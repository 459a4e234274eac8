-------------------------- MODULE SendQueueProofs --------------------------
(***************************************************************************)
(* Proofs about SendQueue and GatewayStop, for every number of nodes,      *)
(* connections, packets and chunks: chunks are sent in order and to whom   *)
(* they are addressed, a drain sends only what it was scheduled for, and   *)
(* none is left when stop() has returned.                                  *)
(***************************************************************************)
EXTENDS GatewayStop, SequenceTheorems, FiniteSetTheorems, TLAPS

-----------------------------------------------------------------------------
(* The inductive invariant.                                                *)

NodeState == [id : Conns \cup {None}, generation : Nat, send_queue : Seq(Chunk)]

HandleState ==
    [phase : {"new", "open", "erred", "closed"}, ctx : Nodes \cup {None},
     cancelled : BOOLEAN, slot : {"free", "inflight", "callback", "returning"},
     due : Generations \cup {0}]

\* The types, with what bounds the generations: a handle that is still new
\* comes after every handle that got a node.
Typed ==
    /\ at \in [Nodes -> {"free", "active", "released"}]
    /\ node \in [Nodes -> NodeState]
    /\ \A n \in Nodes : /\ node[n].generation <= Len(owner)
                        /\ at[n] # "active" => node[n].send_queue = <<>>
    /\ handle \in [Conns -> HandleState]
    /\ found \subseteq [packet : 1..MaxPackets, node : Nodes]
    /\ drains \in [Nodes \X Generations -> Nat] /\ notifying \in Nat
    /\ owner \in Seq(Conns) /\ addressed \in Seq(Conns)
    /\ Len(owner) <= MaxConns /\ Len(addressed) <= MaxPackets
    /\ \A c \in Conns : handle[c].phase = "new" => Len(owner) < c
    /\ enqueued \in [Conns -> Seq(Chunk)] /\ submitted \in [Conns -> Seq(Chunk)]

\* An active node is its connection's only one, and the connection of its
\* generation.
Linked ==
    /\ \A n \in Nodes : at[n] = "active" =>
          /\ node[n].id \in Conns /\ handle[node[n].id].phase # "new"
          /\ node[n].generation \in DOMAIN owner
          /\ owner[node[n].generation] = node[n].id
    /\ \A m, n \in Nodes :
          at[m] = "active" /\ at[n] = "active" /\ node[m].id = node[n].id => m = n

\* What was given to IoPool, then what is queued, is what was enqueued; without
\* a node the rest of it is lost.
Ordered ==
    /\ \A n \in Nodes : at[n] = "active" =>
          submitted[node[n].id] \o node[n].send_queue = enqueued[node[n].id]
    /\ \A c \in Conns : \E rest \in Seq(Chunk) : enqueued[c] = submitted[c] \o rest
    /\ \A c \in Conns : handle[c].phase = "new" =>
          enqueued[c] = <<>> /\ submitted[c] = <<>>

\* A send that has been found a node is for the connection of that node, or for
\* one that has no node any more; and so is every chunk.
Addressed ==
    /\ \A f \in found :
          /\ f.packet \in DOMAIN addressed
          /\ handle[addressed[f.packet]].phase # "new"
          /\ FindLocked(addressed[f.packet]) \subseteq {f.node}
    /\ \A c \in Conns : \A i \in DOMAIN enqueued[c] :
          LET p == enqueued[c][i][1]
          IN  /\ p \in DOMAIN addressed
              /\ handle[addressed[p]].phase # "new"
              /\ addressed[p] = c \/ FindLocked(addressed[p]) = {}

SInv == Typed /\ Linked /\ Ordered /\ Addressed

USE DEF NodeState, HandleState

-----------------------------------------------------------------------------
(* Sequences.                                                              *)

\* Moving the head of a queue behind what was sent changes nothing of the two
\* in a row.
LEMMA HeadMoves ==
    ASSUME NEW S, NEW s \in Seq(S), NEW q \in Seq(S), q # <<>>
    PROVE  /\ Append(s, Head(q)) \o Tail(q) = s \o q
           /\ Append(s, Head(q)) \in Seq(S) /\ Tail(q) \in Seq(S)
<1>1. /\ Head(q) \in S /\ Tail(q) \in Seq(S) /\ q = <<Head(q)>> \o Tail(q)
  BY HeadTailProperties
<1>2. Append(s, Head(q)) = s \o <<Head(q)>>
  BY <1>1, AppendIsConcat
<1>3. (s \o <<Head(q)>>) \o Tail(q) = s \o (<<Head(q)>> \o Tail(q))
  BY <1>1, ConcatAssociative, <<Head(q)>> \in Seq(S)
<1> QED BY <1>1, <1>2, <1>3, AppendProperties

\* A sequence that is followed by another is the beginning of both in a row.
LEMMA PrefixOfConcat ==
    ASSUME NEW S, NEW s \in Seq(S), NEW t \in Seq(S)
    PROVE  /\ Len(s) <= Len(s \o t)
           /\ s = SubSeq(s \o t, 1, Len(s))
<1>1. /\ s \o t \in Seq(S) /\ Len(s \o t) = Len(s) + Len(t)
      /\ \A i \in 1 .. Len(s) + Len(t) :
            (s \o t)[i] = IF i <= Len(s) THEN s[i] ELSE t[i - Len(s)]
      /\ Len(s) \in Nat /\ Len(t) \in Nat
  BY ConcatProperties, LenProperties
<1>2. Len(s) <= Len(s \o t)
  BY <1>1
<1>3. SubSeq(s \o t, 1, Len(s)) = [i \in 1 .. Len(s) |-> (s \o t)[i]]
  BY <1>1, SubSeq(s \o t, 1, Len(s)) = [i \in 1 .. (Len(s) - 1 + 1) |-> (s \o t)[1 + i - 1]]
<1>4. s = [i \in 1 .. Len(s) |-> s[i]]
  BY SeqDef
<1> QED BY <1>1, <1>2, <1>3, <1>4

\* What is in two sequences in a row is in the one or in the other.
LEMMA InConcat ==
    ASSUME NEW S, NEW s \in Seq(S), NEW t \in Seq(S), NEW i \in DOMAIN (s \o t)
    PROVE  IF i \in DOMAIN s THEN (s \o t)[i] = s[i]
           ELSE \E j \in DOMAIN t : (s \o t)[i] = t[j]
<1>1. /\ s \o t \in Seq(S) /\ Len(s \o t) = Len(s) + Len(t)
      /\ \A k \in 1 .. Len(s) + Len(t) :
            (s \o t)[k] = IF k <= Len(s) THEN s[k] ELSE t[k - Len(s)]
      /\ Len(s) \in Nat /\ Len(t) \in Nat
      /\ DOMAIN s = 1..Len(s) /\ DOMAIN t = 1..Len(t)
      /\ DOMAIN (s \o t) = 1..Len(s \o t)
  BY ConcatProperties, LenProperties
<1>2. CASE i <= Len(s)
  BY <1>1, <1>2
<1>3. CASE ~(i <= Len(s))
  <2>1. i - Len(s) \in 1..Len(t) /\ (s \o t)[i] = t[i - Len(s)]
    BY <1>1, <1>3
  <2> QED BY <1>1, <1>3, <2>1
<1> QED BY <1>2, <1>3

\* The chunks of a packet are chunks.
LEMMA ChunksOfType ==
    ASSUME NEW p \in 1..MaxPackets, NEW k \in 1..MaxChunks
    PROVE  /\ ChunksOf(p, k) \in Seq(Chunk) /\ ChunksOf(p, k) # <<>>
           /\ DOMAIN ChunksOf(p, k) = 1..k
           /\ \A i \in 1..k : ChunksOf(p, k)[i][1] = p
<1>1. k \in Nat /\ MaxChunks \in Nat /\ k >= 1
  BY SendQueueAssumption
<1>2. \A i \in 1..k : <<p, i>> \in Chunk
  BY <1>1 DEF Chunk
<1>3. ChunksOf(p, k) \in [1..k -> Chunk]
  BY <1>2 DEF ChunksOf
<1>4. ChunksOf(p, k) \in Seq(Chunk) /\ Len(ChunksOf(p, k)) = k
  BY <1>1, <1>3, SeqDef DEF ChunksOf
<1> QED BY <1>1, <1>3, <1>4, EmptySeq DEF ChunksOf

-----------------------------------------------------------------------------
(* Steps after which there is no node, connection or chunk that was not    *)
(* there before.                                                           *)

Shrinks ==
    /\ \A n \in Nodes : at'[n] = "active" => at[n] = "active" /\ node'[n] = node[n]
    /\ \A c \in Conns : handle'[c].phase = "new" => handle[c].phase = "new"
    /\ found' \subseteq found
    /\ UNCHANGED <<owner, addressed, enqueued, submitted>>

LEMMA ShrinksKeeps ==
    ASSUME SInv, Shrinks PROVE Linked' /\ Ordered' /\ Addressed'
<1> USE DEF SInv
<1>1. Linked'
  BY DEF Typed, Linked, Shrinks
<1>2. Ordered'
  BY DEF Ordered, Linked, Shrinks
<1>3. \A c \in Conns : FindLocked(c)' \subseteq FindLocked(c)
  BY DEF Shrinks, FindLocked
<1>4. \A p \in DOMAIN addressed : addressed[p] \in Conns
  BY DEF Typed
<1>5. Addressed'
  <2>1. \A f \in found' :
          /\ f.packet \in DOMAIN addressed
          /\ handle'[addressed[f.packet]].phase # "new"
          /\ FindLocked(addressed[f.packet])' \subseteq {f.node}
    BY <1>3, <1>4 DEF Addressed, Shrinks
  <2>2. ASSUME NEW c \in Conns, NEW i \in DOMAIN enqueued[c], NEW p, p = enqueued[c][i][1]
        PROVE  /\ p \in DOMAIN addressed
               /\ handle'[addressed[p]].phase # "new"
               /\ addressed[p] = c \/ FindLocked(addressed[p])' = {}
    <3>1. /\ p \in DOMAIN addressed
          /\ handle[addressed[p]].phase # "new"
          /\ addressed[p] = c \/ FindLocked(addressed[p]) = {}
      BY <2>2 DEF Addressed
    <3> QED BY <1>3, <1>4, <3>1 DEF Shrinks
  <2>3. UNCHANGED <<addressed, enqueued>>
    BY DEF Shrinks
  <2> QED BY <2>1, <2>2, <2>3 DEF Addressed, FindLocked
<1> QED BY <1>1, <1>2, <1>5

-----------------------------------------------------------------------------
(* The steps.                                                              *)

LEMMA InitSInv == Init => SInv
<1> SUFFICES ASSUME Init PROVE SInv
  OBVIOUS
<1>1. Typed
  BY SendQueueAssumption, EmptySeq DEF Init, Typed, Conns, Generations
<1>2. Linked /\ Addressed
  BY EmptySeq DEF Init, Linked, Addressed, Conns
<1>3. Ordered
  BY EmptySeq, <<>> \in Seq(Chunk), <<>> \o <<>> = <<>> DEF Init, Ordered, Conns
<1> QED BY <1>1, <1>2, <1>3 DEF SInv

\* A released node leaves what was queued behind, and nothing else.
LEMMA ReleaseTypes ==
    ASSUME Typed, NEW n, Release(n)
    PROVE  /\ at' \in [Nodes -> {"free", "active", "released"}]
           /\ node' \in [Nodes -> NodeState]
           /\ \A m \in Nodes : /\ node'[m].generation = node[m].generation
                               /\ at'[m] # "active" => node'[m].send_queue = <<>>
           /\ \A m \in Nodes : at'[m] = "active" =>
                 at[m] = "active" /\ node'[m] = node[m]
<1>1. <<>> \in Seq(Chunk)
  BY EmptySeq
<1>2. CASE at[n] = "active" /\ n \in Nodes
  <2>1. /\ at' = [at EXCEPT ![n] = "released"]
        /\ node' = [node EXCEPT ![n].send_queue = <<>>]
    BY <1>2 DEF Release
  <2>2. /\ at \in [Nodes -> {"free", "active", "released"}]
        /\ node \in [Nodes -> NodeState]
        /\ \A m \in Nodes : at[m] # "active" => node[m].send_queue = <<>>
    BY DEF Typed
  <2>3. /\ node' \in [Nodes -> NodeState]
        /\ \A m \in Nodes : m # n => node'[m] = node[m] /\ at'[m] = at[m]
        /\ node'[n].send_queue = <<>> /\ node'[n].generation = node[n].generation
        /\ at' \in [Nodes -> {"free", "active", "released"}] /\ at'[n] = "released"
    BY <1>1, <1>2, <2>1, <2>2
  <2> QED BY <2>2, <2>3
<1>3. CASE at[n] = "active" /\ n \notin Nodes
  BY <1>3, ZenonT(40) DEF Typed, Release
<1>4. CASE at[n] # "active"
  BY <1>4 DEF Typed, Release
<1> QED BY <1>2, <1>3, <1>4

LEMMA AcceptKeeps ==
    ASSUME SInv, NEW c \in Conns, Accept(c) PROVE SInv'
<1> USE DEF SInv
<1>0. /\ \A b \in Conns : handle[b].phase = "new" => b >= c
      /\ c \in Nat /\ c <= MaxConns /\ Len(owner) \in Nat /\ MaxConns \in Nat
      /\ handle[c].phase = "new" /\ Len(owner) < c
  <2>1. handle[c].phase = "new" /\ \A b \in 1..(c - 1) : handle[b].phase # "new"
    BY DEF Accept
  <2>2. c \in Nat /\ c >= 1 /\ c <= MaxConns /\ MaxConns \in Nat
    BY SendQueueAssumption DEF Conns
  <2>3. Len(owner) < c /\ Len(owner) \in Nat
    BY <2>1, LenProperties DEF Typed
  <2>4. \A b \in Conns : b < c => b \in 1..(c - 1)
    BY <2>2 DEF Conns
  <2>5. \A b \in Conns : handle[b].phase = "new" => b >= c
    BY <2>1, <2>2, <2>4 DEF Conns
  <2> QED BY <2>1, <2>2, <2>3, <2>5
<1>1. CASE \A n \in Nodes : at[n] # "free"
  <2>1. handle' = [handle EXCEPT ![c] = Closed]
    BY <1>1 DEF Accept
  <2>2. UNCHANGED <<at, node, owner, found, drains, notifying, addressed,
                    enqueued, submitted>>
    BY <1>1 DEF Accept
  <2>3. Typed'
    BY <2>1, <2>2, <1>0 DEF Typed, Closed
  <2>4. Shrinks
    BY <2>1, <2>2 DEF Typed, Shrinks, Closed
  <2> QED BY <2>3, <2>4, ShrinksKeeps
<1>2. ASSUME NEW n \in Nodes, at[n] = "free",
             owner' = Append(owner, c),
             node' = [node EXCEPT ![n] = [id |-> c, generation |-> Len(owner'),
                                          send_queue |-> <<>>]],
             \/ /\ at' = [at EXCEPT ![n] = "active"]
                /\ handle' = [handle EXCEPT ![c].phase = "open", ![c].ctx = n]
             \/ handle' = [handle EXCEPT ![c] = Closed] /\ at' = at,
             UNCHANGED <<found, drains, notifying, addressed, enqueued, submitted>>
      PROVE  SInv'
  <2>1. /\ owner' \in Seq(Conns) /\ Len(owner') = Len(owner) + 1
        /\ owner'[Len(owner) + 1] = c
        /\ \A g \in DOMAIN owner : g \in DOMAIN owner' /\ owner'[g] = owner[g]
        /\ Len(owner) + 1 \in DOMAIN owner'
    <3>1. owner \in Seq(Conns) /\ owner' = Append(owner, c)
      BY <1>2 DEF Typed
    <3> QED BY <3>1, AppendProperties, LenProperties
  <2>2. /\ handle' \in [Conns -> HandleState]
        /\ handle'[c].phase # "new"
        /\ \A b \in Conns : b # c => handle'[b] = handle[b]
    <3>1. CASE handle' = [handle EXCEPT ![c].phase = "open", ![c].ctx = n]
      <4> DEFINE after == [handle[c] EXCEPT !.phase = "open", !.ctx = n]
      <4>1. after \in HandleState /\ after.phase = "open"
        <5>1. handle[c] \in HandleState /\ n \in Nodes \cup {None}
          BY <1>2 DEF Typed
        <5> QED BY <5>1 DEF HandleState
      <4>2. handle' = [handle EXCEPT ![c] = after]
        BY <3>1, Zenon
      <4> QED BY <4>1, <4>2 DEF Typed
    <3>2. CASE handle' = [handle EXCEPT ![c] = Closed]
      BY <3>2 DEF Typed, Closed
    <3> QED BY <1>2, <3>1, <3>2
  <2>3. /\ at' \in [Nodes -> {"free", "active", "released"}]
        /\ \A m \in Nodes : m # n => at'[m] = at[m] /\ node'[m] = node[m]
        /\ node'[n] = [id |-> c, generation |-> Len(owner) + 1, send_queue |-> <<>>]
    BY <1>2, <2>1 DEF Typed
  <2>4. node' \in [Nodes -> NodeState]
    BY <1>2, <2>1, <1>0, EmptySeq DEF Typed
  <2>5. Typed'
    <3>1. \A m \in Nodes : /\ node'[m].generation <= Len(owner')
                           /\ at'[m] # "active" => node'[m].send_queue = <<>>
      <4>1. ASSUME NEW m \in Nodes, m # n
            PROVE  /\ node'[m].generation <= Len(owner')
                   /\ at'[m] # "active" => node'[m].send_queue = <<>>
        <5>1. node[m].generation <= Len(owner) /\ node[m].generation \in Nat
          BY DEF Typed
        <5> QED BY <4>1, <5>1, <2>1, <2>3, <1>0 DEF Typed
      <4>2. node'[n].generation <= Len(owner') /\ node'[n].send_queue = <<>>
        BY <2>1, <2>3, <1>0
      <4> QED BY <4>1, <4>2
    <3>2. Len(owner') <= MaxConns /\ \A b \in Conns : handle'[b].phase = "new" => Len(owner') < b
      <4>1. ASSUME NEW b \in Conns, handle'[b].phase = "new" PROVE Len(owner') < b
        <5>1. b # c /\ handle[b].phase = "new"
          BY <4>1, <2>2
        <5>2. b > c /\ b \in Nat
          BY <5>1, <1>0 DEF Conns
        <5> QED BY <5>2, <1>0, <2>1
      <4> QED BY <4>1, <1>0, <2>1
    <3> QED BY <1>2, <2>1, <2>2, <2>3, <2>4, <3>1, <3>2 DEF Typed
  <2>6. Linked'
    <3>1. ASSUME NEW m \in Nodes, at'[m] = "active"
          PROVE  /\ node'[m].id \in Conns /\ handle'[node'[m].id].phase # "new"
                 /\ node'[m].generation \in DOMAIN owner'
                 /\ owner'[node'[m].generation] = node'[m].id
      <4>1. CASE m = n
        BY <4>1, <2>1, <2>2, <2>3
      <4>2. CASE m # n
        <5>1. /\ at[m] = "active" /\ node'[m] = node[m]
          BY <3>1, <4>2, <2>3
        <5>2. /\ node[m].id \in Conns /\ handle[node[m].id].phase # "new"
              /\ node[m].generation \in DOMAIN owner
              /\ owner[node[m].generation] = node[m].id
          BY <5>1 DEF Linked
        <5> QED BY <5>1, <5>2, <2>1, <2>2, <1>0
      <4> QED BY <4>1, <4>2
    <3>2. ASSUME NEW l \in Nodes, NEW m \in Nodes, at'[l] = "active",
                 at'[m] = "active", node'[l].id = node'[m].id
          PROVE  l = m
      BY <3>2, <2>3, <1>0 DEF Linked
    <3> QED BY <3>1, <3>2 DEF Linked
  <2>7. Ordered'
    <3>1. enqueued[c] = <<>> /\ submitted[c] = <<>>
      BY <1>0 DEF Ordered
    <3>2. <<>> \o <<>> = <<>>
      OBVIOUS
    <3>3. \A m \in Nodes : at'[m] = "active" =>
             submitted[node'[m].id] \o node'[m].send_queue = enqueued[node'[m].id]
      <4>1. ASSUME NEW m \in Nodes, at'[m] = "active", m # n
            PROVE  submitted[node'[m].id] \o node'[m].send_queue = enqueued[node'[m].id]
        <5>1. at[m] = "active" /\ node'[m] = node[m]
          BY <4>1, <2>3
        <5> QED BY <5>1 DEF Ordered
      <4>2. submitted[node'[n].id] \o node'[n].send_queue = enqueued[node'[n].id]
        BY <2>3, <3>1, <3>2
      <4> QED BY <4>1, <4>2
    <3> QED BY <1>2, <3>3, <2>2 DEF Ordered
  <2>8. Addressed'
    <3>1. \A b \in Conns : b # c => FindLocked(b)' \subseteq FindLocked(b)
      BY <2>3 DEF FindLocked
    <3>2. \A p \in DOMAIN addressed : addressed[p] \in Conns
      BY DEF Typed
    <3>3. \A p \in DOMAIN addressed : handle[addressed[p]].phase # "new" =>
             /\ handle'[addressed[p]].phase # "new"
             /\ FindLocked(addressed[p])' \subseteq FindLocked(addressed[p])
      BY <3>1, <3>2, <2>2, <1>0, <1>2
    <3>4. \A f \in found :
            /\ f.packet \in DOMAIN addressed
            /\ handle'[addressed[f.packet]].phase # "new"
            /\ FindLocked(addressed[f.packet])' \subseteq {f.node}
      BY <3>3 DEF Addressed
    <3>5. ASSUME NEW b \in Conns, NEW i \in DOMAIN enqueued[b], NEW p, p = enqueued[b][i][1]
          PROVE  /\ p \in DOMAIN addressed
                 /\ handle'[addressed[p]].phase # "new"
                 /\ addressed[p] = b \/ FindLocked(addressed[p])' = {}
      <4>1. /\ p \in DOMAIN addressed
            /\ handle[addressed[p]].phase # "new"
            /\ addressed[p] = b \/ FindLocked(addressed[p]) = {}
        BY <3>5 DEF Addressed
      <4> QED BY <4>1, <3>3
    <3> QED BY <3>4, <3>5, <1>2 DEF Addressed, FindLocked
  <2> QED BY <2>5, <2>6, <2>7, <2>8
<1>3. CASE ~ \A n \in Nodes : at[n] # "free"
  <2>1. PICK n \in Nodes :
          /\ at[n] = "free" /\ owner' = Append(owner, c)
          /\ node' = [node EXCEPT ![n] = [id |-> c, generation |-> Len(owner'),
                                          send_queue |-> <<>>]]
          /\ \/ /\ at' = [at EXCEPT ![n] = "active"]
                /\ handle' = [handle EXCEPT ![c].phase = "open", ![c].ctx = n]
             \/ handle' = [handle EXCEPT ![c] = Closed] /\ at' = at
    BY <1>3 DEF Accept
  <2>2. UNCHANGED <<found, drains, notifying, addressed, enqueued, submitted>>
    BY DEF Accept
  <2> QED BY <1>2, <2>1, <2>2
<1> QED BY <1>1, <1>3

LEMMA ReleasesKeep ==
    ASSUME SInv, NEW c \in Conns, ReceiveFails(c) \/ BeforeClose(c) PROVE SInv'
<1> USE DEF SInv
<1>1. UNCHANGED <<found, drains, notifying, owner, addressed, enqueued, submitted>>
  BY DEF ReceiveFails, BeforeClose
<1>2. PICK n : Release(n)
  BY DEF ReceiveFails, BeforeClose
<1>3. /\ handle' \in [Conns -> HandleState]
      /\ \A b \in Conns : handle'[b].phase = "new" => handle[b].phase = "new"
  <2>1. CASE ReceiveFails(c)
    <3> DEFINE after == [handle[c] EXCEPT !.phase = "erred", !.cancelled = TRUE]
    <3>1. after \in HandleState /\ after.phase = "erred"
      BY DEF Typed, HandleState
    <3>2. handle' = [handle EXCEPT ![c] = after]
      BY <2>1, Zenon DEF ReceiveFails
    <3> QED BY <3>1, <3>2 DEF Typed
  <2>2. CASE BeforeClose(c)
    BY <2>2 DEF BeforeClose, Typed, Closed
  <2> QED BY <2>1, <2>2
<1>4. Typed'
  BY <1>1, <1>2, <1>3, ReleaseTypes DEF Typed
<1>5. Shrinks
  BY <1>1, <1>2, <1>3, ReleaseTypes DEF Shrinks
<1> QED BY <1>4, <1>5, ShrinksKeeps

LEMMA PutFreeNodeKeeps ==
    ASSUME SInv, NEW n \in Nodes, PutFreeNode(n) PROVE SInv'
<1>1. Typed'
  BY DEF SInv, Typed, PutFreeNode
<1>2. Shrinks
  BY DEF SInv, Typed, PutFreeNode, Shrinks
<1> QED BY <1>1, <1>2, ShrinksKeeps DEF SInv

\* The generation of the connection a node holds, if it holds one.
LEMMA GenerationType ==
    ASSUME SInv, NEW n
    PROVE  /\ GenerationOf(n) \in Generations \cup {0}
           /\ GenerationOf(n) # 0 => n \in Nodes
<1>1. CASE ~IsActive(n)
  BY <1>1 DEF GenerationOf
<1>2. CASE IsActive(n)
  <2>1. n \in Nodes /\ at[n] = "active"
    BY <1>2 DEF IsActive, FindLocked
  <2>2. node[n].generation \in DOMAIN owner
    BY <2>1 DEF SInv, Linked
  <2>3. DOMAIN owner = 1..Len(owner) /\ Len(owner) \in Nat /\ Len(owner) <= MaxConns
    BY LenProperties DEF SInv, Typed
  <2>4. node[n].generation \in Generations
    BY <2>2, <2>3, SendQueueAssumption DEF Generations, Conns
  <2> QED BY <1>2, <2>1, <2>4 DEF GenerationOf
<1> QED BY <1>1, <1>2

LEMMA SentCallbackKeeps ==
    ASSUME SInv, NEW c \in Conns, SentCallback(c) PROVE SInv'
<1> USE DEF SInv
<1>1. UNCHANGED <<at, node, found, notifying, owner, addressed, enqueued, submitted>>
  BY DEF SentCallback, Sent, OnSent, ClearSend
<1>2. /\ handle' \in [Conns -> HandleState]
      /\ \A b \in Conns : handle'[b].phase = "new" => handle[b].phase = "new"
      /\ drains' \in [Nodes \X Generations -> Nat]
  <2>1. CASE Sent(c)
    BY <2>1, ZenonT(40) DEF Sent, Typed
  <2>2. CASE OnSent(c)
    <3>1. PICK n, g : /\ g = GenerationOf(n)
                      /\ handle' = [handle EXCEPT ![c].slot = "returning", ![c].due = g]
                      /\ drains' = IF g = 0 THEN drains ELSE [drains EXCEPT ![<<n, g>>] = @ + 1]
      BY <2>2 DEF OnSent
    <3>2. g \in Generations \cup {0} /\ (g # 0 => n \in Nodes)
      BY <3>1, GenerationType
    <3>3. /\ handle' \in [Conns -> HandleState]
          /\ \A b \in Conns : handle'[b].phase = "new" => handle[b].phase = "new"
      <4>1. /\ handle' = [handle EXCEPT ![c].slot = "returning", ![c].due = g]
            /\ g \in Generations \cup {0}
            /\ handle \in [Conns -> HandleState]
        BY <3>1, <3>2 DEF Typed
      <4> QED BY <4>1, ZenonT(40)
    <3>4. drains' \in [Nodes \X Generations -> Nat]
      <4>1. drains \in [Nodes \X Generations -> Nat]
        BY DEF Typed
      <4>2. CASE g = 0
        BY <3>1, <4>1, <4>2
      <4>3. CASE g # 0
        <5>1. <<n, g>> \in Nodes \X Generations
          BY <3>2, <4>3
        <5>2. drains[<<n, g>>] + 1 \in Nat
          BY <4>1, <5>1
        <5> QED BY <3>1, <4>1, <4>3, <5>1, <5>2
      <4> QED BY <4>2, <4>3
    <3> QED BY <3>3, <3>4
  <2>3. CASE ClearSend(c)
    <3>1. /\ handle' = [handle EXCEPT ![c].slot = "free", ![c].due = 0]
          /\ handle \in [Conns -> HandleState]
      BY <2>3 DEF ClearSend, Typed
    <3>2. drains' \in [Nodes \X Generations -> Nat]
      BY <2>3 DEF ClearSend, Typed
    <3>3. /\ handle' \in [Conns -> HandleState]
          /\ \A b \in Conns : handle'[b].phase = "new" => handle[b].phase = "new"
      BY <3>1, ZenonT(40)
    <3> QED BY <3>2, <3>3
  <2> QED BY <2>1, <2>2, <2>3 DEF SentCallback
<1>3. Typed'
  BY <1>1, <1>2 DEF Typed
<1>4. Shrinks
  BY <1>1, <1>2 DEF Shrinks
<1> QED BY <1>3, <1>4, ShrinksKeeps

LEMMA DisableKeeps ==
    ASSUME SInv, NEW c \in Conns, Disable(c) PROVE SInv'
<1>1. Typed'
  BY ZenonT(40) DEF SInv, Typed, Disable
<1>2. Shrinks
  BY DEF SInv, Typed, Disable, Shrinks
<1> QED BY <1>1, <1>2, ShrinksKeeps DEF SInv

LEMMA NotifyAllKeeps ==
    ASSUME SInv, NotifyAll PROVE SInv'
<1>1. Typed'
  BY DEF SInv, Typed, NotifyAll
<1>2. Shrinks
  BY DEF NotifyAll, Shrinks
<1> QED BY <1>1, <1>2, ShrinksKeeps DEF SInv

LEMMA DisablePoolKeeps ==
    ASSUME SInv, DisablePool PROVE SInv'
<1>1. Typed'
  BY DEF SInv, Typed, DisablePool, Closed
<1>2. Shrinks
  BY DEF DisablePool, Shrinks, Closed
<1> QED BY <1>1, <1>2, ShrinksKeeps DEF SInv

LEMMA FreeNodesKeeps ==
    ASSUME SInv, FreeNodes PROVE SInv'
<1>1. /\ at' \in [Nodes -> {"free", "active", "released"}]
      /\ \A n \in Nodes : at'[n] = "free"
      /\ \A n \in Nodes : /\ node'[n].send_queue = <<>>
                          /\ node'[n].generation = node[n].generation
      /\ node' \in [Nodes -> NodeState]
  <2>1. /\ at' = [n \in Nodes |-> "free"]
        /\ node' = [n \in Nodes |-> [node[n] EXCEPT !.send_queue = <<>>]]
    BY DEF FreeNodes
  <2>2. \A n \in Nodes : node[n] \in NodeState
    BY DEF SInv, Typed
  <2>3. ASSUME NEW n \in Nodes
        PROVE  /\ node'[n].send_queue = <<>>
               /\ node'[n].generation = node[n].generation
               /\ node'[n] \in NodeState
    BY <2>1, <2>2, EmptySeq
  <2> QED BY <2>1, <2>3
<1>2. UNCHANGED <<handle, found, drains, notifying, owner, addressed,
                  enqueued, submitted>>
  BY DEF FreeNodes
<1>3. Typed'
  BY <1>1, <1>2 DEF SInv, Typed
<1>4. Shrinks
  BY <1>1, <1>2 DEF Shrinks
<1> QED BY <1>3, <1>4, ShrinksKeeps DEF SInv

LEMMA SendKeeps ==
    ASSUME SInv, NEW c \in Conns, Send(c) PROVE SInv'
<1> USE DEF SInv
<1>1. PICK n \in FindLocked(c) :
         found' = found \cup {[packet |-> Len(addressed) + 1, node |-> n]}
  BY DEF Send
<1>2. /\ addressed' = Append(addressed, c) /\ Len(addressed) < MaxPackets
      /\ UNCHANGED <<at, node, handle, drains, notifying, owner, enqueued, submitted>>
  BY DEF Send
<1>3. /\ addressed' \in Seq(Conns) /\ Len(addressed') = Len(addressed) + 1
      /\ addressed'[Len(addressed) + 1] = c
      /\ \A p \in DOMAIN addressed : p \in DOMAIN addressed' /\ addressed'[p] = addressed[p]
      /\ Len(addressed) + 1 \in DOMAIN addressed'
      /\ Len(addressed) \in Nat
  BY <1>2, AppendProperties, LenProperties DEF Typed
<1>4. n \in Nodes /\ at[n] = "active" /\ node[n].id = c
  BY DEF FindLocked
<1>5. Typed'
  <2>1. [packet |-> Len(addressed) + 1, node |-> n] \in [packet : 1..MaxPackets, node : Nodes]
    BY <1>2, <1>3, <1>4, SendQueueAssumption
  <2>2. Len(addressed') <= MaxPackets
    BY <1>2, <1>3, SendQueueAssumption
  <2> QED BY <1>1, <1>2, <1>3, <2>1, <2>2 DEF Typed
<1>6. Linked' /\ Ordered'
  BY <1>2 DEF Linked, Ordered
<1>7. Addressed'
  <2>1. \A b \in Conns : FindLocked(b)' = FindLocked(b)
    BY <1>2 DEF FindLocked
  <2>2. handle[c].phase # "new" /\ FindLocked(c) \subseteq {n}
    BY <1>4 DEF Linked, FindLocked
  <2>3. \A p \in DOMAIN addressed : addressed[p] \in Conns
    BY DEF Typed
  <2>4. ASSUME NEW f \in found'
        PROVE  /\ f.packet \in DOMAIN addressed'
               /\ handle[addressed'[f.packet]].phase # "new"
               /\ FindLocked(addressed'[f.packet]) \subseteq {f.node}
    <3>1. CASE f \in found
      BY <3>1, <1>3 DEF Addressed
    <3>2. CASE f = [packet |-> Len(addressed) + 1, node |-> n]
      BY <3>2, <1>3, <2>2
    <3> QED BY <1>1, <3>1, <3>2
  <2>5. ASSUME NEW b \in Conns, NEW i \in DOMAIN enqueued[b], NEW p, p = enqueued[b][i][1]
        PROVE  /\ p \in DOMAIN addressed'
               /\ handle[addressed'[p]].phase # "new"
               /\ addressed'[p] = b \/ FindLocked(addressed'[p]) = {}
    <3>1. /\ p \in DOMAIN addressed
          /\ handle[addressed[p]].phase # "new"
          /\ addressed[p] = b \/ FindLocked(addressed[p]) = {}
      BY <2>5 DEF Addressed
    <3> QED BY <3>1, <1>3
  <2> QED BY <2>4, <2>5, <1>2 DEF Addressed, FindLocked
<1> QED BY <1>5, <1>6, <1>7

\* A node queues more of its connection's chunks, or gives the first of them to
\* IoPool.
Queues(n, c, fresh, q) ==
    /\ at[n] = "active" /\ node[n].id = c
    /\ q = node[n].send_queue \o fresh
    /\ enqueued' = [enqueued EXCEPT ![c] = @ \o fresh]
    /\ Push(n, q) \/ (q # <<>> /\ Submit(n, q))
    /\ \A i \in DOMAIN fresh :
          LET p == fresh[i][1]
          IN  /\ p \in DOMAIN addressed
              /\ handle[addressed[p]].phase # "new"
              /\ addressed[p] = c \/ FindLocked(addressed[p]) = {}
    /\ found' \subseteq found /\ notifying' \in Nat
    /\ drains' \in [Nodes \X Generations -> Nat]
    /\ UNCHANGED <<at, owner, addressed>>

LEMMA QueueKeeps ==
    ASSUME SInv, NEW n \in Nodes, NEW c \in Conns, NEW fresh \in Seq(Chunk),
           NEW q, Queues(n, c, fresh, q)
    PROVE  SInv'
<1> USE DEF SInv
<1>0. /\ at[n] = "active" /\ node[n].id = c
      /\ at' = at /\ owner' = owner /\ addressed' = addressed
  BY DEF Queues
<1>1. /\ c \in Conns /\ handle[c].phase # "new"
      /\ submitted[c] \o node[n].send_queue = enqueued[c]
      /\ \A m \in Nodes : at[m] = "active" /\ m # n => node[m].id # c
  BY DEF Linked, Ordered, Queues
<1>2. /\ enqueued[c] \in Seq(Chunk) /\ submitted[c] \in Seq(Chunk)
      /\ node[n].send_queue \in Seq(Chunk) /\ q \in Seq(Chunk)
      /\ enqueued[c] \o fresh \in Seq(Chunk)
  BY <1>1, ConcatProperties DEF Typed, Queues
<1>3. submitted[c] \o q = enqueued[c] \o fresh
  <2>1. (submitted[c] \o node[n].send_queue) \o fresh
           = submitted[c] \o (node[n].send_queue \o fresh)
    <3>1. \A s, t, u \in Seq(Chunk) : (s \o t) \o u = s \o (t \o u)
      BY ConcatAssociative
    <3>2. fresh \in Seq(Chunk)
      OBVIOUS
    <3> QED BY <1>2, <3>1, <3>2, ZenonT(40)
  <2> QED BY <1>1, <2>1 DEF Queues
<1>4. /\ enqueued' \in [Conns -> Seq(Chunk)] /\ enqueued'[c] = enqueued[c] \o fresh
      /\ \A b \in Conns : b # c => enqueued'[b] = enqueued[b]
  BY <1>1, <1>2 DEF Typed, Queues
<1>5. PICK rest \in Seq(Chunk) :
         /\ node' = [node EXCEPT ![n].send_queue = rest]
         /\ submitted' \in [Conns -> Seq(Chunk)]
         /\ submitted'[c] \o rest = enqueued'[c]
         /\ \A b \in Conns : b # c => submitted'[b] = submitted[b]
  <2>1. CASE Push(n, q)
    BY <2>1, <1>2, <1>3, <1>4 DEF Push, Typed
  <2>2. CASE q # <<>> /\ Submit(n, q)
    <3>1. /\ submitted' = [submitted EXCEPT ![c] = Append(@, Head(q))]
          /\ node' = [node EXCEPT ![n].send_queue = Tail(q)]
      BY <2>2 DEF Submit, Queues
    <3>2. /\ Append(submitted[c], Head(q)) \o Tail(q) = submitted[c] \o q
          /\ Append(submitted[c], Head(q)) \in Seq(Chunk) /\ Tail(q) \in Seq(Chunk)
      BY <2>2, <1>2, HeadMoves, Zenon
    <3>3. /\ submitted' \in [Conns -> Seq(Chunk)]
          /\ submitted'[c] = Append(submitted[c], Head(q))
          /\ \A b \in Conns : b # c => submitted'[b] = submitted[b]
      BY <3>1, <3>2, <1>1 DEF Typed
    <3> QED BY <3>1, <3>2, <3>3, <1>3, <1>4
  <2> QED BY <2>1, <2>2 DEF Queues
<1>6. /\ handle' \in [Conns -> HandleState]
      /\ \A b \in Conns : handle'[b].phase = handle[b].phase
  <2>1. CASE handle' = handle
    BY <2>1 DEF Typed
  <2>2. CASE handle' = [handle EXCEPT ![c].slot = "inflight"]
    <3>1. handle \in [Conns -> HandleState]
      BY DEF Typed
    <3> QED BY <2>2, <3>1, <1>1
  <2> QED BY <2>1, <2>2 DEF Push, Submit, Queues
<1>7. /\ node' \in [Nodes -> NodeState]
      /\ node'[n].send_queue = rest
      /\ \A m \in Nodes : /\ node'[m].id = node[m].id
                          /\ node'[m].generation = node[m].generation
                          /\ m # n => node'[m] = node[m]
  <2>1. node \in [Nodes -> NodeState]
    BY DEF Typed
  <2> QED BY <1>5, <2>1
<1>8. Typed'
  <2>1. \A m \in Nodes : /\ node'[m].generation <= Len(owner)
                         /\ at[m] # "active" => node'[m].send_queue = <<>>
    BY <1>7 DEF Typed, Queues
  <2> QED BY <1>4, <1>5, <1>6, <1>7, <2>1 DEF Typed, Queues
<1>9. Linked'
  <2>1. \A m \in Nodes : at[m] = "active" =>
          /\ node'[m].id \in Conns /\ handle'[node'[m].id].phase # "new"
          /\ node'[m].generation \in DOMAIN owner
          /\ owner[node'[m].generation] = node'[m].id
    BY <1>6, <1>7 DEF Linked
  <2>2. \A l, m \in Nodes :
          at[l] = "active" /\ at[m] = "active" /\ node'[l].id = node'[m].id => l = m
    BY <1>7 DEF Linked
  <2> QED BY <1>0, <2>1, <2>2 DEF Linked
<1>10. Ordered'
  <2>1. ASSUME NEW m \in Nodes, at[m] = "active"
        PROVE  submitted'[node'[m].id] \o node'[m].send_queue = enqueued'[node'[m].id]
    <3>1. CASE m = n
      BY <3>1, <1>0, <1>5, <1>7
    <3>2. CASE m # n
      <4>1. node[m].id # c /\ node[m].id \in Conns /\ node'[m] = node[m]
        BY <2>1, <3>2, <1>1, <1>7 DEF Linked
      <4>2. submitted[node[m].id] \o node[m].send_queue = enqueued[node[m].id]
        BY <2>1 DEF Ordered
      <4> QED BY <4>1, <4>2, <1>4, <1>5
    <3> QED BY <3>1, <3>2
  <2>2. \A b \in Conns : \E r \in Seq(Chunk) : enqueued'[b] = submitted'[b] \o r
    <3>1. enqueued'[c] = submitted'[c] \o rest
      BY <1>5
    <3>2. \A b \in Conns : \E r \in Seq(Chunk) : enqueued[b] = submitted[b] \o r
      BY DEF Ordered
    <3>3. ASSUME NEW b \in Conns PROVE \E r \in Seq(Chunk) : enqueued'[b] = submitted'[b] \o r
      <4>1. CASE b = c
        BY <3>1, <4>1
      <4>2. CASE b # c
        BY <3>2, <4>2, <1>4, <1>5
      <4> QED BY <4>1, <4>2
    <3> QED BY <3>3
  <2>3. \A b \in Conns : handle'[b].phase = "new" =>
           enqueued'[b] = <<>> /\ submitted'[b] = <<>>
    BY <1>1, <1>4, <1>5, <1>6 DEF Ordered
  <2> QED BY <2>1, <2>2, <2>3 DEF Ordered, Queues
<1>11. Addressed'
  <2>1. \A b : FindLocked(b)' = FindLocked(b)
    BY <1>7 DEF FindLocked, Queues
  <2>2. \A p \in DOMAIN addressed : addressed[p] \in Conns
    BY DEF Typed
  <2>3. \A f \in found' : /\ f.packet \in DOMAIN addressed
                          /\ handle'[addressed[f.packet]].phase # "new"
                          /\ FindLocked(addressed[f.packet]) \subseteq {f.node}
    BY <1>6, <2>2 DEF Addressed, Queues
  <2>4. ASSUME NEW b \in Conns, NEW i \in DOMAIN enqueued'[b], NEW p, p = enqueued'[b][i][1]
        PROVE  /\ p \in DOMAIN addressed
               /\ handle'[addressed[p]].phase # "new"
               /\ addressed[p] = b \/ FindLocked(addressed[p]) = {}
    <3>1. CASE b # c \/ i \in DOMAIN enqueued[c]
      <4>1. i \in DOMAIN enqueued[b] /\ p = enqueued[b][i][1]
        <5>1. CASE b # c
          BY <5>1, <2>4, <1>4
        <5>2. CASE b = c /\ i \in DOMAIN enqueued[c]
          BY <5>2, <2>4, <1>2, <1>4, InConcat
        <5> QED BY <3>1, <5>1, <5>2
      <4>2. /\ p \in DOMAIN addressed
            /\ handle[addressed[p]].phase # "new"
            /\ addressed[p] = b \/ FindLocked(addressed[p]) = {}
        BY <4>1 DEF Addressed
      <4> QED BY <4>2, <1>6, <2>2
    <3>2. CASE b = c /\ i \notin DOMAIN enqueued[c]
      <4>1. PICK j \in DOMAIN fresh : enqueued'[c][i] = fresh[j]
        BY <3>2, <2>4, <1>2, <1>4, InConcat
      <4> QED BY <3>2, <4>1, <2>4, <1>6, <2>2 DEF Queues
    <3> QED BY <3>1, <3>2
  <2> QED BY <2>1, <2>3, <2>4 DEF Addressed, Queues
<1> QED BY <1>8, <1>9, <1>10, <1>11

LEMMA EnqueueKeeps ==
    ASSUME SInv, NEW f \in found, NEW k \in 1..MaxChunks, Enqueue(f, k) PROVE SInv'
<1> USE DEF SInv
<1>0. /\ f.node \in Nodes /\ f.packet \in 1..MaxPackets
      /\ found' \subseteq found
      /\ UNCHANGED <<at, drains, notifying, owner, addressed>>
  BY DEF Enqueue, Typed
<1>1. CASE ~IsActive(f.node)
  <2>1. UNCHANGED <<node, handle, enqueued, submitted>>
    BY <1>1 DEF Enqueue
  <2>2. Typed'
    BY <1>0, <2>1 DEF Typed
  <2>3. Shrinks
    BY <1>0, <2>1 DEF Shrinks
  <2> QED BY <2>2, <2>3, ShrinksKeeps
<1>2. CASE IsActive(f.node)
  <2> DEFINE n == f.node
             c == node[n].id
             fresh == ChunksOf(f.packet, k)
  <2>1. at[n] = "active" /\ c \in Conns
    BY <1>2 DEF IsActive, FindLocked, Linked
  <2>2. /\ fresh \in Seq(Chunk) /\ fresh # <<>>
        /\ \A i \in DOMAIN fresh : fresh[i][1] = f.packet
    BY <1>0, ChunksOfType
  <2>3. /\ f.packet \in DOMAIN addressed
        /\ handle[addressed[f.packet]].phase # "new"
        /\ addressed[f.packet] = c \/ FindLocked(addressed[f.packet]) = {}
    BY DEF Addressed, FindLocked
  <2>4. /\ enqueued' = [enqueued EXCEPT ![c] = @ \o fresh]
        /\ IF node[n].send_queue = <<>> /\ CanSubmit(c) THEN Submit(n, fresh)
           ELSE Push(n, node[n].send_queue \o fresh)
    BY <1>2 DEF Enqueue
  <2>5. drains' \in [Nodes \X Generations -> Nat] /\ notifying' \in Nat
    BY <1>0 DEF Typed
  <2> HIDE DEF fresh
  <2>6. CASE node[n].send_queue = <<>> /\ CanSubmit(c)
    <3>1. node[n].send_queue \o fresh = fresh
      BY <2>2, <2>6, ConcatEmptySeq
    <3>2. fresh # <<>> /\ Submit(n, fresh)
      BY <2>2, <2>4, <2>6
    <3> HIDE DEF c
    <3>3. Queues(n, c, fresh, fresh)
      BY <1>0, <2>1, <2>2, <2>3, <2>4, <2>5, <3>1, <3>2 DEF Queues, c
    <3> QED BY <1>0, <2>1, <2>2, <3>3, QueueKeeps
  <2>7. CASE ~(node[n].send_queue = <<>> /\ CanSubmit(c))
    <3>1. Push(n, node[n].send_queue \o fresh)
      BY <2>4, <2>7
    <3> HIDE DEF c
    <3>2. Queues(n, c, fresh, node[n].send_queue \o fresh)
      BY <1>0, <2>1, <2>2, <2>3, <2>4, <2>5, <3>1 DEF Queues, c
    <3> QED BY <1>0, <2>1, <2>2, <3>2, QueueKeeps
  <2> QED BY <2>6, <2>7
<1> QED BY <1>1, <1>2

\* A drain thread that ends was there.
LEMMA DrainEndsTypes ==
    ASSUME Typed, NEW n \in Nodes, NEW g \in Generations, Awake(n, g)
    PROVE  /\ drains[<<n, g>>] \in Nat /\ drains[<<n, g>>] > 0
           /\ DrainEnds(n, g) =>
                 drains' \in [Nodes \X Generations -> Nat] /\ notifying' \in Nat
<1> DEFINE calling == {c \in Conns : /\ handle[c].slot = "returning"
                                     /\ handle[c].ctx = n /\ handle[c].due = g}
<1>1. IsFiniteSet(calling)
  <2>1. IsFiniteSet(Conns)
    BY SendQueueAssumption, FS_Interval DEF Conns
  <2> QED BY <2>1, FS_Subset
<1>2. Cardinality(calling) \in Nat
  BY <1>1, FS_CardinalityType
<1>3. <<n, g>> \in Nodes \X Generations /\ drains \in [Nodes \X Generations -> Nat]
      /\ notifying \in Nat
  BY DEF Typed
<1>4. drains[<<n, g>>] \in Nat
  BY <1>3
<1>5. drains[<<n, g>>] > 0
  <2> HIDE DEF calling
  <2>1. drains[<<n, g>>] > IF PromptCallback THEN Cardinality(calling) ELSE 0
    BY DEF Awake, calling
  <2> QED BY <2>1, <1>2, <1>4
<1>6. ASSUME DrainEnds(n, g)
      PROVE  drains' \in [Nodes \X Generations -> Nat] /\ notifying' \in Nat
  <2>1. drains[<<n, g>>] - 1 \in Nat
    BY <1>4, <1>5
  <2>2. drains' = [drains EXCEPT ![<<n, g>>] = @ - 1]
    BY <1>6 DEF DrainEnds
  <2>3. notifying' \in {notifying, notifying + 1}
    BY <1>6 DEF DrainEnds
  <2> QED BY <2>1, <2>2, <2>3, <1>3
<1> QED BY <1>4, <1>5, <1>6

LEMMA DrainKeeps ==
    ASSUME SInv, NEW n \in Nodes, NEW g \in Generations, Drain(n, g) PROVE SInv'
<1> USE DEF SInv
<1>0. Awake(n, g) /\ UNCHANGED <<at, found, owner, addressed, enqueued>>
  BY DEF Drain
<1>1. CASE UNCHANGED <<node, handle, submitted>> /\ DrainEnds(n, g)
  <2>1. Typed'
    BY <1>0, <1>1, DrainEndsTypes DEF Typed
  <2>2. Shrinks
    BY <1>0, <1>1 DEF Shrinks
  <2> QED BY <2>1, <2>2, ShrinksKeeps
<1>2. CASE UNCHANGED <<node, handle, submitted, drains, notifying>>
  <2>1. Typed'
    BY <1>0, <1>2 DEF Typed
  <2>2. Shrinks
    BY <1>0, <1>2 DEF Shrinks
  <2> QED BY <2>1, <2>2, ShrinksKeeps
<1>3. CASE /\ IsActive(n) /\ node[n].send_queue # <<>>
           /\ DrainEnds(n, g) /\ Submit(n, node[n].send_queue)
  <2> DEFINE c == node[n].id
             q == node[n].send_queue
  <2>1. at[n] = "active" /\ c \in Conns /\ q \in Seq(Chunk) /\ <<>> \in Seq(Chunk)
    BY <1>3, EmptySeq DEF IsActive, FindLocked, Linked, Typed
  <2>2. q = q \o <<>>
    BY <2>1, ConcatEmptySeq
  <2>3. enqueued \in [Conns -> Seq(Chunk)] /\ enqueued[c] \o <<>> = enqueued[c]
    BY <2>1, ConcatEmptySeq DEF Typed
  <2>4. enqueued' = [enqueued EXCEPT ![c] = @ \o <<>>]
    BY <1>0, <2>1, <2>3
  <2>5. q # <<>> /\ Submit(n, q) /\ found' = found
    BY <1>0, <1>3
  <2>6. drains' \in [Nodes \X Generations -> Nat] /\ notifying' \in Nat
    BY <1>0, <1>3, DrainEndsTypes
  <2>7. Queues(n, c, <<>>, q)
    <3>1. \A i \in DOMAIN <<>> : FALSE
      OBVIOUS
    <3>2. /\ at[n] = "active" /\ c = node[n].id /\ q = node[n].send_queue
          /\ UNCHANGED <<at, owner, addressed>>
      BY <1>0, <2>1
    <3> HIDE DEF c, q
    <3> QED BY <2>2, <2>4, <2>5, <2>6, <3>1, <3>2 DEF Queues
  <2> HIDE DEF c, q
  <2> QED BY <2>1, <2>7, QueueKeeps
<1> QED BY <1>1, <1>2, <1>3 DEF Drain

LEMMA NextKeeps == SInv /\ [Next]_vars => SInv'
<1> SUFFICES ASSUME SInv, [Next]_vars PROVE SInv'
  OBVIOUS
<1>1. CASE UNCHANGED vars
  <2>1. Typed'
    BY <1>1 DEF SInv, Typed, vars
  <2>2. Shrinks
    BY <1>1 DEF Shrinks, vars
  <2> QED BY <2>1, <2>2, ShrinksKeeps DEF SInv
<1>2. ASSUME NEW c \in Conns, Callback(c) \/ Send(c) \/ Disable(c) PROVE SInv'
  BY <1>2, AcceptKeeps, ReleasesKeep, SentCallbackKeeps, SendKeeps, DisableKeeps
     DEF Callback
<1>3. CASE Sends
  BY <1>3, EnqueueKeeps DEF Sends
<1>4. CASE Drains
  BY <1>4, DrainKeeps DEF Drains
<1>5. CASE Puts
  BY <1>5, PutFreeNodeKeeps DEF Puts
<1>6. CASE NotifyAll
  BY <1>6, NotifyAllKeeps
<1> QED BY <1>1, <1>2, <1>3, <1>4, <1>5, <1>6 DEF Next

-----------------------------------------------------------------------------
(* What is queued is left to nobody.                                       *)

\* The callbacks of n that have yet to return, of those that have scheduled a
\* drain of generation g.
RunningFor(n, g) == {c \in Conns : /\ handle[c].slot = "returning"
                                   /\ handle[c].ctx = n /\ handle[c].due = g}

\* A handle that is still new sends nothing.
NewSendsNothing ==
    \A c \in Conns : handle[c].phase = "new" => handle[c].slot = "free"

\* While callbacks are prompt, the drain that each has scheduled is asleep
\* until it returns.
DrainPerCallback ==
    PromptCallback => \A n \in Nodes, g \in Generations :
                         Cardinality(RunningFor(n, g)) <= drains[<<n, g>>]

\* A live connection has its own node as the context of its callbacks, and the
\* one that is returning has scheduled a drain of its generation.
OwnContext ==
    \A n \in Nodes : \A c \in {node[n].id} :
       at[n] = "active" /\ ~handle[c].cancelled =>
          /\ handle[c].ctx = n
          /\ handle[c].slot = "returning" => handle[c].due = node[n].generation

QInv == NewSendsNothing /\ DrainPerCallback /\ OwnContext /\ QueueServed

LEMMA InitQInv == ASSUME Init PROVE QInv
<1>1. NewSendsNothing /\ OwnContext /\ QueueServed
  BY DEF Init, NewSendsNothing, OwnContext, QueueServed
<1>2. ASSUME NEW n \in Nodes, NEW g \in Generations
      PROVE  Cardinality(RunningFor(n, g)) <= drains[<<n, g>>]
  <2>1. RunningFor(n, g) = {} /\ drains[<<n, g>>] = 0
    BY DEF Init, RunningFor
  <2> QED BY <2>1, FS_EmptySet
<1> QED BY <1>1, <1>2 DEF QInv, DrainPerCallback

LEMMA RunningIsFinite ==
    ASSUME NEW n, NEW g
    PROVE  IsFiniteSet(RunningFor(n, g)) /\ Cardinality(RunningFor(n, g)) \in Nat
<1>1. IsFiniteSet(Conns)
  BY SendQueueAssumption, FS_Interval DEF Conns
<1>2. IsFiniteSet(RunningFor(n, g))
  BY <1>1, FS_Subset DEF RunningFor
<1> QED BY <1>2, FS_CardinalityType

\* Callbacks that return and drains that are scheduled keep a drain for each
\* callback.
LEMMA FewerRunning ==
    ASSUME Typed, Typed', DrainPerCallback,
           \A n \in Nodes, g \in Generations :
              /\ RunningFor(n, g)' \subseteq RunningFor(n, g)
              /\ drains[<<n, g>>] <= drains'[<<n, g>>]
    PROVE  DrainPerCallback'
<1> SUFFICES ASSUME PromptCallback, NEW n \in Nodes, NEW g \in Generations
             PROVE  Cardinality(RunningFor(n, g)') <= drains'[<<n, g>>]
  BY DEF DrainPerCallback
<1>1. Cardinality(RunningFor(n, g)) <= drains[<<n, g>>]
  BY DEF DrainPerCallback
<1>2. PICK few, many : few = RunningFor(n, g)' /\ many = RunningFor(n, g)
  OBVIOUS
<1>3. IsFiniteSet(many) /\ Cardinality(many) \in Nat /\ few \subseteq many
  BY <1>2, RunningIsFinite
<1>4. Cardinality(few) <= Cardinality(many) /\ Cardinality(few) \in Nat
  BY <1>3, FS_Subset, FS_CardinalityType
<1>5. /\ drains[<<n, g>>] \in Nat /\ drains'[<<n, g>>] \in Nat
      /\ drains[<<n, g>>] <= drains'[<<n, g>>]
  BY DEF Typed
<1>6. Cardinality(many) <= drains[<<n, g>>]
  BY <1>1, <1>2
<1>7. Cardinality(few) <= drains'[<<n, g>>]
  BY <1>3, <1>4, <1>5, <1>6
<1> QED BY <1>2, <1>7

\* Steps that schedule, send and queue nothing, and at most close handles.
Settles ==
    /\ drains' = drains
    /\ \A n \in Nodes : at'[n] = "active" => at[n] = "active" /\ node'[n] = node[n]
    /\ \A c \in Conns :
          \/ handle'[c].slot = "free" /\ handle'[c].cancelled
          \/ /\ handle'[c].slot = handle[c].slot /\ handle'[c].ctx = handle[c].ctx
             /\ handle'[c].due = handle[c].due
             /\ handle'[c].phase = "new" => handle[c].phase = "new"
             /\ handle[c].cancelled => handle'[c].cancelled

LEMMA SettlesKeeps ==
    ASSUME SInv, SInv', QInv, Settles PROVE QInv'
<1>1. NewSendsNothing'
  BY DEF QInv, NewSendsNothing, Settles
<1>2. DrainPerCallback'
  <2>1. \A n \in Nodes, g \in Generations : RunningFor(n, g)' \subseteq RunningFor(n, g)
    BY DEF RunningFor, Settles
  <2>2. \A n \in Nodes, g \in Generations : drains[<<n, g>>] <= drains'[<<n, g>>]
    BY DEF Settles, SInv, Typed
  <2> QED BY <2>1, <2>2, FewerRunning DEF QInv, SInv
<1>3. ASSUME NEW n \in Nodes, NEW c, c = node'[n].id, at'[n] = "active",
             ~handle'[c].cancelled
      PROVE  /\ c \in Conns /\ c = node[n].id /\ at[n] = "active" /\ node'[n] = node[n]
             /\ ~handle[c].cancelled
             /\ handle'[c].slot = handle[c].slot /\ handle'[c].ctx = handle[c].ctx
             /\ handle'[c].due = handle[c].due
  <2>1. at[n] = "active" /\ node'[n] = node[n] /\ c = node[n].id
    BY <1>3 DEF Settles
  <2>2. c \in Conns
    BY <2>1 DEF SInv, Linked
  <2> QED BY <1>3, <2>1, <2>2 DEF Settles
<1>4. OwnContext'
  BY <1>3 DEF QInv, OwnContext
<1>5. QueueServed'
  <2> SUFFICES ASSUME PromptCallback, NEW n \in Nodes, NEW c, c = node'[n].id,
                      at'[n] = "active", node'[n].send_queue # <<>>, ~handle'[c].cancelled
               PROVE  \/ handle'[c].slot \in {"inflight", "callback"}
                      \/ drains'[<<n, node'[n].generation>>] > 0
    BY DEF QueueServed
  <2>1. \/ handle[c].slot \in {"inflight", "callback"}
        \/ drains[<<n, node[n].generation>>] > 0
    BY <1>3 DEF QInv, QueueServed
  <2> QED BY <1>3, <2>1 DEF Settles
<1> QED BY <1>1, <1>2, <1>4, <1>5 DEF QInv

LEMMA AcceptServes ==
    ASSUME SInv, SInv', QInv, NEW c \in Conns, Accept(c) PROVE QInv'
<1>1. CASE handle' = [handle EXCEPT ![c] = Closed] /\ UNCHANGED <<at, drains>>
  <2>1. \A n \in Nodes : at'[n] = "active" => node'[n] = node[n]
    BY <1>1 DEF Accept, SInv, Typed
  <2>2. Settles
    BY <1>1, <2>1 DEF Settles, SInv, Typed, Closed
  <2> QED BY <2>2, SettlesKeeps
<1>2. ASSUME NEW n \in Nodes, at[n] = "free", UNCHANGED drains,
             at' = [at EXCEPT ![n] = "active"],
             node' = [node EXCEPT ![n] = [id |-> c, generation |-> Len(owner'),
                                          send_queue |-> <<>>]],
             handle' = [handle EXCEPT ![c].phase = "open", ![c].ctx = n]
      PROVE  QInv'
  <2>1. handle[c].phase = "new" /\ handle[c].slot = "free"
    BY DEF Accept, QInv, NewSendsNothing
  <2>2. /\ handle'[c].phase = "open" /\ handle'[c].ctx = n
        /\ handle'[c].slot = "free"
        /\ \A b \in Conns : b # c => handle'[b] = handle[b]
    BY <1>2, <2>1, ZenonT(40) DEF SInv, Typed
  <2>3. /\ node'[n].id = c /\ node'[n].send_queue = <<>>
        /\ \A m \in Nodes : m # n => node'[m] = node[m] /\ at'[m] = at[m]
    BY <1>2 DEF SInv, Typed
  <2>4. \A m \in Nodes : at[m] = "active" => node[m].id \in Conns /\ node[m].id # c
    BY <2>1 DEF SInv, Linked
  <2>5. NewSendsNothing'
    BY <2>2 DEF QInv, NewSendsNothing
  <2>6. DrainPerCallback'
    <3>1. \A m \in Nodes, g \in Generations : RunningFor(m, g)' \subseteq RunningFor(m, g)
      BY <2>2 DEF RunningFor
    <3>2. \A m \in Nodes, g \in Generations : drains[<<m, g>>] <= drains'[<<m, g>>]
      BY <1>2 DEF SInv, Typed
    <3> QED BY <3>1, <3>2, FewerRunning DEF QInv, SInv
  <2>7. ASSUME NEW m \in Nodes, m # n, at'[m] = "active"
        PROVE  at[m] = "active" /\ node'[m] = node[m] /\ handle'[node[m].id] = handle[node[m].id]
    BY <2>2, <2>3, <2>4, <2>7
  <2>8. OwnContext'
    BY <2>2, <2>3, <2>7 DEF QInv, OwnContext
  <2>9. QueueServed'
    <3> SUFFICES ASSUME PromptCallback, NEW m \in Nodes, NEW b, b = node'[m].id,
                        at'[m] = "active", node'[m].send_queue # <<>>, ~handle'[b].cancelled
                 PROVE  \/ handle'[b].slot \in {"inflight", "callback"}
                        \/ drains'[<<m, node'[m].generation>>] > 0
      BY DEF QueueServed
    <3>1. m # n
      BY <2>3
    <3>2. at[m] = "active" /\ node'[m] = node[m] /\ handle'[b] = handle[b]
      BY <2>7, <3>1
    <3>3. \/ handle[b].slot \in {"inflight", "callback"}
          \/ drains[<<m, node[m].generation>>] > 0
      BY <3>2 DEF QInv, QueueServed
    <3> QED BY <1>2, <3>2, <3>3
  <2> QED BY <2>5, <2>6, <2>8, <2>9 DEF QInv
<1>3. CASE ~ \A n \in Nodes : at[n] # "free"
  <2>1. PICK n \in Nodes :
          /\ at[n] = "free"
          /\ node' = [node EXCEPT ![n] = [id |-> c, generation |-> Len(owner'),
                                          send_queue |-> <<>>]]
          /\ \/ /\ at' = [at EXCEPT ![n] = "active"]
                /\ handle' = [handle EXCEPT ![c].phase = "open", ![c].ctx = n]
             \/ handle' = [handle EXCEPT ![c] = Closed] /\ at' = at
    BY <1>3 DEF Accept
  <2>2. UNCHANGED drains
    BY DEF Accept
  <2>3. CASE at' = [at EXCEPT ![n] = "active"]
             /\ handle' = [handle EXCEPT ![c].phase = "open", ![c].ctx = n]
    BY <1>2, <2>1, <2>2, <2>3
  <2>4. CASE handle' = [handle EXCEPT ![c] = Closed] /\ at' = at
    <3>1. \A m \in Nodes : at'[m] = "active" => at[m] = "active" /\ node'[m] = node[m]
      BY <2>1, <2>4 DEF SInv, Typed
    <3>2. Settles
      BY <2>2, <2>4, <3>1 DEF Settles, SInv, Typed, Closed
    <3> QED BY <3>2, SettlesKeeps
  <2> QED BY <2>1, <2>3, <2>4
<1> QED BY <1>1, <1>3 DEF Accept

LEMMA SettlingServes ==
    ASSUME SInv, SInv', QInv,
           \/ \E c \in Conns : ReceiveFails(c) \/ BeforeClose(c) \/ Send(c) \/ Disable(c)
           \/ Puts \/ NotifyAll \/ DisablePool \/ FreeNodes
           \/ UNCHANGED vars
    PROVE  QInv'
<1> USE DEF Puts
<1>1. drains' = drains
  BY DEF ReceiveFails, BeforeClose, Send, Disable, PutFreeNode, NotifyAll,
         DisablePool, FreeNodes, vars
<1>2. \A m \in Nodes : at'[m] = "active" => at[m] = "active" /\ node'[m] = node[m]
  <2>1. CASE \E c \in Conns : ReceiveFails(c) \/ BeforeClose(c)
    <3>1. PICK l : Release(l)
      BY <2>1 DEF ReceiveFails, BeforeClose
    <3> QED BY <3>1, ReleaseTypes DEF SInv
  <2>2. CASE Puts
    BY <2>2 DEF PutFreeNode, SInv, Typed
  <2>3. CASE FreeNodes
    BY <2>3 DEF FreeNodes
  <2> QED BY <2>1, <2>2, <2>3 DEF Send, Disable, NotifyAll, DisablePool, vars
<1>3. ASSUME NEW b \in Conns
      PROVE  \/ handle'[b].slot = "free" /\ handle'[b].cancelled
             \/ /\ handle'[b].slot = handle[b].slot /\ handle'[b].ctx = handle[b].ctx
                /\ handle'[b].due = handle[b].due
                /\ handle'[b].phase = "new" => handle[b].phase = "new"
                /\ handle[b].cancelled => handle'[b].cancelled
  <2>0. handle \in [Conns -> HandleState]
    BY DEF SInv, Typed
  <2>1. CASE \E c \in Conns : ReceiveFails(c)
    <3>1. PICK c \in Conns : ReceiveFails(c)
      BY <2>1
    <3> QED BY <2>0, <3>1, ZenonT(40) DEF ReceiveFails
  <2>2. CASE \E c \in Conns : BeforeClose(c)
    <3>1. PICK c \in Conns : BeforeClose(c)
      BY <2>2
    <3> QED BY <2>0, <3>1 DEF BeforeClose, Closed
  <2>3. CASE \E c \in Conns : Disable(c)
    <3>1. PICK c \in Conns : Disable(c)
      BY <2>3
    <3> QED BY <2>0, <3>1, ZenonT(40) DEF Disable
  <2>4. CASE DisablePool
    BY <2>4 DEF DisablePool, Closed
  <2>5. CASE (\E c \in Conns : Send(c)) \/ Puts \/ NotifyAll \/ FreeNodes \/ UNCHANGED vars
    BY <2>5 DEF Send, PutFreeNode, NotifyAll, FreeNodes, vars
  <2> QED BY <2>1, <2>2, <2>3, <2>4, <2>5
<1>4. Settles
  BY <1>1, <1>2, <1>3 DEF Settles
<1> QED BY <1>4, SettlesKeeps

\* What a change of a handle's slot leaves alone.
LEMMA SlotChanges ==
    ASSUME Typed, NEW c \in Conns, NEW to, NEW d,
           \/ handle' = [handle EXCEPT ![c].slot = to]
           \/ handle' = [handle EXCEPT ![c].slot = to, ![c].due = d]
    PROVE  /\ \A b \in Conns : /\ b # c => handle'[b] = handle[b]
                               /\ handle'[b].phase = handle[b].phase
                               /\ handle'[b].ctx = handle[b].ctx
                               /\ handle'[b].cancelled = handle[b].cancelled
           /\ handle'[c].slot = to
           /\ handle' = [handle EXCEPT ![c].slot = to, ![c].due = d] => handle'[c].due = d
<1>0. handle \in [Conns -> HandleState] /\ handle[c] \in HandleState
  BY DEF Typed
<1>1. CASE handle' = [handle EXCEPT ![c].slot = to, ![c].due = d]
  <2> DEFINE after == [handle[c] EXCEPT !.slot = to, !.due = d]
  <2>1. handle' = [handle EXCEPT ![c] = after]
    BY <1>1, Zenon
  <2>2. /\ after.phase = handle[c].phase /\ after.ctx = handle[c].ctx
        /\ after.cancelled = handle[c].cancelled /\ after.slot = to /\ after.due = d
    BY <1>0 DEF HandleState
  <2> HIDE DEF after
  <2> QED BY <1>0, <2>1, <2>2
<1>2. CASE /\ handle' = [handle EXCEPT ![c].slot = to]
           /\ handle' # [handle EXCEPT ![c].slot = to, ![c].due = d]
  <2> DEFINE after == [handle[c] EXCEPT !.slot = to]
  <2>1. handle' = [handle EXCEPT ![c] = after]
    BY <1>2, Zenon
  <2>2. /\ after.phase = handle[c].phase /\ after.ctx = handle[c].ctx
        /\ after.cancelled = handle[c].cancelled /\ after.slot = to
    BY <1>0 DEF HandleState
  <2> HIDE DEF after
  <2> QED BY <1>0, <1>2, <2>1, <2>2
<1> QED BY <1>1, <1>2

LEMMA SentServes ==
    ASSUME SInv, SInv', QInv, NEW c \in Conns, Sent(c) \/ ClearSend(c) PROVE QInv'
<1>1. UNCHANGED <<at, node, drains>>
  BY DEF Sent, ClearSend
<1>2. /\ \A b \in Conns : /\ b # c => handle'[b] = handle[b]
                          /\ handle'[b].phase = handle[b].phase
                          /\ handle'[b].ctx = handle[b].ctx
                          /\ handle'[b].cancelled = handle[b].cancelled
      /\ handle'[c].slot \in {"callback", "free"}
      /\ \/ handle[c].slot = "inflight" /\ handle'[c].slot = "callback"
         \/ handle[c].slot = "returning" /\ handle'[c].slot = "free"
  <2>1. CASE Sent(c)
    <3>1. handle' = [handle EXCEPT ![c].slot = "callback"] /\ handle[c].slot = "inflight"
      BY <2>1 DEF Sent
    <3> QED BY <3>1, SlotChanges DEF SInv
  <2>2. CASE ClearSend(c)
    <3>1. /\ handle' = [handle EXCEPT ![c].slot = "free", ![c].due = 0]
          /\ handle[c].slot = "returning"
      BY <2>2 DEF ClearSend
    <3> QED BY <3>1, SlotChanges DEF SInv
  <2> QED BY <2>1, <2>2
<1>3. NewSendsNothing'
  BY <1>2 DEF QInv, NewSendsNothing
<1>4. DrainPerCallback'
  <2>1. \A n \in Nodes, g \in Generations : RunningFor(n, g)' \subseteq RunningFor(n, g)
    BY <1>2 DEF RunningFor
  <2>2. \A n \in Nodes, g \in Generations : drains[<<n, g>>] <= drains'[<<n, g>>]
    BY <1>1 DEF SInv, Typed
  <2> QED BY <2>1, <2>2, FewerRunning DEF QInv, SInv
<1>5. \A n \in Nodes : at[n] = "active" => node[n].id \in Conns
  BY DEF SInv, Linked
<1>6. OwnContext'
  BY <1>1, <1>2, <1>5 DEF QInv, OwnContext
<1>7. QueueServed'
  <2> SUFFICES ASSUME PromptCallback, NEW n \in Nodes, NEW b, b = node[n].id,
                      at[n] = "active", node[n].send_queue # <<>>, ~handle'[b].cancelled
               PROVE  \/ handle'[b].slot \in {"inflight", "callback"}
                      \/ drains[<<n, node[n].generation>>] > 0
    BY <1>1 DEF QueueServed
  <2>1. b \in Conns /\ ~handle[b].cancelled
    BY <1>2, <1>5
  <2>2. \/ handle[b].slot \in {"inflight", "callback"}
        \/ drains[<<n, node[n].generation>>] > 0
    BY <2>1 DEF QInv, QueueServed
  <2> QED BY <1>2, <2>1, <2>2
<1> QED BY <1>3, <1>4, <1>6, <1>7 DEF QInv

LEMMA ActiveGeneration ==
    ASSUME SInv, NEW n \in Nodes, at[n] = "active"
    PROVE  node[n].id \in Conns /\ node[n].generation \in Generations
<1>1. node[n].id \in Conns /\ node[n].generation \in DOMAIN owner
  BY DEF SInv, Linked
<1>2. DOMAIN owner = 1..Len(owner) /\ Len(owner) \in Nat /\ Len(owner) <= MaxConns
  BY LenProperties DEF SInv, Typed
<1> QED BY <1>1, <1>2, SendQueueAssumption DEF Generations, Conns

\* The callback schedules a drain of the connection's own generation, as long
\* as the connection lives.
LEMMA OnSentServes ==
    ASSUME SInv, SInv', QInv, NEW c \in Conns, OnSent(c) PROVE QInv'
<1>0. PICK l, h : /\ l = handle[c].ctx /\ h = GenerationOf(l)
                  /\ handle' = [handle EXCEPT ![c].slot = "returning", ![c].due = h]
                  /\ drains' = IF h = 0 THEN drains ELSE [drains EXCEPT ![<<l, h>>] = @ + 1]
  BY DEF OnSent
<1>1. UNCHANGED <<at, node>> /\ handle[c].slot = "callback"
  BY DEF OnSent
<1>2. /\ h \in Generations \cup {0} /\ h \in Nat
      /\ h # 0 => l \in Nodes /\ h \in Generations
  BY <1>0, GenerationType, SendQueueAssumption DEF Generations, Conns
<1>3. /\ \A b \in Conns : /\ b # c => handle'[b] = handle[b]
                          /\ handle'[b].phase = handle[b].phase
                          /\ handle'[b].ctx = handle[b].ctx
                          /\ handle'[b].cancelled = handle[b].cancelled
      /\ handle'[c].slot = "returning" /\ handle'[c].due = h
  BY <1>0, SlotChanges DEF SInv
<1>4. \A d \in Nodes \X Generations :
         /\ drains[d] \in Nat /\ drains'[d] \in Nat /\ drains[d] <= drains'[d]
         /\ d = <<l, h>> => drains'[d] = drains[d] + 1
  <2>0. drains \in [Nodes \X Generations -> Nat] /\ 0 \notin Generations
    BY SendQueueAssumption DEF SInv, Typed, Generations, Conns
  <2>1. CASE h = 0
    BY <1>0, <2>0, <2>1
  <2>2. CASE h # 0
    <3>1. PICK pair \in Nodes \X Generations : pair = <<l, h>>
      BY <1>2, <2>2
    <3>2. drains' = [drains EXCEPT ![pair] = @ + 1]
      BY <1>0, <2>2, <3>1
    <3> QED BY <2>0, <3>1, <3>2
  <2> QED BY <2>1, <2>2
<1>5. NewSendsNothing'
  BY <1>1, <1>3 DEF QInv, NewSendsNothing
<1>6. DrainPerCallback'
  <2> SUFFICES ASSUME PromptCallback, NEW n \in Nodes, NEW g \in Generations
               PROVE  Cardinality(RunningFor(n, g)') <= drains'[<<n, g>>]
    BY DEF DrainPerCallback
  <2>1. PICK d \in Nodes \X Generations : d = <<n, g>>
    OBVIOUS
  <2>2. PICK before : before = RunningFor(n, g)
    OBVIOUS
  <2>3. /\ IsFiniteSet(before) /\ Cardinality(before) \in Nat
        /\ c \notin before /\ Cardinality(before) <= drains[d]
    <3>1. c \notin before
      BY <1>1, <2>2 DEF RunningFor
    <3>2. Cardinality(before) <= drains[d]
      BY <2>1, <2>2 DEF QInv, DrainPerCallback
    <3> QED BY <2>2, <3>1, <3>2, RunningIsFinite
  <2>4. CASE n = l /\ g = h
    <3>1. RunningFor(n, g)' = before \cup {c}
      BY <1>0, <1>3, <2>2, <2>4 DEF RunningFor
    <3>2. Cardinality(before \cup {c}) = Cardinality(before) + 1
      BY <2>3, FS_AddElement
    <3>3. drains[d] \in Nat /\ drains'[d] = drains[d] + 1
      BY <1>4, <2>1, <2>4
    <3>4. Cardinality(before) + 1 <= drains'[d]
      BY <2>3, <3>3
    <3> QED BY <2>1, <3>1, <3>2, <3>4
  <2>5. CASE ~(n = l /\ g = h)
    <3>1. RunningFor(n, g)' = before
      <4>1. c \notin RunningFor(n, g)'
        BY <1>0, <1>3, <2>5 DEF RunningFor
      <4>2. \A b \in Conns : b # c => (b \in RunningFor(n, g)' <=> b \in before)
        BY <1>3, <2>2 DEF RunningFor
      <4>3. RunningFor(n, g)' \subseteq Conns /\ before \subseteq Conns
        BY <2>2 DEF RunningFor
      <4> QED BY <2>3, <4>1, <4>2, <4>3
    <3>2. drains[d] \in Nat /\ drains'[d] \in Nat /\ drains[d] <= drains'[d]
      BY <1>4
    <3>3. Cardinality(before) <= drains'[d]
      BY <2>3, <3>2
    <3> QED BY <2>1, <3>1, <3>3
  <2> QED BY <2>4, <2>5
<1>7. ASSUME NEW n \in Nodes, at[n] = "active", ~handle'[node[n].id].cancelled
      PROVE  /\ node[n].id \in Conns /\ ~handle[node[n].id].cancelled
             /\ handle[node[n].id].ctx = n
             /\ node[n].generation \in Generations
             /\ node[n].id = c => l = n /\ h = node[n].generation
  <2>1. node[n].id \in Conns
    BY <1>7 DEF SInv, Linked
  <2>2. ~handle[node[n].id].cancelled /\ handle[node[n].id].ctx = n
    BY <1>3, <1>7, <2>1 DEF QInv, OwnContext
  <2>3. IsActive(n)
    BY <1>7, <2>1 DEF IsActive, FindLocked
  <2>4. GenerationOf(n) = node[n].generation
    BY <2>3 DEF GenerationOf
  <2>5. node[n].generation \in Generations
    BY <1>7, ActiveGeneration
  <2> QED BY <1>0, <2>1, <2>2, <2>4, <2>5
<1>8. OwnContext'
  BY <1>1, <1>3, <1>7 DEF QInv, OwnContext
<1>9. QueueServed'
  <2> SUFFICES ASSUME PromptCallback, NEW n \in Nodes, NEW b, b = node[n].id,
                      at[n] = "active", node[n].send_queue # <<>>, ~handle'[b].cancelled
               PROVE  \/ handle'[b].slot \in {"inflight", "callback"}
                      \/ drains'[<<n, node[n].generation>>] > 0
    BY <1>1 DEF QueueServed
  <2>1. PICK g : g = node[n].generation
    OBVIOUS
  <2>2. /\ b \in Conns /\ ~handle[b].cancelled /\ g \in Generations
        /\ b = c => l = n /\ h = g
    BY <1>7, <2>1
  <2>3. PICK d \in Nodes \X Generations : d = <<n, g>>
    BY <2>2
  <2>4. handle[b].slot \in {"inflight", "callback"} \/ drains[d] > 0
    BY <2>1, <2>2, <2>3 DEF QInv, QueueServed
  <2>5. /\ drains[d] \in Nat /\ drains'[d] \in Nat
        /\ drains[d] <= drains'[d] /\ (b = c => drains'[d] = drains[d] + 1)
    BY <1>4, <2>2, <2>3
  <2>6. CASE b = c \/ drains[d] > 0
    <3>1. drains'[d] > 0
      BY <2>5, <2>6
    <3> QED BY <2>1, <2>3, <3>1
  <2>7. CASE b # c /\ handle[b].slot \in {"inflight", "callback"}
    BY <1>3, <2>2, <2>7
  <2> QED BY <2>4, <2>6, <2>7
<1> QED BY <1>5, <1>6, <1>8, <1>9 DEF QInv

\* A chunk that is given to IoPool is the one in flight, and the drains of the
\* other nodes are still there.
LEMMA SubmitServes ==
    ASSUME SInv, SInv', QInv, NEW n \in Nodes, NEW q, at[n] = "active",
           CanSubmit(node[n].id), Submit(n, q), UNCHANGED at, DrainPerCallback',
           \A m \in Nodes, g \in Generations :
              m # n => drains'[<<m, g>>] = drains[<<m, g>>]
    PROVE  QInv'
<1>0. PICK c \in Conns : c = node[n].id
  BY DEF SInv, Linked
<1>1. /\ \A b \in Conns : /\ b # c => handle'[b] = handle[b]
                          /\ handle'[b].phase = handle[b].phase
                          /\ handle'[b].ctx = handle[b].ctx
                          /\ handle'[b].cancelled = handle[b].cancelled
      /\ handle'[c].slot = "inflight"
  <2>1. handle' = [handle EXCEPT ![c].slot = "inflight"]
    BY <1>0 DEF Submit
  <2> QED BY <2>1, SlotChanges DEF SInv
<1>2. \A m \in Nodes : /\ node'[m].id = node[m].id
                       /\ node'[m].generation = node[m].generation
                       /\ m # n => node'[m] = node[m]
  <2>1. node' = [node EXCEPT ![n].send_queue = Tail(q)] /\ node \in [Nodes -> NodeState]
    BY DEF Submit, SInv, Typed
  <2> QED BY <2>1, ZenonT(40)
<1>3. \A m \in Nodes : at[m] = "active" =>
         /\ node[m].id \in Conns /\ node[m].generation \in Generations
         /\ m # n => node[m].id # c
  BY <1>0, ActiveGeneration DEF SInv, Linked
<1>4. handle[c].phase # "new"
  BY <1>0 DEF SInv, Linked
<1>5. NewSendsNothing'
  BY <1>1, <1>4 DEF QInv, NewSendsNothing
<1>6. OwnContext'
  BY <1>0, <1>1, <1>2, <1>3 DEF QInv, OwnContext
<1>7. QueueServed'
  <2> SUFFICES ASSUME PromptCallback, NEW m \in Nodes, NEW b, b = node'[m].id,
                      at[m] = "active", node'[m].send_queue # <<>>, ~handle'[b].cancelled
               PROVE  \/ handle'[b].slot \in {"inflight", "callback"}
                      \/ drains'[<<m, node'[m].generation>>] > 0
    BY DEF QueueServed
  <2>1. CASE m = n
    BY <1>0, <1>1, <1>2, <2>1
  <2>2. CASE m # n
    <3>1. node'[m] = node[m] /\ b \in Conns /\ b # c /\ handle'[b] = handle[b]
      BY <1>1, <1>2, <1>3, <2>2
    <3>2. \/ handle[b].slot \in {"inflight", "callback"}
          \/ drains[<<m, node[m].generation>>] > 0
      BY <3>1 DEF QInv, QueueServed
    <3>3. drains'[<<m, node[m].generation>>] = drains[<<m, node[m].generation>>]
      BY <1>3, <2>2
    <3> QED BY <3>1, <3>2, <3>3
  <2> QED BY <2>1, <2>2
<1> QED BY <1>5, <1>6, <1>7 DEF QInv

LEMMA EnqueueServes ==
    ASSUME SInv, SInv', QInv, Sends PROVE QInv'
<1>0. PICK f \in found, k \in 1..MaxChunks : Enqueue(f, k)
  BY DEF Sends
<1>1. f.node \in Nodes /\ f.packet \in 1..MaxPackets /\ UNCHANGED <<at, drains>>
  BY <1>0 DEF Enqueue, SInv, Typed
<1>2. CASE ~IsActive(f.node)
  <2>1. UNCHANGED <<node, handle>>
    BY <1>0, <1>2 DEF Enqueue
  <2>2. Settles
    BY <1>1, <2>1 DEF Settles
  <2> QED BY <2>2, SettlesKeeps
<1>3. CASE IsActive(f.node)
  <2>1. PICK n \in Nodes : n = f.node
    BY <1>1
  <2>2. PICK c \in Conns : c = node[n].id
    BY <1>3, <2>1 DEF IsActive, FindLocked, SInv, Linked
  <2>3. PICK fresh : fresh = ChunksOf(f.packet, k)
    OBVIOUS
  <2>4. at[n] = "active"
    BY <1>3, <2>1 DEF IsActive, FindLocked
  <2>5. IF node[n].send_queue = <<>> /\ CanSubmit(c) THEN Submit(n, fresh)
        ELSE Push(n, node[n].send_queue \o fresh)
    BY <1>0, <1>3, <2>1, <2>2, <2>3 DEF Enqueue
  <2>6. CASE node[n].send_queue = <<>> /\ CanSubmit(c)
    <3>1. Submit(n, fresh)
      BY <2>5, <2>6
    <3>2. handle' = [handle EXCEPT ![c].slot = "inflight"]
      BY <2>2, <3>1 DEF Submit
    <3>3. \A m \in Nodes, g \in Generations : RunningFor(m, g)' \subseteq RunningFor(m, g)
      <4>1. handle'[c].slot = "inflight" /\ \A b \in Conns : b # c => handle'[b] = handle[b]
        BY <3>2, SlotChanges DEF SInv
      <4> QED BY <4>1 DEF RunningFor
    <3>4. DrainPerCallback'
      <4>1. \A m \in Nodes, g \in Generations : drains[<<m, g>>] <= drains'[<<m, g>>]
        <5>1. drains \in [Nodes \X Generations -> Nat]
          BY DEF SInv, Typed
        <5> QED BY <1>1, <5>1
      <4> QED BY <3>3, <4>1, FewerRunning DEF QInv, SInv
    <3> QED BY <1>1, <2>2, <2>4, <2>6, <3>1, <3>4, SubmitServes
  <2>7. CASE ~(node[n].send_queue = <<>> /\ CanSubmit(c))
    <3>1. /\ node' = [node EXCEPT ![n].send_queue = node[n].send_queue \o fresh]
          /\ UNCHANGED handle
      BY <2>5, <2>7 DEF Push
    <3>2. \A m \in Nodes : /\ node'[m].id = node[m].id
                           /\ node'[m].generation = node[m].generation
                           /\ m # n => node'[m] = node[m]
      BY <3>1, ZenonT(40) DEF SInv, Typed
    <3>3. NewSendsNothing'
      BY <3>1 DEF QInv, NewSendsNothing
    <3>4. DrainPerCallback'
      BY <1>1, <3>1 DEF QInv, DrainPerCallback, RunningFor
    <3>5. OwnContext'
      BY <1>1, <3>1, <3>2 DEF QInv, OwnContext
    <3>6. ASSUME PromptCallback, ~handle[c].cancelled
          PROVE  \/ handle[c].slot \in {"inflight", "callback"}
                 \/ drains[<<n, node[n].generation>>] > 0
      <4>1. CASE node[n].send_queue # <<>>
        BY <2>2, <2>4, <3>6, <4>1 DEF QInv, QueueServed
      <4>2. CASE handle[c].slot = "returning"
        <5>1. PICK g : g = node[n].generation
          OBVIOUS
        <5>2. g \in Generations
          BY <2>4, <5>1, ActiveGeneration
        <5>3. handle[c].ctx = n /\ handle[c].due = g
          BY <2>2, <2>4, <3>6, <4>2, <5>1 DEF QInv, OwnContext
        <5>4. PICK calls : calls = RunningFor(n, g)
          OBVIOUS
        <5>5. c \in calls /\ IsFiniteSet(calls) /\ Cardinality(calls) \in Nat
          <6>1. c \in calls
            BY <4>2, <5>3, <5>4 DEF RunningFor
          <6> QED BY <5>4, <6>1, RunningIsFinite
        <5>6. Cardinality(calls) # 0
          BY <5>5, FS_EmptySet
        <5>7. PICK d \in Nodes \X Generations : d = <<n, g>>
          BY <5>2
        <5>8. Cardinality(calls) <= drains[d] /\ drains[d] \in Nat
          BY <3>6, <5>2, <5>4, <5>7 DEF QInv, DrainPerCallback, SInv, Typed
        <5>9. drains[d] > 0
          BY <5>5, <5>6, <5>8
        <5> QED BY <5>1, <5>7, <5>9
      <4>3. handle[c].slot \in {"free", "inflight", "callback", "returning"}
        BY DEF SInv, Typed
      <4> QED BY <2>7, <3>6, <4>1, <4>2, <4>3 DEF CanSubmit
    <3>7. QueueServed'
      <4> SUFFICES ASSUME PromptCallback, NEW m \in Nodes, NEW b, b = node'[m].id,
                          at[m] = "active", node'[m].send_queue # <<>>, ~handle[b].cancelled
                   PROVE  \/ handle[b].slot \in {"inflight", "callback"}
                          \/ drains[<<m, node[m].generation>>] > 0
        BY <1>1, <3>1, <3>2 DEF QueueServed
      <4>1. CASE m = n
        BY <2>2, <3>2, <3>6, <4>1
      <4>2. CASE m # n
        BY <3>2, <4>2 DEF QInv, QueueServed
      <4> QED BY <4>1, <4>2
    <3> QED BY <3>3, <3>4, <3>5, <3>7 DEF QInv
  <2> QED BY <2>6, <2>7
<1> QED BY <1>2, <1>3

\* A drain that ends leaves one for each callback that has yet to return.
LEMMA DrainEndsServes ==
    ASSUME SInv, SInv', QInv, NEW n \in Nodes, NEW g \in Generations,
           Awake(n, g), DrainEnds(n, g),
           \A m \in Nodes, h \in Generations : RunningFor(m, h)' = RunningFor(m, h)
    PROVE  /\ DrainPerCallback'
           /\ \A m \in Nodes, h \in Generations :
                 m # n \/ h # g => drains'[<<m, h>>] = drains[<<m, h>>]
<1>1. PICK d \in Nodes \X Generations : d = <<n, g>>
  OBVIOUS
<1>2. /\ drains \in [Nodes \X Generations -> Nat]
      /\ drains' = [drains EXCEPT ![d] = @ - 1]
  BY <1>1 DEF SInv, Typed, DrainEnds
<1>3. \A m \in Nodes, h \in Generations :
         m # n \/ h # g => drains'[<<m, h>>] = drains[<<m, h>>]
  BY <1>1, <1>2
<1>4. ASSUME PromptCallback, NEW m \in Nodes, NEW h \in Generations
      PROVE  Cardinality(RunningFor(m, h)') <= drains'[<<m, h>>]
  <2>1. Cardinality(RunningFor(m, h)') = Cardinality(RunningFor(m, h))
    OBVIOUS
  <2>2. CASE m # n \/ h # g
    BY <1>3, <1>4, <2>1, <2>2 DEF QInv, DrainPerCallback
  <2>3. CASE m = n /\ h = g
    <3>1. PICK k \in Nat : k = Cardinality(RunningFor(n, g))
      BY RunningIsFinite
    <3>2. drains[d] > k
      BY <1>1, <1>4, <3>1 DEF Awake, RunningFor
    <3>3. k <= drains'[d]
      BY <1>2, <3>2
    <3> QED BY <1>1, <2>1, <2>3, <3>1, <3>3
  <2> QED BY <2>2, <2>3
<1> QED BY <1>3, <1>4 DEF DrainPerCallback

LEMMA DrainServes ==
    ASSUME SInv, SInv', QInv, NEW n \in Nodes, NEW g \in Generations, Drain(n, g)
    PROVE  QInv'
<1>0. Awake(n, g) /\ UNCHANGED at
  BY DEF Drain
<1>1. CASE /\ ~(IsActive(n) /\ node[n].generation = g) \/ node[n].send_queue = <<>>
              \/ handle[node[n].id].cancelled
           /\ DrainEnds(n, g) /\ UNCHANGED <<node, handle>>
  <2>1. /\ DrainPerCallback'
        /\ \A m \in Nodes, h \in Generations :
              m # n \/ h # g => drains'[<<m, h>>] = drains[<<m, h>>]
    <3>1. \A m \in Nodes, h \in Generations : RunningFor(m, h)' = RunningFor(m, h)
      BY <1>1 DEF RunningFor
    <3> QED BY <1>0, <1>1, <3>1, DrainEndsServes
  <2>2. NewSendsNothing' /\ OwnContext'
    BY <1>0, <1>1 DEF QInv, NewSendsNothing, OwnContext
  <2>3. QueueServed'
    <3> SUFFICES ASSUME PromptCallback, NEW m \in Nodes, NEW b, b = node[m].id,
                        at[m] = "active", node[m].send_queue # <<>>, ~handle[b].cancelled
                 PROVE  \/ handle[b].slot \in {"inflight", "callback"}
                        \/ drains'[<<m, node[m].generation>>] > 0
      BY <1>0, <1>1 DEF QueueServed
    <3>1. \/ handle[b].slot \in {"inflight", "callback"}
          \/ drains[<<m, node[m].generation>>] > 0
      BY DEF QInv, QueueServed
    <3>2. m # n \/ node[m].generation # g
      BY <1>1, ActiveGeneration DEF IsActive, FindLocked
    <3>3. drains'[<<m, node[m].generation>>] = drains[<<m, node[m].generation>>]
      BY <2>1, <3>2, ActiveGeneration
    <3> QED BY <3>1, <3>3
  <2> QED BY <2>1, <2>2, <2>3 DEF QInv
<1>2. CASE UNCHANGED <<node, handle, drains>>
  <2>1. Settles
    BY <1>0, <1>2 DEF Settles
  <2> QED BY <2>1, SettlesKeeps
<1>3. CASE /\ IsActive(n) /\ CanSubmit(node[n].id)
           /\ DrainEnds(n, g) /\ Submit(n, node[n].send_queue)
  <2>1. PICK c \in Conns : c = node[n].id
    BY <1>3, ActiveGeneration DEF IsActive, FindLocked
  <2>2. \A m \in Nodes, h \in Generations : RunningFor(m, h)' = RunningFor(m, h)
    <3>1. handle' = [handle EXCEPT ![c].slot = "inflight"]
      BY <1>3, <2>1 DEF Submit
    <3>2. /\ handle'[c].slot = "inflight" /\ handle[c].slot = "free"
          /\ \A b \in Conns : b # c => handle'[b] = handle[b]
      <4>1. handle[c].slot = "free"
        BY <1>3, <2>1 DEF CanSubmit
      <4>2. handle'[c].slot = "inflight" /\ \A b \in Conns : b # c => handle'[b] = handle[b]
        BY <3>1, SlotChanges DEF SInv
      <4> QED BY <4>1, <4>2
    <3> QED BY <3>2 DEF RunningFor
  <2>3. /\ DrainPerCallback'
        /\ \A m \in Nodes, h \in Generations :
              m # n => drains'[<<m, h>>] = drains[<<m, h>>]
    BY <1>0, <1>3, <2>2, DrainEndsServes
  <2>4. at[n] = "active"
    BY <1>3 DEF IsActive, FindLocked
  <2> QED BY <1>0, <1>3, <2>3, <2>4, SubmitServes
<1> QED BY <1>1, <1>2, <1>3 DEF Drain

LEMMA NextServes ==
    ASSUME SInv, QInv, [Next]_vars \/ DisablePool \/ FreeNodes PROVE QInv'
<1>0. SInv'
  BY NextKeeps, DisablePoolKeeps, FreeNodesKeeps
<1>1. ASSUME NEW c \in Conns, Callback(c) PROVE QInv'
  BY <1>0, <1>1, AcceptServes, SettlingServes, SentServes, OnSentServes
     DEF Callback, SentCallback
<1>2. ASSUME NEW c \in Conns, Send(c) \/ Disable(c) PROVE QInv'
  BY <1>0, <1>2, SettlingServes
<1>3. CASE Sends
  BY <1>0, <1>3, EnqueueServes
<1>4. CASE Drains
  BY <1>0, <1>4, DrainServes DEF Drains
<1>5. CASE Puts \/ NotifyAll \/ DisablePool \/ FreeNodes \/ UNCHANGED vars
  BY <1>0, <1>5, SettlingServes
<1> QED BY <1>1, <1>2, <1>3, <1>4, <1>5 DEF Next

-----------------------------------------------------------------------------
(* What holds whenever the Gateway runs, stops or has stopped.             *)

\* What stop() and wait() add is steps of their own, and two that the
\* connections see.
LEMMA StopNextIsNext ==
    ASSUME [StopNext]_allVars PROVE [Next]_vars \/ DisablePool \/ FreeNodes
<1>1. CASE UNCHANGED allVars
  BY <1>1 DEF allVars
<1>2. CASE PoolStep
  BY <1>2 DEF PoolStep, Next
<1>3. CASE DrainStep \/ DrainNotifies
  BY <1>3 DEF DrainStep, DrainNotifies, Next
<1>4. CASE Stop \/ TestDrains \/ FallAsleep \/ NotifyWaiter
  BY <1>4 DEF Stop, TestDrains, FallAsleep, NotifyWaiter
<1>5. CASE WaitStep \/ SpuriousWakeup
  BY <1>5 DEF WaitStep, WaitTests, WaitSleeps, SpuriousWakeup
<1> QED BY <1>1, <1>2, <1>3, <1>4, <1>5 DEF StopNext, StopStep

LEMMA StopSInv == StopSpec => []SInv
<1>1. StopInit => SInv
  BY InitSInv DEF StopInit
<1>2. SInv /\ [StopNext]_allVars => SInv'
  BY StopNextIsNext, NextKeeps, DisablePoolKeeps, FreeNodesKeeps
<1> QED BY <1>1, <1>2, PTL DEF StopSpec

\* stop() and wait() are somewhere, and one of them at a time is between its
\* test and its sleep, for which it holds wait_mtx_.
StopTyped ==
    /\ stopper \in {"none", "stopping", "free", "test", "falling", "asleep",
                    "notify", "returned"}
    /\ waiter \in {"test", "falling", "asleep", "returned"}
    /\ missed \in BOOLEAN
    /\ ~(stopper = "falling" /\ waiter = "falling")

LEMMA StopStepTypes == StopTyped /\ [StopNext]_allVars => StopTyped'
<1> SUFFICES ASSUME StopTyped, [StopNext]_allVars PROVE StopTyped'
  OBVIOUS
<1>1. CASE UNCHANGED allVars
  BY <1>1 DEF StopTyped, allVars, stopVars
<1>2. CASE PoolStep
  BY <1>2 DEF StopTyped, PoolStep, stopVars
<1>3. CASE DrainStep
  BY <1>3 DEF StopTyped, DrainStep, stopVars
<1>4. CASE DrainNotifies
  BY <1>4 DEF StopTyped, DrainNotifies
<1>5. CASE Stop
  BY <1>5 DEF StopTyped, Stop, StopGoes
<1>6. CASE DisablePool
  BY <1>6 DEF StopTyped, DisablePool, StopGoes
<1>7. CASE FreeNodes
  BY <1>7 DEF StopTyped, FreeNodes, StopGoes
<1>8. CASE TestDrains
  BY <1>8 DEF StopTyped, TestDrains, StopGoes
<1>9. CASE FallAsleep
  BY <1>9 DEF StopTyped, FallAsleep, StopGoes
<1>10. CASE NotifyWaiter
  BY <1>10 DEF StopTyped, NotifyWaiter
<1>11. CASE WaitTests
  BY <1>11 DEF StopTyped, WaitTests
<1>12. CASE WaitSleeps
  BY <1>12 DEF StopTyped, WaitSleeps
<1>13. CASE SpuriousWakeup
  BY <1>13 DEF StopTyped, SpuriousWakeup
<1> QED BY <1>1, <1>2, <1>3, <1>4, <1>5, <1>6, <1>7, <1>8, <1>9, <1>10, <1>11,
           <1>12, <1>13 DEF StopNext, StopStep, WaitStep

LEMMA StopIsTyped == StopSpec => []StopTyped
<1>1. StopInit => StopTyped
  BY DEF StopInit, StopTyped
<1> QED BY <1>1, StopStepTypes, PTL DEF StopSpec

\* Every variable keeps its type.
THEOREM StopTypesHold == StopSpec => []StopTypeOK
<1>1. SInv => TypeOK
  BY LenProperties DEF SInv, Typed, TypeOK
<1>2. SInv /\ StopTyped => StopTypeOK
  BY <1>1 DEF StopTyped, StopTypeOK
<1> QED BY <1>2, StopSInv, StopIsTyped, PTL

\* The chunks of a connection are submitted in the order they were enqueued,
\* and no connection that is there loses one to another.
THEOREM SentInOrderHolds == StopSpec => []SentInOrder
<1>1. SInv => SentInOrder
  <2> SUFFICES ASSUME SInv PROVE SentInOrder
    OBVIOUS
  <2> USE DEF SInv
  <2>1. \A n \in Nodes : at[n] = "active" =>
           submitted[node[n].id] \o node[n].send_queue = enqueued[node[n].id]
    BY DEF Ordered
  <2>2. ASSUME NEW c \in Conns
        PROVE  /\ Len(submitted[c]) <= Len(enqueued[c])
               /\ submitted[c] = SubSeq(enqueued[c], 1, Len(submitted[c]))
    <3>1. PICK rest \in Seq(Chunk) : enqueued[c] = submitted[c] \o rest
      BY DEF Ordered
    <3>2. submitted[c] \in Seq(Chunk)
      BY DEF Typed
    <3> QED BY <3>1, <3>2, PrefixOfConcat
  <2>3. \A c \in Conns : \A i \in DOMAIN enqueued[c] :
           LET to == addressed[enqueued[c][i][1]] IN to = c \/ FindLocked(to) = {}
    BY DEF Addressed
  <2> QED BY <2>1, <2>2, <2>3 DEF SentInOrder
<1> QED BY <1>1, StopSInv, PTL

\* A drain sends nothing of a connection it was not scheduled for.
THEOREM DrainsItsOwnHolds == StopSpec => DrainsItsOwn
<1> DEFINE Own == \A n \in Nodes, g \in Generations :
                     drains'[<<n, g>>] < drains[<<n, g>>] =>
                        \A c \in Conns : submitted'[c] # submitted[c] => c = owner[g]
<1>1. SInv /\ [StopNext]_allVars => [Own]_vars
  <2> SUFFICES ASSUME SInv, [StopNext]_allVars,
                      NEW n \in Nodes, NEW g \in Generations,
                      drains'[<<n, g>>] < drains[<<n, g>>],
                      NEW c \in Conns, submitted'[c] # submitted[c]
               PROVE  c = owner[g]
    OBVIOUS
  <2>0. drains \in [Nodes \X Generations -> Nat] /\ submitted \in [Conns -> Seq(Chunk)]
    BY DEF SInv, Typed
  <2>1. Drains
    <3>1. CASE submitted' = submitted
      BY <3>1
    <3>2. CASE drains' = drains
      BY <3>2, <2>0
    <3>3. ASSUME NEW b \in Conns, Callback(b) \/ Send(b) \/ Disable(b)
          PROVE  submitted' = submitted
      BY <3>3 DEF Callback, Accept, ReceiveFails, BeforeClose, SentCallback, Sent,
                  OnSent, ClearSend, Send, Disable
    <3>4. CASE Sends \/ Puts
      BY <3>4, <3>2 DEF Sends, Enqueue, Puts, PutFreeNode
    <3>5. CASE NotifyAll \/ UNCHANGED vars \/ DisablePool \/ FreeNodes
      BY <3>5, <3>1 DEF NotifyAll, vars, DisablePool, FreeNodes
    <3> QED BY <3>1, <3>3, <3>4, <3>5, StopNextIsNext DEF Next
  <2>2. PICK m \in Nodes, h \in Generations : Drain(m, h)
    BY <2>1 DEF Drains
  <2>3. /\ IsActive(m) /\ node[m].generation = h
        /\ DrainEnds(m, h) /\ Submit(m, node[m].send_queue)
    BY <2>2, <2>0 DEF Drain
  <2>4. m = n /\ h = g
    <3>1. drains' = [drains EXCEPT ![<<m, h>>] = @ - 1]
      BY <2>3 DEF DrainEnds
    <3> QED BY <3>1, <2>0
  <2>5. c = node[m].id
    BY <2>3, <2>0 DEF Submit
  <2>6. owner[node[m].generation] = node[m].id
    BY <2>3 DEF IsActive, FindLocked, SInv, Linked
  <2> QED BY <2>3, <2>4, <2>5, <2>6
<1> QED BY <1>1, StopSInv, PTL DEF StopSpec, DrainsItsOwn

\* No drain thread is left when stop() is past its wait for them: nothing is
\* scheduled once the callbacks have ended.
THEOREM NoDrainOutlivesStopHolds == StopSpec => []NoDrainOutlivesStop
<1>1. StopInit => NoDrainOutlivesStop
  BY DEF StopInit, NoDrainOutlivesStop
<1>2. SInv /\ NoDrainOutlivesStop /\ [StopNext]_allVars => NoDrainOutlivesStop'
  <2> SUFFICES ASSUME SInv, NoDrainOutlivesStop, [StopNext]_allVars,
                      stopper' \in {"notify", "returned"}
               PROVE  NoDrain'
    BY DEF NoDrainOutlivesStop
  <2> USE DEF NoDrainOutlivesStop
  <2>0. drains \in [Nodes \X Generations -> Nat]
    BY DEF SInv, Typed
  <2>1. CASE UNCHANGED <<stopper, drains>>
    BY <2>1 DEF NoDrain
  <2>2. CASE PoolStep
    BY <2>2 DEF PoolStep, PoolRuns, stopVars
  <2>3. CASE DrainStep
    <3>1. NoDrain
      BY <2>3 DEF DrainStep, stopVars
    <3>2. PICK n \in Nodes, g \in Generations : Drain(n, g)
      BY <2>3 DEF DrainStep, Drains
    <3>3. drains[<<n, g>>] > 0 /\ <<n, g>> \in Nodes \X Generations
      BY <3>2, DrainEndsTypes DEF Drain, SInv
    <3>4. drains[<<n, g>>] = 0
      BY <3>1, <3>3, <2>0 DEF NoDrain
    <3> QED BY <3>3, <3>4
  <2>4. CASE DrainNotifies
    BY <2>4 DEF DrainNotifies, NotifyAll, NoDrain
  <2>5. CASE Stop \/ DisablePool \/ FreeNodes \/ FallAsleep
    BY <2>5 DEF Stop, DisablePool, FreeNodes, FallAsleep, StopGoes
  <2>6. CASE TestDrains
    BY <2>6 DEF TestDrains, StopGoes, NoDrain, vars
  <2>7. CASE NotifyWaiter
    BY <2>7 DEF NotifyWaiter, NoDrain, vars
  <2>8. CASE WaitStep \/ SpuriousWakeup
    BY <2>8 DEF WaitStep, WaitTests, WaitSleeps, SpuriousWakeup, vars, NoDrain
  <2> QED BY <2>1, <2>2, <2>3, <2>4, <2>5, <2>6, <2>7, <2>8
          DEF StopNext, StopStep, allVars, vars, stopVars
<1> QED BY <1>1, <1>2, StopSInv, PTL DEF StopSpec

\* While callbacks return within the 1 ms of their drains, no queue of a live
\* connection is left without a send in progress or a drain to come.
THEOREM QueueIsServed == StopSpec => []QueueServed
<1>1. StopInit => QInv
  BY InitQInv DEF StopInit
<1>2. SInv /\ QInv /\ [StopNext]_allVars => QInv'
  BY StopNextIsNext, NextServes
<1>3. QInv => QueueServed
  BY DEF QInv
<1> QED BY <1>1, <1>2, <1>3, StopSInv, PTL DEF StopSpec

\* No notify of cv_ is lost, but for the one that "missed" stands for, although
\* the threads that notify do not hold wait_mtx_.
THEOREM NoNotifyIsLost == StopSpec => []NoLostNotify
<1> DEFINE Heard ==
      /\ stopper \in {"falling", "asleep"} /\ ~missed => ~NoDrain \/ notifying > 0
      /\ stopper = "notify" => waiter # "falling"
      /\ stopper = "returned" => waiter \in {"test", "returned"}
<1>1. StopInit => Heard
  BY DEF StopInit
<1>2. SInv /\ StopTyped /\ Heard /\ [StopNext]_allVars => Heard'
  <2> SUFFICES ASSUME SInv, StopTyped, Heard, [StopNext]_allVars PROVE Heard'
    OBVIOUS
  <2>1. CASE UNCHANGED allVars
    BY <2>1 DEF allVars, vars, stopVars, NoDrain
  <2>2. CASE PoolStep
    BY <2>2 DEF PoolStep, PoolRuns, stopVars
  <2>3. CASE DrainStep
    <3>0. PICK n \in Nodes, g \in Generations : Drain(n, g)
      BY <2>3 DEF DrainStep, Drains
    <3>1. UNCHANGED stopVars /\ notifying \in Nat
      BY <2>3 DEF DrainStep, SInv, Typed
    <3>2. CASE UNCHANGED <<drains, notifying>>
      BY <3>1, <3>2 DEF stopVars, NoDrain
    <3>3. CASE DrainEnds(n, g)
      <4>1. NoDrain' => notifying' = notifying + 1
        BY <3>3 DEF NoDrain, DrainEnds
      <4>2. ~NoDrain' \/ notifying' > 0
        BY <3>1, <4>1
      <4> QED BY <3>1, <4>2 DEF stopVars
    <3> QED BY <3>0, <3>2, <3>3 DEF Drain
  <2>4. CASE DrainNotifies
    BY <2>4 DEF DrainNotifies, StopTyped
  <2>5. CASE Stop \/ DisablePool \/ FreeNodes
    BY <2>5 DEF Stop, DisablePool, FreeNodes, StopGoes
  <2>6. CASE TestDrains
    BY <2>6 DEF TestDrains, StopGoes, NoDrain, vars
  <2>7. CASE FallAsleep
    BY <2>7 DEF FallAsleep, StopGoes, NoDrain, vars
  <2>8. CASE NotifyWaiter
    BY <2>8 DEF NotifyWaiter, StopTyped
  <2>9. CASE WaitStep
    BY <2>9 DEF WaitStep, WaitTests, WaitSleeps, running, NoDrain, vars
  <2>10. CASE SpuriousWakeup
    BY <2>10 DEF SpuriousWakeup, NoDrain, vars
  <2> QED BY <2>1, <2>2, <2>3, <2>4, <2>5, <2>6, <2>7, <2>8, <2>9, <2>10
          DEF StopNext, StopStep
<1>3. Heard => NoLostNotify
  BY DEF NoLostNotify
<1> QED BY <1>1, <1>2, <1>3, StopSInv, StopIsTyped, PTL DEF StopSpec
=============================================================================
