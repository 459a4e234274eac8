------------------------------ MODULE AppHost ------------------------------
(***************************************************************************)
(* The AppHost process (src/apphost/apphost.cpp) around its UI host: it    *)
(* connects to the Gateway, says APPHOST_READY, loads the plugin and       *)
(* starts the reader thread, whose MessageHandler cuts packets out of the  *)
(* stream (src/common/message_handler.cpp) and gives them to the handlers. *)
(* From then on it is UiHost, with its inputs and quits coming from there. *)
(***************************************************************************)
EXTENDS UiHost, MessageParser, SequencesExt

CONSTANTS
    ConnectAttempts,  \* kConnectAttempts: 5 in the code
    MaxSent           \* bound on the packets of the Gateway

ASSUME AppHostAssumption ==
    /\ ConnectAttempts \in Nat \ {0}
    /\ MaxSent \in Nat

VARIABLES
    stage,    \* how far run() is: "connect", "ready", "open", "run", "failed"
    attempts, \* of connect_to_gateway()
    rest,     \* bytes of the last packet that recv() has yet to return
    parser,   \* the MessageParser of handler_
    feeding,  \* the reader is in handler_.feed(), with a packet to handle
    sent,     \* packets of which recv() has returned a byte (history)
    taken     \* packets next_packet() handed out (history)

setupVars == <<stage, attempts>>
streamVars == <<rest, parser, feeding, sent, taken>>
appVars == <<vars, setupVars, streamVars>>

AppInit ==
    /\ Init
    /\ stage = "connect" /\ attempts = 0
    /\ rest = <<>> /\ parser = NewParser /\ feeding = FALSE
    /\ sent = <<>> /\ taken = <<>>

-----------------------------------------------------------------------------
(* The Gateway at the other end.                                           *)

\* Packet n of a kind: an INPUT_EVENT that parses, a CLOSE_SESSION, one with a
\* wrong header, or any other: an INPUT_EVENT that does not parse, a HEARTBEAT,
\* a type that has no handler.
Packet(n, kind) ==
    [n |-> n, cmd |-> kind, magic |-> kind # "BAD",
     length |-> IF kind \in {"INPUT", "OTHER"} THEN 1 ELSE 0]

Kinds == {"INPUT", "CLOSE", "BAD", "OTHER"}

-----------------------------------------------------------------------------
(* run() up to the plugin's start.  A "failed" AppHost has closed its socket *)
(* and exits.                                                              *)

\* connect_to_gateway(): one attempt, or no socket to make it with.
Connect ==
    /\ stage = "connect"
    /\ \/ stage' \in {"ready", "failed"} /\ UNCHANGED attempts
       \/ /\ attempts' = attempts + 1
          /\ stage' = IF attempts' = ConnectAttempts THEN "failed" ELSE stage
    /\ UNCHANGED <<vars, streamVars>>

\* send_apphost_ready(), which fails if the connection is gone again.
SendReady ==
    /\ stage = "ready" /\ stage' \in {"open", "failed"}
    /\ UNCHANGED <<vars, attempts, streamVars>>

\* plugin_.open(), and the reader thread.
OpenPlugin ==
    /\ stage = "open" /\ stage' \in {"run", "failed"}
    /\ UNCHANGED <<vars, attempts, streamVars>>

-----------------------------------------------------------------------------
(* reader_loop().                                                          *)

\* What is left of feed() when P is the parser: next_packet() finds a packet,
\* which the reader has yet to handle, or the reader is back in its own loop.
Settle(P) ==
    \E next \in {NextPacket(P)} :
       /\ parser' = IF next.ok THEN P ELSE next.parser
       /\ feeding' = next.ok

\* recv() returns bytes and feed() takes them: what is left of the last packet,
\* up to its end or not, and then packets of these kinds, the last one up to
\* its byte `upto'.
Receive(kinds, upto) ==
    /\ stage = "run" /\ thread[Reader] = "idle" /\ ~feeding /\ ~shutting_down
    /\ Len(sent) + Len(kinds) <= MaxSent
    /\ LET packets == [i \in DOMAIN kinds |-> Packet(Len(sent) + i, kinds[i])]
           last == IF kinds = <<>> THEN rest ELSE Bytes(packets[Len(kinds)])
           before == IF kinds = <<>> THEN <<>>
                     ELSE rest \o FlattenSeq([i \in 1 .. Len(kinds)-1 |-> Bytes(packets[i])])
       IN  /\ upto \in DOMAIN last
           /\ \E P \in {Feed(parser, before \o SubSeq(last, 1, upto))} : Settle(P)
           /\ rest' = SubSeq(last, upto + 1, Len(last))
           /\ sent' = sent \o packets
    /\ UNCHANGED <<vars, setupVars, taken>>

\* The registered handlers: HEARTBEAT is echoed, which changes nothing here,
\* an INPUT_EVENT that does not parse is dropped, and other types have no
\* handler.  A second quit changes nothing.
Handle(p) ==
    \/ p.cmd = "INPUT" /\ ReaderInput
    \/ p.cmd = "CLOSE" /\ ReaderClose
    \/ p.cmd = "CLOSE" /\ quit_flag /\ UNCHANGED vars
    \/ p.cmd \notin {"INPUT", "CLOSE"} /\ UNCHANGED vars

\* One round of MessageHandler::feed()'s loop.
HandlePacket ==
    /\ feeding /\ thread[Reader] = "idle"
    /\ \E next \in {NextPacket(parser)} :
          /\ Settle(next.parser)
          /\ taken' = Append(taken, next.header)
          /\ Handle(next.header)
    /\ UNCHANGED <<setupVars, rest, sent>>

\* The reader's loop ends: recv() fails or finds the end of the stream, or
\* shutting_down_ is set.
ReaderEnds ==
    /\ stage = "run" /\ ~feeding
    /\ ReaderEof \/ ReaderStops
    /\ UNCHANGED <<setupVars, streamVars>>

\* The rest of a call into the host that a thread has begun.
HostCall(t) ==
    /\ ReturnFromNotify(t) \/ (t = Reader /\ ReaderPostDrain)
    /\ UNCHANGED <<setupVars, streamVars>>

-----------------------------------------------------------------------------
(* The threads that are UiHost's alone.                                    *)

Main(step) == stage = "run" /\ step /\ UNCHANGED <<setupVars, streamVars>>

Worker(t) ==
    /\ stage = "run"
    /\ WorkerPosts(t) \/ WorkerQuits(t)
    /\ UNCHANGED <<setupVars, streamVars>>

-----------------------------------------------------------------------------

Starting == Connect \/ SendReady \/ OpenPlugin

AppNext ==
    \/ Starting
    \/ \E kinds \in UNION {[1..n -> Kinds] : n \in 0..MaxSent} :
          \E upto \in 1 .. HeaderSize + MaxBody : Receive(kinds, upto)
    \/ HandlePacket \/ ReaderEnds
    \/ \E t \in Threads : HostCall(t)
    \/ Main(MainStep) \/ Main(Setup) \/ Main(SpuriousWakeup)
    \/ \E t \in Workers : Worker(t)

AppSpec == AppInit /\ [][AppNext]_appVars

\* What each thread does next when it need not wait for anyone, nor choose to.
ReaderProceeds ==
    \/ \E upto \in DOMAIN rest : Receive(<<>>, upto)
    \/ HandlePacket \/ HostCall(Reader)
    \/ shutting_down /\ ReaderEnds

\* UiHost's fairness, thread by thread, and an AppHost that starts: attempts to
\* connect return, and a packet that has begun to arrive does so to its end.
AppFairness ==
    /\ WF_appVars(Starting)
    /\ WF_appVars(Main(MainStep) \/ Main(Setup /\ main' # "setup"))
    /\ WF_appVars(ReaderProceeds)
    /\ \A t \in Workers : WF_appVars(HostCall(t))

FairAppSpec == AppSpec /\ AppFairness

-----------------------------------------------------------------------------
(* Properties.                                                             *)

\* Up to the first packet with a bad header, and nothing behind it.
Good(s) == \A i \in DOMAIN s : s[i].magic

\* However TCP cuts the stream, the packets handed out are those sent, in
\* order, each once and none behind a bad header; and when the reader
\* is back in recv() with nothing left to receive, none is held back.
\* Behind a bad header this follows docs/design/message_parser.md:73-75,229 and
\* the test BadMagicPoisons: the parser is poisoned for good, the code says so
\* too (message_parser.cpp:23,27).  docs/design/protocol_spec.md:320-321,340-348
\* disagrees with them: it wants the parser to slide on by one byte until it
\* finds a header again, and to disconnect after some failures.
StreamParsed ==
    /\ Len(taken) <= Len(sent)
    /\ taken = SubSeq(sent, 1, Len(taken)) /\ Good(taken)
    /\ rest = <<>> /\ ~feeding =>
          \A i \in DOMAIN sent : Good(SubSeq(sent, 1, i)) => i <= Len(taken)

\* A CLOSE_SESSION with no bad header before it ends an AppHost that got to
\* run its plugin, whatever is sent before and behind it.
CloseEndsProcess ==
    \A i \in 1..MaxSent :
       i <= Len(sent) /\ Good(SubSeq(sent, 1, i)) /\ sent[i].cmd = "CLOSE"
          ~> main = "exit" \/ stage = "failed"
=============================================================================
