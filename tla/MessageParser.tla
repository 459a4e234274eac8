--------------------------- MODULE MessageParser ---------------------------
(***************************************************************************)
(* The stream parser at the receiving end of every connection              *)
(* (src/protocol/message_parser.cpp), as functions of its state.           *)
(*                                                                         *)
(* A packet is a record with the fields of its header (magic: whether it   *)
(* is PROTOCOL_MAGIC, length: body_length) and whatever else its sender    *)
(* puts in; byte j of packet p on the wire is <<p, j>>.  TCP delivers the  *)
(* bytes in order and cuts them anywhere.                                  *)
(***************************************************************************)
EXTENDS Naturals, Sequences

CONSTANTS
    HeaderSize,  \* HEADER_SIZE: 13 in the code
    MaxBody      \* MAX_BODY_LENGTH

ASSUME ParserAssumption == HeaderSize \in Nat \ {0} /\ MaxBody \in Nat \ {0}

\* The bytes of a packet on the wire.
Bytes(p) == [j \in 1 .. HeaderSize + p.length |-> <<p, j>>]

NoHeader == [magic |-> FALSE, length |-> 0]

\* deserialize_header(): the fields of a header, if the bytes are one.  Of
\* anything else the model reads no magic.
DeserializeHeader(bytes) ==
    LET p == bytes[1][1]
    IN  IF bytes = [j \in 1..HeaderSize |-> <<p, j>>] THEN p ELSE NoHeader

\* A new parser, and one after reset().
NewParser == [buf |-> <<>>, read_pos |-> 0, state |-> "WAIT_HEADER",
              pending |-> NoHeader]

Readable(P) == Len(P.buf) - P.read_pos

\* The next n bytes to read.
Ahead(P, n) == SubSeq(P.buf, P.read_pos + 1, P.read_pos + n)

\* Mutant of Compact: read_pos_ is not set back.
CompactKeepsPos(P) == [P EXCEPT !.buf = SubSeq(P.buf, P.read_pos + 1, Len(P.buf))]

\* compact(): what was read is erased.
Compact(P) ==
    [P EXCEPT !.buf = SubSeq(P.buf, P.read_pos + 1, Len(P.buf)), !.read_pos = 0]

\* feed().
Feed(P, data) ==
    IF P.state = "POISONED" THEN P
    ELSE LET Q == IF P.read_pos > Len(P.buf) \div 2 THEN Compact(P) ELSE P
         IN  [Q EXCEPT !.buf = @ \o data]

\* The first part of next_packet(): a header that is complete is consumed, and
\* a bad one poisons the parser for good.
ReadHeader(P) ==
    IF P.state # "WAIT_HEADER" \/ Readable(P) < HeaderSize THEN P
    ELSE LET h == DeserializeHeader(Ahead(P, HeaderSize))
         IN  [P EXCEPT !.read_pos = @ + HeaderSize, !.pending = h,
                       !.state = IF h.magic /\ h.length <= MaxBody
                                 THEN "WAIT_BODY" ELSE "POISONED"]

\* Mutant of BodyIsHere: an empty body waits for a byte behind it.
BodyAndMore(P) == P.state = "WAIT_BODY" /\ Readable(P) > P.pending.length

BodyIsHere(P) == P.state = "WAIT_BODY" /\ Readable(P) >= P.pending.length

\* next_packet(): whether it returns OK, with which packet, and the parser
\* afterwards.
NextPacket(P) ==
    LET Q == ReadHeader(P)
    IN  IF ~BodyIsHere(Q) THEN [ok |-> FALSE, parser |-> Q]
        ELSE [ok |-> TRUE,
              header |-> Q.pending,
              body |-> Ahead(Q, Q.pending.length),
              parser |-> [Q EXCEPT !.read_pos = @ + Q.pending.length,
                                   !.state = "WAIT_HEADER"]]
=============================================================================
