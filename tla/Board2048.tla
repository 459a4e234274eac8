----------------------------- MODULE Board2048 -----------------------------
(***************************************************************************)
(* The rules of the 2048 board (plugins/app_2048/app_2048_logic.cpp) as    *)
(* functions of the board: a board maps each cell <<x, y>> to its tile, 0  *)
(* for an empty cell.  The uint32 tiles cannot overflow: no board of the   *)
(* code's 16 cells holds a tile above 2^17.                                *)
(***************************************************************************)
EXTENDS Naturals, Sequences, FiniteSetsExt

CONSTANT N  \* kBoardSize

ASSUME BoardAssumption == N \in Nat /\ N >= 2

Directions == {"Left", "Right", "Up", "Down"}

Cells == (0 .. N-1) \X (0 .. N-1)

EmptyBoard == [c \in Cells |-> 0]

-----------------------------------------------------------------------------
(* Lines of the board, seen in the direction of a move: place 1 of a line  *)
(* is its destination side.                                                *)

Sideways(d) == d \in {"Left", "Right"}

\* fill_indices(): the cell at place k of a line.
CellAt(d, line, k) ==
    LET i == IF d \in {"Right", "Down"} THEN N - k ELSE k - 1
    IN  IF Sideways(d) THEN <<i, line>> ELSE <<line, i>>

\* The line a cell is on, and its place there.
LineNo(d, c) == IF Sideways(d) THEN c[2] ELSE c[1]
Place(d, c) == CHOOSE k \in 1..N : CellAt(d, LineNo(d, c), k) = c

Line(tiles, d, line) == [k \in 1..N |-> tiles[CellAt(d, line, k)]]

\* The first loop of compress_line(): the tiles among the first k places.
PackedUpTo(line) ==
    LET upto[k \in 0..Len(line)] ==
          IF k = 0 THEN <<>>
          ELSE IF line[k] # 0 THEN Append(upto[k-1], line[k]) ELSE upto[k-1]
    IN  upto

Packed(line) == PackedUpTo(line)[Len(line)]

\* Mutant of Merge: the tile that was merged away is not passed over.
MergeTwice(packed) ==
    LET from[i \in Nat] ==
          IF i > Len(packed) THEN <<>>
          ELSE IF i < Len(packed) /\ packed[i] = packed[i+1]
          THEN <<[tile |-> 2 * packed[i], merged |-> TRUE]>> \o from[i+1]
          ELSE <<[tile |-> packed[i], merged |-> FALSE]>> \o from[i+1]
    IN  from[1]

\* The second loop, from tile i on: equal neighbours become one tile of twice
\* their value, which is passed over.
MergedFrom(packed) ==
    LET from[i \in Nat] ==
          IF i > Len(packed) THEN <<>>
          ELSE IF i < Len(packed) /\ packed[i] = packed[i+1]
          THEN <<[tile |-> 2 * packed[i], merged |-> TRUE]>> \o from[i+2]
          ELSE <<[tile |-> packed[i], merged |-> FALSE]>> \o from[i+1]
    IN  from

Merge(packed) == MergedFrom(packed)[1]

\* compress_line(): the tiles of a line afterwards and which of them are
\* products of a merge.
Compress(line) ==
    LET result == Merge(Packed(line))
    IN  [k \in DOMAIN line |-> IF k <= Len(result) THEN result[k]
                              ELSE [tile |-> 0, merged |-> FALSE]]

-----------------------------------------------------------------------------
(* What move() does with all lines before it spawns.                       *)

\* A cell of the board after the lines are compressed.
Slid(tiles, d, c) == Compress(Line(tiles, d, LineNo(d, c)))[Place(d, c)]

Slide(tiles, d) == [c \in Cells |-> Slid(tiles, d, c).tile]

MergedBy(tiles, d) == {c \in Cells : Slid(tiles, d, c).merged}

\* score_delta.
Gain(tiles, d) ==
    LET after == Slide(tiles, d)
    IN  MapThenSumSet(LAMBDA c : after[c], MergedBy(tiles, d))

\* spawn_random_tile(): the boards it may leave, with the tile it put there.
Spawned(tiles) ==
    LET empties == {c \in Cells : tiles[c] = 0}
    IN  IF empties = {} THEN {[tiles |-> tiles, tile |-> 0]}
        ELSE {[tiles |-> [tiles EXCEPT ![c] = v], tile |-> v] :
                c \in empties, v \in {2, 4}}

\* Mutant of AnyMovePossible: neighbours are looked for in rows alone.
AnyMoveInRows(tiles) ==
    \/ \E c \in Cells : tiles[c] = 0
    \/ \E x \in 0 .. N-2, y \in 0 .. N-1 : tiles[<<x, y>>] = tiles[<<x+1, y>>]

\* any_move_possible().
AnyMovePossible(tiles) ==
    \/ \E c \in Cells : tiles[c] = 0
    \/ \E x \in 0 .. N-2, y \in 0 .. N-1 : tiles[<<x, y>>] = tiles[<<x+1, y>>]
    \/ \E x \in 0 .. N-1, y \in 0 .. N-2 : tiles[<<x, y>>] = tiles[<<x, y+1>>]

-----------------------------------------------------------------------------
(* The rules stated without the code's loops.                              *)

\* The tiles that merge with the one behind them: each one that equals it and
\* has not itself been merged into the one before.
FirstOfPair(packed) ==
    CHOOSE P \in SUBSET (1 .. Len(packed) - 1) :
      \A i \in 1 .. Len(packed) - 1 :
         i \in P <=> packed[i] = packed[i+1] /\ i-1 \notin P

\* The place that tile i of the packed line comes to.
Comes(packed, i) == i - Cardinality({j \in FirstOfPair(packed) : j < i})

\* "Adjacent equal tiles merge once per move" toward the destination
\* (docs/design/2048.md:127): the compressed line has, in order, one tile for
\* each pair and each tile left over, and empty cells behind them.
MergesOnce(line) ==
    LET packed == Packed(line)
        sources(k) == {i \in DOMAIN packed : Comes(packed, i) = k}
    IN  \A k \in DOMAIN line :
          /\ Compress(line)[k].tile = MapThenSumSet(LAMBDA i : packed[i], sources(k))
          /\ Compress(line)[k].merged <=> Cardinality(sources(k)) = 2

\* What a tile has earned on its way, had every part been spawned as a 2.
Worth[v \in Nat] == IF v <= 2 THEN 0 ELSE v + 2 * Worth[v \div 2]
=============================================================================
