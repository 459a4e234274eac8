-------------------------- MODULE Board2048Proofs --------------------------
(***************************************************************************)
(* What compress_line(), any_move_possible() and move()'s score_delta      *)
(* compute, for every board size and every tiles.  The recursive functions *)
(* are proved to exist by building them value by value.                    *)
(***************************************************************************)
EXTENDS Board2048, Induction, SequenceTheorems, TLAPS

Tiles == Nat \ {0}
Lines == [1..N -> Nat]
Spots == [tile : Tiles, merged : BOOLEAN]

-----------------------------------------------------------------------------
(* The first loop of compress_line().                                      *)

\* The value of PackedUpTo at k, from that at k - 1.
PackStep(line, u, k) ==
    IF k = 0 THEN <<>>
    ELSE IF line[k] # 0 THEN Append(u[k-1], line[k]) ELSE u[k-1]

\* A line of the board is a sequence of N numbers.
LEMMA LineIsSeq ==
    ASSUME NEW line \in Lines
    PROVE  line \in Seq(Nat) /\ Len(line) = N /\ DOMAIN line = 1..N
BY BoardAssumption, SeqDef DEF Lines

LEMMA PackedUpToIs ==
    ASSUME NEW line \in Seq(Nat)
    PROVE  PackedUpTo(line) = [k \in 0..Len(line) |-> PackStep(line, PackedUpTo(line), k)]
<1>0. PICK L \in Nat : L = Len(line) /\ DOMAIN line = 1..L /\ \A k \in 1..L : line[k] \in Nat
  OBVIOUS
<1> DEFINE Upto(n, u) == /\ u = [k \in 0..L |-> u[k]]
                         /\ \A k \in 0..L : k <= n => u[k] = PackStep(line, u, k)
           S == {n \in Nat : \E u : Upto(n, u)}
<1>1. 0 \in S
  <2>1. Upto(0, [k \in 0..L |-> <<>>])
    BY DEF PackStep
  <2> HIDE DEF Upto
  <2> QED BY <2>1
<1>2. ASSUME NEW n \in Nat, n \in S PROVE n + 1 \in S
  <2>1. PICK u : Upto(n, u)
    BY <1>2
  <2> DEFINE v == [k \in 0..L |-> IF k = n+1 THEN PackStep(line, u, n+1) ELSE u[k]]
  <2>2. /\ v = [k \in 0..L |-> v[k]]
        /\ n+1 \in 0..L => v[n+1] = PackStep(line, u, n+1)
        /\ \A k \in 0..L : k <= n => v[k] = u[k]
    OBVIOUS
  <2> HIDE DEF v
  <2>3. ASSUME NEW k \in 0..L, k <= n+1 PROVE PackStep(line, v, k) = PackStep(line, u, k)
    <3>1. k # 0 => k-1 \in 0..L /\ k-1 <= n
      BY <2>3
    <3> QED BY <2>2, <3>1 DEF PackStep
  <2>4. ASSUME NEW k \in 0..L, k <= n+1 PROVE v[k] = PackStep(line, v, k)
    <3>1. k = n+1 \/ k <= n
      BY <2>4
    <3> QED BY <2>1, <2>2, <2>3, <2>4, <3>1
  <2>5. Upto(n+1, v)
    BY <2>2, <2>4
  <2> HIDE DEF Upto
  <2> QED BY <2>5
<1>3. \A n \in Nat : n \in S
  <2> HIDE DEF S
  <2> QED BY <1>1, <1>2, AllNumbers
<1>4. PICK u : Upto(L, u)
  <2> HIDE DEF Upto
  <2> QED BY <1>3
<1>5. u = [k \in 0..L |-> PackStep(line, u, k)]
  BY <1>4
<1> QED BY <1>5, <1>0 DEF PackedUpTo, PackStep

LEMMA PackedUpToSteps ==
    ASSUME NEW line \in Seq(Nat)
    PROVE  /\ PackedUpTo(line)[0] = <<>>
           /\ \A k \in 1..Len(line) : PackedUpTo(line)[k] =
                 IF line[k] # 0 THEN Append(PackedUpTo(line)[k-1], line[k])
                                ELSE PackedUpTo(line)[k-1]
<1> DEFINE U == PackedUpTo(line)
<1>1. U = [k \in 0..Len(line) |-> PackStep(line, U, k)]
  BY PackedUpToIs
<1>2. \A k \in 0..Len(line) : U[k] = PackStep(line, U, k)
  <2> HIDE DEF U
  <2> QED BY <1>1
<1> QED BY <1>2 DEF PackStep

\* Only tiles are packed, and no more than the line has places.
LEMMA PackedIsTiles ==
    ASSUME NEW line \in Seq(Nat)
    PROVE  Packed(line) \in Seq(Tiles) /\ Len(Packed(line)) \in 0..Len(line)
<1>4. PICK L \in Nat : L = Len(line) /\ DOMAIN line = 1..L /\ \A k \in 1..L : line[k] \in Nat
  OBVIOUS
<1>0. PICK U : U = PackedUpTo(line)
  OBVIOUS
<1> DEFINE S == {k \in Nat : k <= L => U[k] \in Seq(Tiles) /\ Len(U[k]) \in 0..k}
<1>1. 0 \in S
  <2>1. U[0] = <<>>
    BY <1>0, PackedUpToSteps
  <2>2. U[0] \in Seq(Tiles) /\ Len(U[0]) = 0
    BY <2>1
  <2> QED BY <2>2
<1>2. ASSUME NEW k \in Nat, k \in S PROVE k + 1 \in S
  <2> SUFFICES ASSUME k+1 <= L PROVE U[k+1] \in Seq(Tiles) /\ Len(U[k+1]) \in 0..k+1
    OBVIOUS
  <2>1. U[k] \in Seq(Tiles) /\ Len(U[k]) \in 0..k
    BY <1>2
  <2>2. k+1 \in 1..L /\ line[k+1] \in Nat
    BY <1>4
  <2>3. U[k+1] = IF line[k+1] # 0 THEN Append(U[k], line[k+1]) ELSE U[k]
    BY <1>0, <1>4, <2>2, PackedUpToSteps
  <2> QED BY <2>1, <2>2, <2>3 DEF Tiles
<1>3. \A k \in Nat : k \in S
  <2> HIDE DEF S
  <2> QED BY <1>1, <1>2, AllNumbers
<1> QED BY <1>0, <1>3, <1>4 DEF Packed

\* A line whose tiles lie together at its start is packed as it is.
LEMMA PackedPrefix ==
    ASSUME NEW line \in Lines, NEW m \in 0..N,
           \A k \in 1..m : line[k] # 0, \A k \in m+1..N : line[k] = 0
    PROVE  Len(Packed(line)) = m /\ \A k \in 1..m : Packed(line)[k] = line[k]
<1> USE BoardAssumption
<1>0. PICK U : U = PackedUpTo(line)
  OBVIOUS
<1> DEFINE Held(k) == IF k <= m THEN k ELSE m
           Prefix(k) == /\ U[k] \in Seq(Tiles) /\ Len(U[k]) = Held(k)
                        /\ \A j \in 1..Held(k) : U[k][j] = line[j]
           S == {k \in Nat : k <= N => Prefix(k)}
<1>1. 0 \in S
  <2>1. U[0] = <<>>
    BY <1>0, LineIsSeq, PackedUpToSteps
  <2>2. U[0] \in Seq(Tiles) /\ Len(U[0]) = 0
    BY <2>1
  <2> QED BY <2>2
<1>2. ASSUME NEW k \in Nat, k \in S PROVE k + 1 \in S
  <2> SUFFICES ASSUME k+1 <= N PROVE Prefix(k+1)
    OBVIOUS
  <2>1. Prefix(k)
    BY <1>2
  <2>2. k+1 \in 1..N /\ line[k+1] \in Nat
    BY DEF Lines
  <2>3. U[k+1] = IF line[k+1] # 0 THEN Append(U[k], line[k+1]) ELSE U[k]
    BY <1>0, <2>2, LineIsSeq, PackedUpToSteps
  <2>4. CASE k+1 <= m
    <3>1. line[k+1] \in Tiles /\ U[k+1] = Append(U[k], line[k+1])
      BY <2>2, <2>3, <2>4 DEF Tiles
    <3> QED BY <2>1, <2>4, <3>1
  <2>5. CASE k+1 > m
    BY <2>1, <2>2, <2>3, <2>5
  <2> QED BY <2>4, <2>5
<1>3. \A k \in Nat : k \in S
  <2> HIDE DEF S
  <2> QED BY <1>1, <1>2, AllNumbers
<1> QED BY <1>0, <1>3, LineIsSeq DEF Packed

-----------------------------------------------------------------------------
(* The second loop of compress_line().                                     *)

\* The value of MergedFrom at i, from those at i + 1 and i + 2.
MergeStep(packed, from, i) ==
    IF i > Len(packed) THEN <<>>
    ELSE IF i < Len(packed) /\ packed[i] = packed[i+1]
    THEN <<[tile |-> 2 * packed[i], merged |-> TRUE]>> \o from[i+2]
    ELSE <<[tile |-> packed[i], merged |-> FALSE]>> \o from[i+1]

LEMMA MergedFromIs ==
    ASSUME NEW packed \in Seq(Tiles)
    PROVE  MergedFrom(packed) = [i \in Nat |-> MergeStep(packed, MergedFrom(packed), i)]
<1>0. PICK L \in Nat : L = Len(packed)
  OBVIOUS
<1> DEFINE From(n, f) ==
             /\ f = [i \in Nat |-> f[i]]
             /\ \A i \in Nat : i + n > L => f[i] = MergeStep(packed, f, i)
           S == {n \in Nat : \E f : From(n, f)}
<1>1. 0 \in S
  <2>1. From(0, [i \in Nat |-> <<>>])
    BY <1>0 DEF MergeStep
  <2> HIDE DEF From
  <2> QED BY <2>1
<1>2. ASSUME NEW n \in Nat, n \in S PROVE n + 1 \in S
  <2>1. PICK f : From(n, f)
    BY <1>2
  <2> DEFINE g == [i \in Nat |-> IF i + n = L THEN MergeStep(packed, f, i) ELSE f[i]]
  <2>2. /\ g = [i \in Nat |-> g[i]]
        /\ \A i \in Nat : i + n = L => g[i] = MergeStep(packed, f, i)
        /\ \A i \in Nat : i + n > L => g[i] = f[i]
    BY <1>0
  <2> HIDE DEF g
  <2>3. ASSUME NEW i \in Nat, i + n >= L PROVE MergeStep(packed, g, i) = MergeStep(packed, f, i)
    <3>1. g[i+1] = f[i+1] /\ g[i+2] = f[i+2]
      BY <1>0, <2>2, <2>3
    <3> QED BY <3>1 DEF MergeStep
  <2>4. ASSUME NEW i \in Nat, i + (n+1) > L PROVE g[i] = MergeStep(packed, g, i)
    <3>1. CASE i + n = L
      BY <2>2, <2>3, <3>1
    <3>2. CASE i + n > L
      <4>1. f[i] = MergeStep(packed, f, i)
        BY <2>1, <3>2
      <4>2. MergeStep(packed, g, i) = MergeStep(packed, f, i)
        BY <2>3, <3>2
      <4>3. g[i] = f[i]
        BY <2>2, <3>2
      <4> QED BY <4>1, <4>2, <4>3
    <3> QED BY <2>4, <3>1, <3>2
  <2>5. From(n+1, g)
    BY <2>2, <2>4
  <2> HIDE DEF From
  <2> QED BY <2>5
<1>3. \A n \in Nat : n \in S
  <2> HIDE DEF S
  <2> QED BY <1>1, <1>2, AllNumbers
<1>4. PICK f : From(L+1, f)
  <2>1. L+1 \in S
    <3> HIDE DEF S
    <3> QED BY <1>3
  <2> HIDE DEF From
  <2> QED BY <2>1
<1>5. f = [i \in Nat |-> MergeStep(packed, f, i)]
  BY <1>0, <1>4
<1> QED BY <1>5 DEF MergedFrom, MergeStep


LEMMA MergedFromSteps ==
    ASSUME NEW packed \in Seq(Tiles)
    PROVE  /\ \A i \in Nat :
                 MergedFrom(packed)[i] = MergeStep(packed, MergedFrom(packed), i)
           /\ MergedFrom(packed)[Len(packed) + 1] = <<>>
<1>0. PICK M : M = MergedFrom(packed)
  OBVIOUS
<1>1. M = [i \in Nat |-> MergeStep(packed, M, i)]
  BY <1>0, MergedFromIs
<1>2. \A i \in Nat : M[i] = MergeStep(packed, M, i)
  BY <1>1
<1>3. PICK L \in Nat : L = Len(packed)
  OBVIOUS
<1>4. MergeStep(packed, M, L+1) = <<>>
  BY <1>3 DEF MergeStep
<1> QED BY <1>0, <1>2, <1>3, <1>4

\* Putting an element before a sequence.
LEMMA Prepended ==
    ASSUME NEW S, NEW e \in S, NEW s \in Seq(S)
    PROVE  /\ <<e>> \o s \in Seq(S) /\ Len(<<e>> \o s) = 1 + Len(s)
           /\ (<<e>> \o s)[1] = e
           /\ \A k \in 2 .. 1 + Len(s) : (<<e>> \o s)[k] = s[k-1]
<1>1. <<e>> \in Seq(S) /\ Len(<<e>>) = 1 /\ <<e>>[1] = e
  OBVIOUS
<1> QED BY <1>1

\* From tile i on, there are as many tiles as before, or fewer if two equal
\* ones are neighbours.
MergesAtMost(packed, i) ==
    LET after == MergedFrom(packed)[i] IN
    /\ after \in Seq(Spots)
    /\ Len(after) <= Len(packed) + 1 - i
    /\ (\E j \in i .. Len(packed) - 1 : packed[j] = packed[j+1])
         => Len(after) < Len(packed) + 1 - i

LEMMA MergeCounts ==
    ASSUME NEW packed \in Seq(Tiles), NEW i \in 1 .. Len(packed) + 1
    PROVE  MergesAtMost(packed, i)
<1>0. PICK L \in Nat : L = Len(packed)
  OBVIOUS
<1> DEFINE S == {n \in Nat : \A k \in 1 .. L+1 : k + n > L => MergesAtMost(packed, k)}
<1>1. 0 \in S
  <2> SUFFICES MergesAtMost(packed, L+1)
    BY DEF S
  <2>1. MergedFrom(packed)[L+1] = <<>>
    BY <1>0, MergedFromSteps
  <2> QED BY <1>0, <2>1 DEF MergesAtMost
<1>2. ASSUME NEW n \in Nat, n \in S PROVE n + 1 \in S
  <2> SUFFICES ASSUME NEW k \in 1..L, k + n = L PROVE MergesAtMost(packed, k)
    BY <1>2
  <2> DEFINE M == MergedFrom(packed)
  <2>1. M[k] = MergeStep(packed, M, k) /\ packed[k] \in Tiles
    BY <1>0, MergedFromSteps
  <2>2. MergesAtMost(packed, k+1) /\ (k < L => MergesAtMost(packed, k+2))
    BY <1>2
  <2>3. CASE k < L /\ packed[k] = packed[k+1]
    <3> DEFINE spot == [tile |-> 2 * packed[k], merged |-> TRUE]
    <3>1. spot \in Spots
      BY <2>1 DEF Spots, Tiles
    <3>2. M[k] = <<spot>> \o M[k+2]
      BY <1>0, <2>1, <2>3 DEF MergeStep
    <3>3. M[k+2] \in Seq(Spots) /\ Len(M[k+2]) <= L + 1 - (k+2)
      BY <1>0, <2>2, <2>3 DEF MergesAtMost
    <3> HIDE DEF M, spot
    <3>4. M[k] \in Seq(Spots) /\ Len(M[k]) = 1 + Len(M[k+2])
      BY <3>1, <3>2, <3>3
    <3> QED BY <1>0, <3>3, <3>4 DEF MergesAtMost, M
  <2>4. CASE ~(k < L /\ packed[k] = packed[k+1])
    <3> DEFINE spot == [tile |-> packed[k], merged |-> FALSE]
    <3>1. spot \in Spots
      BY <2>1 DEF Spots
    <3>2. M[k] = <<spot>> \o M[k+1]
      BY <1>0, <2>1, <2>4 DEF MergeStep
    <3>3. M[k+1] \in Seq(Spots) /\ Len(M[k+1]) <= L + 1 - (k+1)
      BY <1>0, <2>2 DEF MergesAtMost
    <3>4. ASSUME \E j \in k .. L-1 : packed[j] = packed[j+1]
          PROVE  Len(M[k+1]) < L + 1 - (k+1)
      <4>1. \E j \in k+1 .. L-1 : packed[j] = packed[j+1]
        BY <2>4, <3>4
      <4> QED BY <1>0, <2>2, <4>1 DEF MergesAtMost
    <3> HIDE DEF M, spot
    <3>5. M[k] \in Seq(Spots) /\ Len(M[k]) = 1 + Len(M[k+1])
      BY <3>1, <3>2, <3>3
    <3> QED BY <1>0, <3>3, <3>4, <3>5 DEF MergesAtMost, M
  <2> QED BY <2>3, <2>4
<1>3. L \in S
  <2> HIDE DEF S
  <2> QED BY <1>1, <1>2, AllNumbers
<1> QED BY <1>0, <1>3

\* Tiles that no neighbour equals stay as they are.
LEMMA NothingMerges ==
    ASSUME NEW packed \in Seq(Tiles),
           \A j \in 1 .. Len(packed) - 1 : packed[j] # packed[j+1]
    PROVE  /\ Len(Merge(packed)) = Len(packed)
           /\ \A k \in 1 .. Len(packed) : Merge(packed)[k].tile = packed[k]
<1>0. PICK L \in Nat : L = Len(packed)
  OBVIOUS
<1>4. PICK M : M = MergedFrom(packed)
  OBVIOUS
<1> DEFINE Stays(i) == /\ M[i] \in Seq(Spots) /\ Len(M[i]) = L + 1 - i
                       /\ \A k \in 1 .. L + 1 - i : M[i][k].tile = packed[i + k - 1]
           S == {n \in Nat : \A i \in 1 .. L+1 : i + n > L => Stays(i)}
<1>1. 0 \in S
  <2> SUFFICES Stays(L+1)
    <3> HIDE DEF Stays
    <3> QED OBVIOUS
  <2>1. M[L+1] = <<>>
    BY <1>0, <1>4, MergedFromSteps
  <2> QED BY <2>1
<1>2. ASSUME NEW n \in Nat, n \in S PROVE n + 1 \in S
  <2> SUFFICES ASSUME NEW i \in 1..L, i + n = L PROVE Stays(i)
    <3> HIDE DEF Stays
    <3> QED BY <1>2
  <2>1. M[i] = MergeStep(packed, M, i) /\ packed[i] \in Tiles
    BY <1>0, <1>4, MergedFromSteps
  <2>2. Stays(i+1)
    <3> HIDE DEF Stays
    <3> QED BY <1>2
  <2> DEFINE spot == [tile |-> packed[i], merged |-> FALSE]
  <2>3. spot \in Spots /\ spot.tile = packed[i]
    BY <2>1 DEF Spots
  <2>4. M[i] = <<spot>> \o M[i+1]
    <3>1. ~(i < L /\ packed[i] = packed[i+1])
      BY <1>0
    <3> QED BY <1>0, <2>1, <3>1 DEF MergeStep
  <2> HIDE DEF spot
  <2>5. /\ M[i] \in Seq(Spots) /\ Len(M[i]) = 1 + Len(M[i+1]) /\ M[i][1] = spot
        /\ \A k \in 2 .. 1 + Len(M[i+1]) : M[i][k] = M[i+1][k-1]
    <3>1. M[i+1] \in Seq(Spots)
      BY <2>2
    <3> QED BY <2>3, <2>4, <3>1, Prepended
  <2>6. ASSUME NEW k \in 1 .. L + 1 - i PROVE M[i][k].tile = packed[i + k - 1]
    <3>1. CASE k = 1
      BY <2>3, <2>5, <3>1
    <3>2. CASE k > 1
      <4>1. k-1 \in 1 .. L + 1 - (i+1) /\ k \in 2 .. 1 + Len(M[i+1])
        BY <2>2, <3>2
      <4>2. M[i+1][k-1].tile = packed[(i+1) + (k-1) - 1]
        BY <2>2, <4>1
      <4> QED BY <2>5, <4>1, <4>2
    <3> QED BY <3>1, <3>2
  <2> QED BY <2>2, <2>5, <2>6
<1>3. L \in S
  <2> HIDE DEF S
  <2> QED BY <1>1, <1>2, AllNumbers
<1>5. Stays(1)
  <2> HIDE DEF Stays
  <2> QED BY <1>3
<1> QED BY <1>0, <1>4, <1>5 DEF Merge


-----------------------------------------------------------------------------
(* compress_line() as a whole.                                             *)

\* The compressed tiles lead the line, the rest is empty.
LEMMA CompressIs ==
    ASSUME NEW line \in Seq(Nat)
    PROVE  \E result \in Seq(Spots) :
             /\ result = Merge(Packed(line)) /\ Len(result) <= Len(Packed(line))
             /\ Len(result) \in 0..Len(line)
             /\ \A k \in 1..Len(line) :
                  Compress(line)[k] = IF k <= Len(result) THEN result[k]
                                      ELSE [tile |-> 0, merged |-> FALSE]
<1>0. PICK L \in Nat : L = Len(line) /\ DOMAIN line = 1..L /\ \A k \in 1..L : line[k] \in Nat
  OBVIOUS
<1>1. Packed(line) \in Seq(Tiles) /\ Len(Packed(line)) \in 0..L
  BY <1>0, PackedIsTiles
<1>2. 1 \in 1 .. Len(Packed(line)) + 1
  BY <1>1
<1>3. Merge(Packed(line)) \in Seq(Spots) /\ Len(Merge(Packed(line))) <= Len(Packed(line))
  <2>1. MergesAtMost(Packed(line), 1)
    BY <1>1, <1>2, MergeCounts
  <2>2. Len(Packed(line)) + 1 - 1 = Len(Packed(line))
    BY <1>1
  <2> QED BY <2>1, <2>2 DEF MergesAtMost, Merge
<1>4. Len(Merge(Packed(line))) \in 0..L
  BY <1>1, <1>3
<1> QED BY <1>3, <1>4, <1>0 DEF Compress

LEMMA CompressHasType ==
    ASSUME NEW line \in Lines, NEW k \in 1..N
    PROVE  Compress(line)[k] \in [tile : Nat, merged : BOOLEAN]
<1>1. PICK result \in Seq(Spots) :
         Compress(line)[k] = IF k <= Len(result) THEN result[k]
                             ELSE [tile |-> 0, merged |-> FALSE]
  BY LineIsSeq, CompressIs
<1>2. k <= Len(result) => result[k] \in Spots
  BY BoardAssumption
<1> QED BY <1>1, <1>2 DEF Spots, Tiles

Fixed(line) == \A k \in 1..N : Compress(line)[k].tile = line[k]

\* A line that a move leaves as it is: no tile behind an empty cell, and none
\* behind its equal.
Resting(line) ==
    /\ \A j, k \in 1..N : j < k /\ line[j] = 0 => line[k] = 0
    /\ \A k \in 1 .. N-1 : line[k] # 0 => line[k] # line[k+1]

\* What leaves out a line's empty cells is what has its tiles in front.
LEMMA FixedIsResting ==
    ASSUME NEW line \in Lines, Fixed(line) PROVE Resting(line)
<1> USE BoardAssumption
<1>1. PICK result \in Seq(Spots) :
         /\ result = Merge(Packed(line))
         /\ Len(result) \in 0..N
         /\ \A k \in 1..N :
              Compress(line)[k] = IF k <= Len(result) THEN result[k]
                                  ELSE [tile |-> 0, merged |-> FALSE]
  BY LineIsSeq, CompressIs
<1> DEFINE m == Len(result)
<1>2. ASSUME NEW k \in 1..N PROVE line[k] = 0 <=> k > m
  <2>1. CASE k <= m
    <3>1. result[k] \in Spots
      BY <1>1, <2>1
    <3>2. line[k] = result[k].tile
      BY <1>1, <2>1 DEF Fixed
    <3> QED BY <2>1, <3>1, <3>2, <1>1 DEF Spots, Tiles
  <2>2. CASE k > m
    BY <1>1, <2>2 DEF Fixed
  <2> QED BY <1>1, <2>1, <2>2
<1>3. Len(Packed(line)) = m /\ \A k \in 1..m : Packed(line)[k] = line[k]
  <2>1. /\ m \in 0..N
        /\ \A k \in 1..m : line[k] # 0
        /\ \A k \in m+1 .. N : line[k] = 0
    BY <1>1, <1>2
  <2> HIDE DEF m
  <2> QED BY <2>1, PackedPrefix
<1>4. ASSUME NEW k \in 1 .. N-1, line[k] # 0 PROVE line[k] # line[k+1]
  <2> SUFFICES ASSUME line[k] = line[k+1] PROVE FALSE
    OBVIOUS
  <2>1. k \in 1..N /\ k+1 \in 1..N /\ line[k+1] # 0
    BY <1>4
  <2>2. k+1 <= m
    BY <1>1, <1>2, <2>1
  <2>3. k \in 1 .. m-1 /\ Packed(line)[k] = Packed(line)[k+1]
    BY <1>1, <1>3, <2>2
  <2>4. Packed(line) \in Seq(Tiles) /\ 1 \in 1 .. Len(Packed(line)) + 1
    BY <1>1, <1>3, LineIsSeq, PackedIsTiles
  <2>5. MergesAtMost(Packed(line), 1)
    BY <2>4, MergeCounts
  <2>6. m < m + 1 - 1
    BY <1>1, <1>3, <2>3, <2>5 DEF MergesAtMost, Merge
  <2> QED BY <1>1, <2>6
<1> QED BY <1>1, <1>2, <1>4 DEF Resting

LEMMA RestingIsFixed ==
    ASSUME NEW line \in Lines, Resting(line) PROVE Fixed(line)
<1> USE BoardAssumption
<1>1. PICK m \in 0..N : \A k \in 1..N : line[k] = 0 <=> k > m
  <2> DEFINE Empty == {k \in 1..N : line[k] = 0}
  <2>1. CASE Empty = {}
    BY <2>1
  <2>2. CASE Empty # {}
    <3>1. PICK k \in Empty : \A j \in Empty : k <= j
      <4>1. Empty \in SUBSET Nat /\ \E n : n \in Empty
        BY <2>2
      <4> HIDE DEF Empty
      <4> QED BY <4>1, LeastNumber
    <3>2. \A j \in 1..N : line[j] = 0 <=> j > k-1
      BY <3>1 DEF Resting
    <3> QED BY <3>1, <3>2
  <2> QED BY <2>1, <2>2
<1>2. Len(Packed(line)) = m /\ \A k \in 1..m : Packed(line)[k] = line[k]
  <2>1. (\A k \in 1..m : line[k] # 0) /\ \A k \in m+1 .. N : line[k] = 0
    BY <1>1
  <2> QED BY <2>1, PackedPrefix
<1>3. Packed(line) \in Seq(Tiles)
  BY LineIsSeq, PackedIsTiles
<1>4. \A k \in 1 .. m-1 : Packed(line)[k] # Packed(line)[k+1]
  BY <1>1, <1>2 DEF Resting
<1>5. /\ Len(Merge(Packed(line))) = m
      /\ \A k \in 1..m : Merge(Packed(line))[k].tile = line[k]
  BY <1>2, <1>3, <1>4, NothingMerges
<1>6. ASSUME NEW k \in 1..N PROVE Compress(line)[k].tile = line[k]
  <2>1. Compress(line)[k] = IF k <= m THEN Merge(Packed(line))[k]
                            ELSE [tile |-> 0, merged |-> FALSE]
    BY <1>5, LineIsSeq, CompressIs
  <2> QED BY <1>1, <1>5, <2>1
<1> QED BY <1>6 DEF Fixed

-----------------------------------------------------------------------------
(* The board.                                                              *)

\* Every cell is at one place of one line.
LEMMA CellsAndLines ==
    ASSUME NEW d \in Directions
    PROVE  /\ \A c \in Cells : /\ LineNo(d, c) \in 0 .. N-1 /\ Place(d, c) \in 1..N
                               /\ CellAt(d, LineNo(d, c), Place(d, c)) = c
           /\ \A l \in 0 .. N-1, k \in 1..N :
                 /\ CellAt(d, l, k) \in Cells
                 /\ LineNo(d, CellAt(d, l, k)) = l /\ Place(d, CellAt(d, l, k)) = k
<1> USE BoardAssumption
<1>1. ASSUME NEW c \in Cells
      PROVE  LineNo(d, c) \in 0 .. N-1 /\ \E k \in 1..N : CellAt(d, LineNo(d, c), k) = c
  <2>1. PICK x \in 0 .. N-1, y \in 0 .. N-1 : c = <<x, y>>
    BY DEF Cells
  <2>2. CASE d = "Left"
    <3>1. x+1 \in 1..N /\ CellAt(d, LineNo(d, c), x+1) = c
      BY <2>1, <2>2 DEF CellAt, LineNo, Sideways
    <3> QED BY <2>1, <2>2, <3>1 DEF LineNo, Sideways
  <2>3. CASE d = "Right"
    <3>1. N-x \in 1..N /\ CellAt(d, LineNo(d, c), N-x) = c
      BY <2>1, <2>3 DEF CellAt, LineNo, Sideways
    <3> QED BY <2>1, <2>3, <3>1 DEF LineNo, Sideways
  <2>4. CASE d = "Up"
    <3>1. y+1 \in 1..N /\ CellAt(d, LineNo(d, c), y+1) = c
      BY <2>1, <2>4 DEF CellAt, LineNo, Sideways
    <3> QED BY <2>1, <2>4, <3>1 DEF LineNo, Sideways
  <2>5. CASE d = "Down"
    <3>1. N-y \in 1..N /\ CellAt(d, LineNo(d, c), N-y) = c
      BY <2>1, <2>5 DEF CellAt, LineNo, Sideways
    <3> QED BY <2>1, <2>5, <3>1 DEF LineNo, Sideways
  <2> QED BY <2>2, <2>3, <2>4, <2>5 DEF Directions
<1>2. ASSUME NEW l \in 0 .. N-1, NEW k \in 1..N
      PROVE  /\ CellAt(d, l, k) \in Cells
             /\ LineNo(d, CellAt(d, l, k)) = l
             /\ \A j \in 1..N : CellAt(d, l, j) = CellAt(d, l, k) => j = k
  BY DEF CellAt, LineNo, Sideways, Cells
<1>3. ASSUME NEW c \in Cells
      PROVE  Place(d, c) \in 1..N /\ CellAt(d, LineNo(d, c), Place(d, c)) = c
  BY <1>1 DEF Place
<1>4. ASSUME NEW l \in 0 .. N-1, NEW k \in 1..N PROVE Place(d, CellAt(d, l, k)) = k
  <2>1. Place(d, CellAt(d, l, k)) \in 1..N
    BY <1>2, <1>3
  <2>2. CellAt(d, l, Place(d, CellAt(d, l, k))) = CellAt(d, l, k)
    BY <1>2, <1>3
  <2> QED BY <1>2, <2>1, <2>2
<1> QED BY <1>1, <1>2, <1>3, <1>4

LEMMA CellsAreFinite == IsFiniteSet(Cells)
<1>1. IsFiniteSet(0 .. N-1)
  BY BoardAssumption, FS_Interval
<1> QED BY <1>1, FS_Product DEF Cells

Boards == [Cells -> Nat]

LEMMA LineHasType ==
    ASSUME NEW tiles \in Boards, NEW d \in Directions, NEW l \in 0 .. N-1
    PROVE  Line(tiles, d, l) \in Lines
BY CellsAndLines DEF Line, Lines, Boards

LEMMA SlideHasType ==
    ASSUME NEW tiles \in Boards, NEW d \in Directions
    PROVE  Slide(tiles, d) \in Boards /\ MergedBy(tiles, d) \subseteq Cells
<1>1. ASSUME NEW c \in Cells PROVE Slid(tiles, d, c).tile \in Nat
  <2>1. Line(tiles, d, LineNo(d, c)) \in Lines /\ Place(d, c) \in 1..N
    BY CellsAndLines, LineHasType
  <2> QED BY <2>1, CompressHasType DEF Slid
<1> QED BY <1>1 DEF Slide, Boards, MergedBy

\* A move changes nothing when it changes no line.
LEMMA SlideIsByLine ==
    ASSUME NEW tiles \in Boards, NEW d \in Directions
    PROVE  Slide(tiles, d) = tiles <=> \A l \in 0 .. N-1 : Resting(Line(tiles, d, l))
<1>1. ASSUME Slide(tiles, d) = tiles, NEW l \in 0 .. N-1 PROVE Resting(Line(tiles, d, l))
  <2>1. ASSUME NEW k \in 1..N PROVE Compress(Line(tiles, d, l))[k].tile = Line(tiles, d, l)[k]
    <3>1. PICK c \in Cells : c = CellAt(d, l, k) /\ LineNo(d, c) = l /\ Place(d, c) = k
      BY CellsAndLines
    <3>2. Slide(tiles, d)[c] = Compress(Line(tiles, d, l))[k].tile
      BY <3>1 DEF Slide, Slid
    <3>3. Line(tiles, d, l)[k] = tiles[c]
      BY <3>1 DEF Line
    <3> QED BY <1>1, <3>2, <3>3
  <2> QED BY <2>1, FixedIsResting, LineHasType DEF Fixed
<1>2. ASSUME \A l \in 0 .. N-1 : Resting(Line(tiles, d, l)) PROVE Slide(tiles, d) = tiles
  <2>1. ASSUME NEW c \in Cells PROVE Slide(tiles, d)[c] = tiles[c]
    <3>1. LineNo(d, c) \in 0 .. N-1 /\ Place(d, c) \in 1..N
          /\ CellAt(d, LineNo(d, c), Place(d, c)) = c
      BY CellsAndLines
    <3>2. Fixed(Line(tiles, d, LineNo(d, c)))
      BY <1>2, <3>1, RestingIsFixed, LineHasType
    <3>3. Line(tiles, d, LineNo(d, c))[Place(d, c)] = tiles[c]
      BY <3>1 DEF Line
    <3> QED BY <3>1, <3>2, <3>3 DEF Fixed, Slide, Slid
  <2> QED BY <2>1, SlideHasType DEF Boards
<1> QED BY <1>1, <1>2


\* A cell's place in the line of each direction.
LEMMA CellInLines ==
    ASSUME NEW tiles, NEW x \in 0 .. N-1, NEW y \in 0 .. N-1
    PROVE  /\ x+1 \in 1..N /\ N-x \in 1..N /\ y+1 \in 1..N /\ N-y \in 1..N
           /\ Line(tiles, "Left", y)[x+1] = tiles[<<x, y>>]
           /\ Line(tiles, "Right", y)[N-x] = tiles[<<x, y>>]
           /\ Line(tiles, "Up", x)[y+1] = tiles[<<x, y>>]
           /\ Line(tiles, "Down", x)[N-y] = tiles[<<x, y>>]
<1> USE BoardAssumption
<1>1. x+1 \in 1..N /\ N-x \in 1..N /\ y+1 \in 1..N /\ N-y \in 1..N
  OBVIOUS
<1>2. (x+1)-1 = x /\ N-(N-x) = x /\ (y+1)-1 = y /\ N-(N-y) = y
  OBVIOUS
<1>3. /\ CellAt("Left", y, x+1) = <<x, y>>
      /\ CellAt("Right", y, N-x) = <<x, y>>
      /\ CellAt("Up", x, y+1) = <<x, y>>
      /\ CellAt("Down", x, N-y) = <<x, y>>
  BY <1>2 DEF CellAt, Sideways
<1> QED BY <1>1, <1>3 DEF Line

\* "If no empty cells remain and no adjacent equal tiles exist"
\* (any_move_possible()) is the same as: no direction changes the board.
THEOREM MovePossibleIsExact ==
    ASSUME NEW tiles \in [Cells -> Nat], \E c \in Cells : tiles[c] # 0
    PROVE  AnyMovePossible(tiles) <=> \E d \in Directions : Slide(tiles, d) # tiles
<1> USE BoardAssumption
<1> DEFINE Rests(d) == \A l \in 0 .. N-1 : Resting(Line(tiles, d, l))
<1>1. \A d \in Directions : Slide(tiles, d) = tiles <=> Rests(d)
  BY SlideIsByLine DEF Boards
<1>3. ASSUME \A d \in Directions : Rests(d) PROVE ~AnyMovePossible(tiles)
  <2>1. \A l \in 0 .. N-1 : /\ Resting(Line(tiles, "Left", l))
                            /\ Resting(Line(tiles, "Right", l))
                            /\ Resting(Line(tiles, "Up", l))
                            /\ Resting(Line(tiles, "Down", l))
    BY <1>3 DEF Directions
  <2>2. ASSUME NEW x \in 0 .. N-1, NEW y \in 0 .. N-1, tiles[<<x, y>>] = 0,
               NEW u \in 0 .. N-1
        PROVE  tiles[<<u, y>>] = 0
    <3>1. CASE u = x
      BY <2>2, <3>1
    <3>2. CASE u > x
      <4>1. x+1 < u+1
        BY <3>2
      <4>2. \A j, k \in 1..N : j < k /\ Line(tiles, "Left", y)[j] = 0
                                  => Line(tiles, "Left", y)[k] = 0
        BY <2>1 DEF Resting
      <4>3. /\ x+1 \in 1..N /\ Line(tiles, "Left", y)[x+1] = 0
            /\ u+1 \in 1..N /\ Line(tiles, "Left", y)[u+1] = tiles[<<u, y>>]
        BY <2>2, CellInLines
      <4> QED BY <4>1, <4>2, <4>3
    <3>3. CASE u < x
      <4>1. N-x < N-u
        BY <3>3
      <4>2. \A j, k \in 1..N : j < k /\ Line(tiles, "Right", y)[j] = 0
                                  => Line(tiles, "Right", y)[k] = 0
        BY <2>1 DEF Resting
      <4>3. N-x \in 1..N /\ Line(tiles, "Right", y)[N-x] = 0
        <5>1. N-x \in 1..N /\ Line(tiles, "Right", y)[N-x] = tiles[<<x, y>>]
          BY CellInLines
        <5> QED BY <2>2, <5>1
      <4>4. N-u \in 1..N /\ Line(tiles, "Right", y)[N-u] = tiles[<<u, y>>]
        BY CellInLines
      <4> QED BY <4>1, <4>2, <4>3, <4>4
    <3> QED BY <3>1, <3>2, <3>3
  <2>3. ASSUME NEW x \in 0 .. N-1, NEW y \in 0 .. N-1, tiles[<<x, y>>] = 0,
               NEW v \in 0 .. N-1
        PROVE  tiles[<<x, v>>] = 0
    <3>1. CASE v = y
      BY <2>3, <3>1
    <3>2. CASE v > y
      <4>1. y+1 < v+1
        BY <3>2
      <4>2. \A j, k \in 1..N : j < k /\ Line(tiles, "Up", x)[j] = 0
                                  => Line(tiles, "Up", x)[k] = 0
        BY <2>1 DEF Resting
      <4>3. /\ y+1 \in 1..N /\ Line(tiles, "Up", x)[y+1] = 0
            /\ v+1 \in 1..N /\ Line(tiles, "Up", x)[v+1] = tiles[<<x, v>>]
        BY <2>3, CellInLines
      <4> QED BY <4>1, <4>2, <4>3
    <3>3. CASE v < y
      <4>1. N-y < N-v
        BY <3>3
      <4>2. \A j, k \in 1..N : j < k /\ Line(tiles, "Down", x)[j] = 0
                                  => Line(tiles, "Down", x)[k] = 0
        BY <2>1 DEF Resting
      <4>3. /\ N-y \in 1..N /\ Line(tiles, "Down", x)[N-y] = 0
            /\ N-v \in 1..N /\ Line(tiles, "Down", x)[N-v] = tiles[<<x, v>>]
        BY <2>3, CellInLines
      <4> QED BY <4>1, <4>2, <4>3
    <3> QED BY <3>1, <3>2, <3>3
  <2>4. ASSUME NEW c \in Cells PROVE tiles[c] # 0
    <3>1. PICK x \in 0 .. N-1, y \in 0 .. N-1 : c = <<x, y>>
      BY DEF Cells
    <3>2. PICK g \in Cells : tiles[g] # 0
      OBVIOUS
    <3>3. PICK u \in 0 .. N-1, v \in 0 .. N-1 : g = <<u, v>>
      BY DEF Cells
    <3>4. SUFFICES ASSUME tiles[<<x, y>>] = 0 PROVE FALSE
      BY <3>1
    <3>5. tiles[<<u, y>>] = 0
      BY <2>2, <3>4
    <3> QED BY <2>3, <3>2, <3>3, <3>5
  <2>5. ASSUME NEW x \in 0 .. N-2, NEW y \in 0 .. N-1
        PROVE  tiles[<<x, y>>] # tiles[<<x+1, y>>]
    <3>1. x \in 0 .. N-1 /\ x+1 \in 0 .. N-1 /\ x+1 \in 1 .. N-1
      OBVIOUS
    <3>2. PICK z \in 0 .. N-1 : z = x+1
      BY <3>1
    <3>3. /\ Line(tiles, "Left", y)[x+1] = tiles[<<x, y>>]
          /\ Line(tiles, "Left", y)[z+1] = tiles[<<z, y>>]
      BY <3>1, CellInLines
    <3>4. \A k \in 1 .. N-1 : Line(tiles, "Left", y)[k] # 0
              => Line(tiles, "Left", y)[k] # Line(tiles, "Left", y)[k+1]
      BY <2>1 DEF Resting
    <3>5. tiles[<<x, y>>] # 0
      BY <2>4, <3>1 DEF Cells
    <3>6. z \in 1 .. N-1 /\ Line(tiles, "Left", y)[z] = tiles[<<x, y>>]
      BY <3>1, <3>2, <3>3
    <3>7. Line(tiles, "Left", y)[z] # Line(tiles, "Left", y)[z+1]
      BY <3>4, <3>5, <3>6
    <3> QED BY <3>2, <3>3, <3>6, <3>7
  <2>6. ASSUME NEW x \in 0 .. N-1, NEW y \in 0 .. N-2
        PROVE  tiles[<<x, y>>] # tiles[<<x, y+1>>]
    <3>1. y \in 0 .. N-1 /\ y+1 \in 0 .. N-1 /\ y+1 \in 1 .. N-1
      OBVIOUS
    <3>2. PICK z \in 0 .. N-1 : z = y+1
      BY <3>1
    <3>3. /\ Line(tiles, "Up", x)[y+1] = tiles[<<x, y>>]
          /\ Line(tiles, "Up", x)[z+1] = tiles[<<x, z>>]
      BY <3>1, CellInLines
    <3>4. \A k \in 1 .. N-1 : Line(tiles, "Up", x)[k] # 0
              => Line(tiles, "Up", x)[k] # Line(tiles, "Up", x)[k+1]
      BY <2>1 DEF Resting
    <3>5. tiles[<<x, y>>] # 0
      BY <2>4, <3>1 DEF Cells
    <3>6. z \in 1 .. N-1 /\ Line(tiles, "Up", x)[z] = tiles[<<x, y>>]
      BY <3>1, <3>2, <3>3
    <3>7. Line(tiles, "Up", x)[z] # Line(tiles, "Up", x)[z+1]
      BY <3>4, <3>5, <3>6
    <3> QED BY <3>2, <3>3, <3>6, <3>7
  <2> QED BY <2>4, <2>5, <2>6 DEF AnyMovePossible
<1>4. ASSUME ~AnyMovePossible(tiles), NEW d \in Directions, NEW l \in 0 .. N-1
      PROVE  Resting(Line(tiles, d, l))
  <2>1. /\ \A c \in Cells : tiles[c] # 0
        /\ \A x \in 0 .. N-2, y \in 0 .. N-1 : tiles[<<x, y>>] # tiles[<<x+1, y>>]
        /\ \A x \in 0 .. N-1, y \in 0 .. N-2 : tiles[<<x, y>>] # tiles[<<x, y+1>>]
    BY <1>4 DEF AnyMovePossible
  <2>2. ASSUME NEW k \in 1..N PROVE Line(tiles, d, l)[k] # 0
    BY <2>1, CellsAndLines DEF Line
  <2>3. ASSUME NEW k \in 1 .. N-1 PROVE Line(tiles, d, l)[k] # Line(tiles, d, l)[k+1]
    <3>1. k \in 1..N /\ k+1 \in 1..N
      OBVIOUS
    <3>2. /\ Line(tiles, d, l)[k] = tiles[CellAt(d, l, k)]
          /\ Line(tiles, d, l)[k+1] = tiles[CellAt(d, l, k+1)]
      BY <3>1 DEF Line
    <3>3. PICK i \in 0 .. N-2 : i = k-1
      OBVIOUS
    <3>4. PICK j \in 0 .. N-2 : j = N-(k+1)
      OBVIOUS
    <3>5. k-1 = i /\ (k+1)-1 = i+1 /\ N-k = j+1 /\ N-(k+1) = j
      BY <3>3, <3>4
    <3>6. CASE d = "Left"
      <4>1. CellAt(d, l, k) = <<i, l>> /\ CellAt(d, l, k+1) = <<i+1, l>>
        BY <3>5, <3>6 DEF CellAt, Sideways
      <4> QED BY <2>1, <3>2, <4>1
    <3>7. CASE d = "Right"
      <4>1. CellAt(d, l, k) = <<j+1, l>> /\ CellAt(d, l, k+1) = <<j, l>>
        BY <3>5, <3>7 DEF CellAt, Sideways
      <4> QED BY <2>1, <3>2, <4>1
    <3>8. CASE d = "Up"
      <4>1. CellAt(d, l, k) = <<l, i>> /\ CellAt(d, l, k+1) = <<l, i+1>>
        BY <3>5, <3>8 DEF CellAt, Sideways
      <4> QED BY <2>1, <3>2, <4>1
    <3>9. CASE d = "Down"
      <4>1. CellAt(d, l, k) = <<l, j+1>> /\ CellAt(d, l, k+1) = <<l, j>>
        BY <3>5, <3>9 DEF CellAt, Sideways
      <4> QED BY <2>1, <3>2, <4>1
    <3> QED BY <3>6, <3>7, <3>8, <3>9 DEF Directions
  <2> QED BY <2>2, <2>3 DEF Resting
<1> QED BY <1>1, <1>3, <1>4

-----------------------------------------------------------------------------
(* compress_line() and the rules stated without its loops.                 *)

\* P is what FirstOfPair() describes.
ArePairs(packed, P) ==
    \A i \in 1 .. Len(packed) - 1 : i \in P <=> packed[i] = packed[i+1] /\ i-1 \notin P

\* There is such a set: each tile's membership is settled by the ones before.
LEMMA FirstOfPairIs ==
    ASSUME NEW packed \in Seq(Tiles)
    PROVE  /\ FirstOfPair(packed) \in SUBSET (1 .. Len(packed) - 1)
           /\ ArePairs(packed, FirstOfPair(packed))
<1>0. PICK L \in Nat : L = Len(packed)
  OBVIOUS
<1> DEFINE Settled(n, P) == /\ P \in SUBSET (1..n)
                            /\ \A i \in 1..n : i \in P <=> packed[i] = packed[i+1] /\ i-1 \notin P
           S == {n \in Nat : \E P : Settled(n, P)}
<1>1. 0 \in S
  <2>1. Settled(0, {})
    OBVIOUS
  <2> HIDE DEF Settled
  <2> QED BY <2>1
<1>2. ASSUME NEW n \in Nat, n \in S PROVE n + 1 \in S
  <2>1. PICK P : Settled(n, P)
    BY <1>2
  <2> DEFINE Q == IF packed[n+1] = packed[n+2] /\ n \notin P THEN P \cup {n+1} ELSE P
  <2>2. P \subseteq 1..n /\ n+1 \notin P
    BY <2>1
  <2>3. Q \in SUBSET (1 .. n+1) /\ \A i \in 0..n : i \in Q <=> i \in P
    BY <2>2
  <2>4. n+1 \in Q <=> packed[n+1] = packed[n+2] /\ n \notin P
    BY <2>2
  <2> HIDE DEF Q
  <2>5. ASSUME NEW i \in 1 .. n+1 PROVE i \in Q <=> packed[i] = packed[i+1] /\ i-1 \notin Q
    <3>1. CASE i = n+1
      <4>1. (n+1)+1 = n+2 /\ (n+1)-1 = n /\ n \in 0..n
        OBVIOUS
      <4> QED BY <2>3, <2>4, <3>1, <4>1
    <3>2. CASE i \in 1..n
      <4>1. i \in 0..n /\ i-1 \in 0..n
        BY <3>2
      <4> QED BY <2>1, <2>3, <3>2, <4>1
    <3> QED BY <3>1, <3>2
  <2>6. Settled(n+1, Q)
    BY <2>3, <2>5
  <2> HIDE DEF Settled
  <2> QED BY <2>6
<1>3. \A n \in Nat : n \in S
  <2> HIDE DEF S
  <2> QED BY <1>1, <1>2, AllNumbers
<1>4. \E P \in SUBSET (1 .. L-1) : ArePairs(packed, P)
  <2>1. CASE L = 0
    <3>1. 1 .. L-1 = {}
      BY <2>1
    <3>2. {} \in SUBSET (1 .. L-1) /\ ArePairs(packed, {})
      BY <1>0, <3>1 DEF ArePairs
    <3> QED BY <3>2
  <2>2. CASE L # 0
    <3>1. L-1 \in S
      <4> HIDE DEF S
      <4> QED BY <1>3, <2>2
    <3>2. PICK P : Settled(L-1, P)
      BY <3>1
    <3> QED BY <1>0, <3>2 DEF ArePairs
  <2> QED BY <2>1, <2>2
<1> QED BY <1>0, <1>4 DEF FirstOfPair, ArePairs

\* A tile comes to the place after that of the tile before, or to the same if
\* the two are a pair.
LEMMA ComesSteps ==
    ASSUME NEW packed \in Seq(Tiles)
    PROVE  /\ Comes(packed, 1) = 1
           /\ \A i \in 1 .. Len(packed) + 1 : Comes(packed, i) \in Int
           /\ \A i \in 1 .. Len(packed) :
                 Comes(packed, i+1) = IF i \in FirstOfPair(packed) THEN Comes(packed, i)
                                      ELSE Comes(packed, i) + 1
<1>0. PICK L \in Nat : L = Len(packed)
  OBVIOUS
<1>1. PICK P \in SUBSET (1 .. L-1) : P = FirstOfPair(packed)
  BY <1>0, FirstOfPairIs
<1> DEFINE Before(i) == {j \in P : j < i}
<1>2. IsFiniteSet(P)
  <2>1. IsFiniteSet(1 .. L-1)
    BY FS_Interval
  <2> QED BY <2>1, FS_Subset
<1>3. ASSUME NEW i \in 1 .. L+1
      PROVE  /\ IsFiniteSet(Before(i)) /\ Cardinality(Before(i)) \in Nat
             /\ Comes(packed, i) = i - Cardinality(Before(i))
  <2>1. Before(i) \subseteq P
    OBVIOUS
  <2>2. Comes(packed, i) = i - Cardinality(Before(i))
    BY <1>1 DEF Comes
  <2> QED BY <1>2, <2>1, <2>2, FS_Subset, FS_CardinalityType
<1>4. Comes(packed, 1) = 1
  <2>1. Before(1) = {}
    BY <1>1
  <2>2. Cardinality({}) = 0
    BY FS_EmptySet
  <2> HIDE DEF Before
  <2>3. Comes(packed, 1) = 1 - Cardinality(Before(1))
    BY <1>3
  <2>4. Cardinality(Before(1)) = 0
    BY <2>1, <2>2
  <2> QED BY <2>3, <2>4
<1>5. ASSUME NEW i \in 1..L
      PROVE  Comes(packed, i+1) = IF i \in P THEN Comes(packed, i) ELSE Comes(packed, i) + 1
  <2>1. i \in 1 .. L+1 /\ i+1 \in 1 .. L+1
    OBVIOUS
  <2>2. CASE i \in P
    <3>1. Before(i+1) = Before(i) \cup {i} /\ i \notin Before(i)
      BY <1>1, <2>2
    <3> HIDE DEF Before
    <3>2. Cardinality(Before(i) \cup {i}) = Cardinality(Before(i)) + 1
      BY <1>3, <2>1, <3>1, FS_AddElement
    <3>3. Cardinality(Before(i+1)) = Cardinality(Before(i)) + 1
      BY <3>1, <3>2
    <3>4. Comes(packed, i) = i - Cardinality(Before(i)) /\ Cardinality(Before(i)) \in Nat
          /\ Comes(packed, i+1) = (i+1) - Cardinality(Before(i+1))
      BY <1>3, <2>1
    <3> QED BY <2>2, <3>3, <3>4
  <2>3. CASE i \notin P
    <3>1. Before(i+1) = Before(i)
      BY <1>1, <2>3
    <3> HIDE DEF Before
    <3>2. Comes(packed, i) = i - Cardinality(Before(i)) /\ Cardinality(Before(i)) \in Nat
          /\ Comes(packed, i+1) = (i+1) - Cardinality(Before(i+1))
      BY <1>3, <2>1
    <3> QED BY <2>3, <3>1, <3>2
  <2> QED BY <2>2, <2>3
<1>6. \A i \in 1 .. L+1 : Comes(packed, i) \in Int
  <2> HIDE DEF Before
  <2> QED BY <1>3
<1> QED BY <1>0, <1>1, <1>4, <1>5, <1>6

\* No tile overtakes another.
LEMMA ComesInOrder ==
    ASSUME NEW packed \in Seq(Tiles),
           NEW i \in 1 .. Len(packed) + 1, NEW j \in i .. Len(packed) + 1
    PROVE  Comes(packed, i) <= Comes(packed, j)
<1>0. PICK L \in Nat : L = Len(packed)
  OBVIOUS
<1> DEFINE S == {n \in Nat : i + n <= L+1 => Comes(packed, i) <= Comes(packed, i+n)}
<1>1. 0 \in S
  <2>1. i + 0 = i /\ Comes(packed, i) \in Int
    BY ComesSteps
  <2> QED BY <2>1
<1>2. ASSUME NEW n \in Nat, n \in S PROVE n + 1 \in S
  <2> SUFFICES ASSUME i + (n+1) <= L+1 PROVE Comes(packed, i) <= Comes(packed, i + (n+1))
    OBVIOUS
  <2>1. i+n \in 1..L /\ i+n \in 1 .. L+1 /\ i + (n+1) = (i+n) + 1
    BY <1>0
  <2>2. Comes(packed, i) <= Comes(packed, i+n)
    BY <1>2, <2>1
  <2>3. Comes(packed, (i+n) + 1) \in {Comes(packed, i+n), Comes(packed, i+n) + 1}
    BY <1>0, <2>1, ComesSteps
  <2>4. Comes(packed, i) \in Int /\ Comes(packed, i+n) \in Int
    BY <1>0, <2>1, ComesSteps
  <2> QED BY <2>1, <2>2, <2>3, <2>4
<1>3. j - i \in S
  <2> HIDE DEF S
  <2>1. j - i \in Nat
    BY <1>0
  <2> QED BY <1>1, <1>2, <2>1, AllNumbers
<1>4. i + (j - i) = j /\ j <= L+1
  BY <1>0
<1> QED BY <1>3, <1>4

\* A spot and the tiles, by number, that came to it.
Holds(spot, packed, sources) ==
    /\ spot.tile = SumOver(packed, sources)
    /\ spot.merged <=> Cardinality(sources) = 2

\* The tiles from the i-th on that come k places after it.
SourcesFrom(packed, i, k) ==
    {j \in i .. Len(packed) : Comes(packed, j) = Comes(packed, i) + k - 1}

\* A tile alone, and a pair.
LEMMA SpotsHold ==
    ASSUME NEW packed \in Seq(Tiles), NEW i \in 1 .. Len(packed)
    PROVE  /\ Holds([tile |-> packed[i], merged |-> FALSE], packed, {i})
           /\ i + 1 \in 1 .. Len(packed) /\ packed[i] = packed[i+1] =>
                Holds([tile |-> 2 * packed[i], merged |-> TRUE], packed, {i, i+1})
<1>0. packed[i] \in Nat
  BY DEF Tiles
<1>1. IsFiniteSet({}) /\ Cardinality({}) = 0 /\ SumOver(packed, {}) = 0
  BY FS_EmptySet, SumTakes
<1>2. IsFiniteSet({i}) /\ Cardinality({i}) = 1
  BY FS_Singleton
<1>3. SumOver(packed, {i}) = packed[i]
  <2>1. i \notin {} /\ {} \cup {i} = {i}
    OBVIOUS
  <2>2. SumOver(packed, {} \cup {i}) = packed[i] + SumOver(packed, {})
    BY <1>0, <1>1, <2>1, SumAdds
  <2>3. packed[i] + 0 = packed[i]
    BY <1>0
  <2> QED BY <1>1, <2>1, <2>2, <2>3
<1>4. ASSUME i + 1 \in 1 .. Len(packed), packed[i] = packed[i+1]
      PROVE  Holds([tile |-> 2 * packed[i], merged |-> TRUE], packed, {i, i+1})
  <2>1. i+1 \notin {i} /\ {i, i+1} = {i} \cup {i+1}
    OBVIOUS
  <2>2. \A j \in {i} \cup {i+1} : packed[j] \in Nat
    BY <1>0, <1>4
  <2>3. SumOver(packed, {i} \cup {i+1}) = packed[i+1] + SumOver(packed, {i})
    BY <1>2, <2>1, <2>2, SumAdds
  <2>4. Cardinality({i} \cup {i+1}) = Cardinality({i}) + 1
    BY <1>2, <2>1, FS_AddElement
  <2>5. Cardinality({i, i+1}) = 2
    <3>1. PICK pair : pair = {i, i+1}
      OBVIOUS
    <3>2. Cardinality(pair) = Cardinality({i}) + 1
      BY <2>1, <2>4, <3>1, Zenon
    <3>3. Cardinality(pair) = 2
      BY <1>2, <3>2
    <3> QED BY <3>1, <3>3, Zenon
  <2>6. SumOver(packed, {i, i+1}) = packed[i] + packed[i]
    BY <1>3, <1>4, <2>1, <2>3
  <2>7. packed[i] + packed[i] = 2 * packed[i]
    BY <1>0
  <2> QED BY <2>5, <2>6, <2>7 DEF Holds
<1> QED BY <1>2, <1>3, <1>4 DEF Holds

\* From the first tile of a pair, or one left over, the loop makes a spot for
\* each place that tiles come to.
MergesFrom(packed, i) ==
    LET after == MergedFrom(packed)[i] IN
    i - 1 \notin FirstOfPair(packed) =>
      /\ after \in Seq(Spots)
      /\ Len(after) = Comes(packed, Len(packed) + 1) - Comes(packed, i)
      /\ \A k \in 1 .. Len(after) : Holds(after[k], packed, SourcesFrom(packed, i, k))

\* A spot for tile i, or for it and the next, before those of the tiles from
\* tile m on.
LEMMA MergesOneMore ==
    ASSUME NEW packed \in Seq(Tiles), NEW i \in 1 .. Len(packed),
           NEW m \in i+1 .. Len(packed) + 1, NEW spot \in Spots,
           m - 1 \notin FirstOfPair(packed), MergesFrom(packed, m),
           MergedFrom(packed)[i] = <<spot>> \o MergedFrom(packed)[m],
           Comes(packed, m) = Comes(packed, i) + 1,
           \A j \in i .. m-1 : Comes(packed, j) = Comes(packed, i),
           Holds(spot, packed, i .. m-1)
    PROVE  MergesFrom(packed, i)
<1>0. PICK L \in Nat : L = Len(packed)
  OBVIOUS
<1>1. PICK s : s = MergedFrom(packed)[m]
  OBVIOUS
<1>2. PICK r : r = MergedFrom(packed)[i]
  OBVIOUS
<1>3. /\ s \in Seq(Spots) /\ Len(s) = Comes(packed, L+1) - Comes(packed, m)
      /\ \A k \in 1 .. Len(s) : Holds(s[k], packed, SourcesFrom(packed, m, k))
  BY <1>0, <1>1 DEF MergesFrom
<1>4. /\ r \in Seq(Spots) /\ Len(r) = 1 + Len(s) /\ r[1] = spot
      /\ \A k \in 2 .. 1 + Len(s) : r[k] = s[k-1]
  BY <1>1, <1>2, <1>3, Prepended
<1>5. /\ Comes(packed, i) \in Int /\ Comes(packed, L+1) \in Int
      /\ \A j \in i..L : Comes(packed, j) \in Int
  BY <1>0, ComesSteps
<1>6. \A j \in m..L : Comes(packed, j) >= Comes(packed, i) + 1
  <2> SUFFICES ASSUME NEW j \in m..L PROVE Comes(packed, j) >= Comes(packed, i) + 1
    OBVIOUS
  <2>1. m \in 1 .. L+1 /\ j \in m .. L+1 /\ j \in i..L
    BY <1>0
  <2>2. Comes(packed, m) <= Comes(packed, j)
    BY <1>0, <2>1, ComesInOrder
  <2> QED BY <1>5, <2>1, <2>2
<1>7. \A j \in i..L : j \in i .. m-1 \/ j \in m..L
  BY <1>0
<1>8. i .. m-1 \subseteq i..L /\ m..L \subseteq i..L
  BY <1>0
<1>9. SourcesFrom(packed, i, 1) = i .. m-1
  <2>1. \A j \in i..L : Comes(packed, j) = Comes(packed, i) + 1 - 1 <=> j \in i .. m-1
    BY <1>5, <1>6, <1>7
  <2> QED BY <1>0, <1>8, <2>1 DEF SourcesFrom
<1>10. ASSUME NEW k \in 2 .. 1 + Len(s)
       PROVE  SourcesFrom(packed, i, k) = SourcesFrom(packed, m, k-1)
  <2>1. k \in Int /\ k >= 2
    BY <1>3
  <2>2. \A j \in i..L : Comes(packed, j) = Comes(packed, i) + k - 1
                        <=> j \in m..L /\ Comes(packed, j) = Comes(packed, m) + (k-1) - 1
    <3> SUFFICES ASSUME NEW j \in i..L
                 PROVE  Comes(packed, j) = Comes(packed, i) + k - 1
                        <=> j \in m..L /\ Comes(packed, j) = Comes(packed, m) + (k-1) - 1
      OBVIOUS
    <3>1. CASE j \in i .. m-1
      <4>1. j \notin m..L /\ Comes(packed, j) = Comes(packed, i)
        BY <1>0, <3>1
      <4> QED BY <1>5, <2>1, <4>1
    <3>2. CASE j \in m..L
      <4>1. PICK a \in Int, b \in Int : a = Comes(packed, i) /\ b = Comes(packed, j)
        BY <1>5
      <4>2. b = a + k - 1 <=> b = (a + 1) + (k-1) - 1
        BY <2>1
      <4> QED BY <3>2, <4>1, <4>2
    <3> QED BY <1>7, <3>1, <3>2
  <2> QED BY <1>0, <1>8, <2>2 DEF SourcesFrom
<1>11. ASSUME NEW k \in 1 .. Len(r) PROVE Holds(r[k], packed, SourcesFrom(packed, i, k))
  <2>1. CASE k = 1
    BY <1>4, <1>9, <2>1
  <2>2. CASE k > 1
    <3>1. k \in 2 .. 1 + Len(s) /\ k-1 \in 1 .. Len(s)
      BY <1>3, <1>4, <2>2
    <3> QED BY <1>3, <1>4, <1>10, <3>1
  <2> QED BY <2>1, <2>2
<1>12. Len(r) = Comes(packed, L+1) - Comes(packed, i)
  BY <1>3, <1>4, <1>5
<1> QED BY <1>0, <1>2, <1>4, <1>11, <1>12 DEF MergesFrom

LEMMA MergesPairs ==
    ASSUME NEW packed \in Seq(Tiles), NEW i \in 1 .. Len(packed) + 1
    PROVE  MergesFrom(packed, i)
<1>0. PICK L \in Nat : L = Len(packed)
  OBVIOUS
<1>4. PICK P \in SUBSET (1 .. L-1) : P = FirstOfPair(packed)
  BY <1>0, FirstOfPairIs
<1> DEFINE S == {n \in Nat : \A k \in 1 .. L+1 : k + n > L => MergesFrom(packed, k)}
<1>1. 0 \in S
  <2> SUFFICES MergesFrom(packed, L+1)
    BY DEF S
  <2>1. MergedFrom(packed)[L+1] = <<>>
    BY <1>0, MergedFromSteps
  <2>2. Comes(packed, L+1) - Comes(packed, L+1) = 0
    BY <1>0, ComesSteps
  <2>3. <<>> \in Seq(Spots) /\ Len(<<>>) = 0
    OBVIOUS
  <2> QED BY <1>0, <2>1, <2>2, <2>3 DEF MergesFrom
<1>2. ASSUME NEW n \in Nat, n \in S PROVE n + 1 \in S
  <2> SUFFICES ASSUME NEW k \in 1..L, k + n = L PROVE MergesFrom(packed, k)
    BY <1>2
  <2> SUFFICES ASSUME k - 1 \notin P PROVE MergesFrom(packed, k)
    BY <1>4 DEF MergesFrom
  <2>1. PICK M : M = MergedFrom(packed)
    OBVIOUS
  <2>2. M[k] = MergeStep(packed, M, k) /\ packed[k] \in Tiles
    BY <1>0, <2>1, MergedFromSteps
  <2>3. k \in P <=> k < L /\ packed[k] = packed[k+1]
    <3>1. k \in 1 .. L-1 <=> k < L
      OBVIOUS
    <3> QED BY <1>0, <1>4, <3>1, FirstOfPairIs DEF ArePairs
  <2>4. Comes(packed, k+1) = IF k \in P THEN Comes(packed, k) ELSE Comes(packed, k) + 1
    BY <1>0, <1>4, ComesSteps
  <2>5. CASE k \in P
    <3>1. PICK spot : spot = [tile |-> 2 * packed[k], merged |-> TRUE]
      OBVIOUS
    <3>2. spot \in Spots
      BY <2>2, <3>1 DEF Spots, Tiles
    <3>3. M[k] = <<spot>> \o M[k+2]
      BY <1>0, <2>2, <2>3, <2>5, <3>1 DEF MergeStep
    <3>4. k+1 \in 1..L /\ (k+1)+1 = k+2 /\ (k+2)-1 = k+1 /\ k+1 \notin P
      <4>1. k+1 \in 1..L /\ (k+1)-1 = k
        BY <2>3, <2>5
      <4>2. k+1 \notin P
        <5>1. CASE k+1 \in 1 .. L-1
          BY <1>0, <1>4, <2>5, <4>1, <5>1, FirstOfPairIs DEF ArePairs
        <5>2. CASE k+1 \notin 1 .. L-1
          BY <5>2
        <5> QED BY <5>1, <5>2
      <4> QED BY <4>1, <4>2
    <3>5. Comes(packed, k+2) = Comes(packed, k+1) + 1
      BY <1>0, <1>4, <3>4, ComesSteps
    <3>6. k .. (k+2)-1 = {k, k+1}
      OBVIOUS
    <3>7. Holds(spot, packed, k .. (k+2)-1)
      BY <1>0, <2>3, <2>5, <3>1, <3>4, <3>6, SpotsHold
    <3>8. \A j \in k .. (k+2)-1 : Comes(packed, j) = Comes(packed, k)
      BY <2>4, <2>5, <3>6
    <3>9. MergesFrom(packed, k+2)
      <4>1. k+2 \in 1 .. L+1 /\ (k+2) + n > L
        BY <3>4
      <4> QED BY <1>2, <4>1
    <3>10. k+2 \in k+1 .. L+1
      BY <3>4
    <3> QED BY <1>0, <1>4, <2>1, <2>4, <2>5, <3>2, <3>3, <3>4, <3>5, <3>7, <3>8, <3>9, <3>10,
               MergesOneMore
  <2>6. CASE k \notin P
    <3>1. PICK spot : spot = [tile |-> packed[k], merged |-> FALSE]
      OBVIOUS
    <3>2. spot \in Spots
      BY <2>2, <3>1 DEF Spots
    <3>3. M[k] = <<spot>> \o M[k+1]
      BY <1>0, <2>2, <2>3, <2>6, <3>1 DEF MergeStep
    <3>4. k .. (k+1)-1 = {k} /\ (k+1)-1 = k
      OBVIOUS
    <3>5. Holds(spot, packed, k .. (k+1)-1)
      BY <1>0, <3>1, <3>4, SpotsHold
    <3>6. \A j \in k .. (k+1)-1 : Comes(packed, j) = Comes(packed, k)
      BY <3>4
    <3>7. MergesFrom(packed, k+1) /\ k+1 \in k+1 .. L+1
      BY <1>2
    <3> QED BY <1>0, <1>4, <2>1, <2>4, <2>6, <3>2, <3>3, <3>4, <3>5, <3>6, <3>7, MergesOneMore
  <2> QED BY <2>5, <2>6
<1>3. L \in S
  <2> HIDE DEF S
  <2> QED BY <1>1, <1>2, AllNumbers
<1> QED BY <1>0, <1>3

\* "Adjacent equal tiles merge once per move": for lines of any length and any
\* tiles, compress_line() leaves in order one tile for each pair, nearest the
\* destination first, and one for each tile left over, and nothing else.
THEOREM CompressMergesOnce ==
    ASSUME NEW line \in Seq(Nat) PROVE MergesOnce(line)
<1>0. PICK size \in Nat : size = Len(line) /\ DOMAIN line = 1..size
  OBVIOUS
<1>1. PICK packed \in Seq(Tiles) : packed = Packed(line)
  BY PackedIsTiles
<1>2. PICK L \in Nat : L = Len(packed)
  OBVIOUS
<1>3. PICK result \in Seq(Spots) :
        /\ result = Merge(packed) /\ Len(result) \in 0..size
        /\ \A k \in 1..size :
              Compress(line)[k] = IF k <= Len(result) THEN result[k]
                                  ELSE [tile |-> 0, merged |-> FALSE]
  BY <1>0, <1>1, CompressIs
<1> DEFINE Sources(k) == {i \in DOMAIN packed : Comes(packed, i) = k}
<1>4. /\ Len(result) = Comes(packed, L+1) - 1
      /\ \A k \in 1 .. Len(result) : Holds(result[k], packed, SourcesFrom(packed, 1, k))
  <2>1. MergesFrom(packed, 1)
    BY <1>2, MergesPairs
  <2>2. 1 - 1 \notin FirstOfPair(packed)
    BY FirstOfPairIs
  <2>3. Comes(packed, 1) = 1
    BY ComesSteps
  <2> QED BY <1>2, <1>3, <2>1, <2>2, <2>3 DEF MergesFrom, Merge
<1>5. DOMAIN packed = 1..L
  BY <1>2
<1>6. ASSUME NEW k \in 1..size, k <= Len(result) PROVE Holds(Compress(line)[k], packed, Sources(k))
  <2>1. 1 + k - 1 = k
    OBVIOUS
  <2>2. SourcesFrom(packed, 1, k) = Sources(k)
    BY <1>2, <1>5, <2>1, ComesSteps DEF SourcesFrom
  <2>3. k \in 1 .. Len(result)
    BY <1>3, <1>6
  <2> HIDE DEF Sources
  <2> QED BY <1>3, <1>4, <1>6, <2>2, <2>3
<1>7. ASSUME NEW k \in 1..size, ~(k <= Len(result)) PROVE Holds(Compress(line)[k], packed, Sources(k))
  <2>1. ASSUME NEW j \in 1..L PROVE Comes(packed, j) < Comes(packed, L+1)
    <3>1. L \in 1 .. L+1 /\ j \in 1 .. L+1 /\ L \in j .. L+1 /\ L \in 1..L
      OBVIOUS
    <3>2. Comes(packed, j) <= Comes(packed, L)
      BY <1>2, <3>1, ComesInOrder
    <3>3. L \notin FirstOfPair(packed)
      BY <1>2, FirstOfPairIs
    <3>4. Comes(packed, L+1) = Comes(packed, L) + 1
      BY <1>2, <3>1, <3>3, ComesSteps
    <3>5. Comes(packed, j) \in Int /\ Comes(packed, L) \in Int
      BY <1>2, <3>1, ComesSteps
    <3> QED BY <3>2, <3>4, <3>5
  <2>2. \A j \in 1..L : Comes(packed, j) \in Int
    BY <1>2, ComesSteps
  <2>3. Comes(packed, L+1) \in Int
    BY <1>2, ComesSteps
  <2>4. Sources(k) = {}
    BY <1>3, <1>4, <1>5, <1>7, <2>1, <2>2, <2>3
  <2>5. SumOver(packed, {}) = 0 /\ Cardinality({}) = 0
    BY FS_EmptySet, SumTakes
  <2>6. Compress(line)[k] = [tile |-> 0, merged |-> FALSE]
    BY <1>3, <1>7
  <2> HIDE DEF Sources
  <2> QED BY <2>4, <2>5, <2>6 DEF Holds
<1>8. \A k \in 1..size : Holds(Compress(line)[k], packed, Sources(k))
  <2> HIDE DEF Sources
  <2> QED BY <1>6, <1>7
<1>9. \A k \in 1..size :
         LET sources == {i \in DOMAIN Packed(line) : Comes(Packed(line), i) = k} IN
         /\ Compress(line)[k].tile = SumOver(Packed(line), sources)
         /\ Compress(line)[k].merged <=> Cardinality(sources) = 2
  BY <1>1, <1>8 DEF Holds
<1> QED BY <1>0, <1>9 DEF MergesOnce, SumOver

-----------------------------------------------------------------------------
(* What tiles are worth.                                                   *)

\* The worth of v, from that of its half.
WorthStep(w, v) == IF v <= 2 THEN 0 ELSE v + 2 * w[v \div 2]

LEMMA WorthIs == Worth = [v \in Nat |-> WorthStep(Worth, v)]
<1> DEFINE Upto(n, w) == /\ w = [v \in Nat |-> w[v]]
                         /\ \A v \in Nat : v <= n => w[v] = WorthStep(w, v)
           S == {n \in Nat : \E w : Upto(n, w)}
           R == {n \in Nat : \A w, x : Upto(n, w) /\ Upto(n, x)
                                => \A v \in Nat : v <= n => w[v] = x[v]}
<1>0. \A v \in Nat : v > 2 => v \div 2 \in Nat /\ v \div 2 < v
  OBVIOUS
<1>1. 0 \in S
  <2>1. Upto(0, [v \in Nat |-> 0])
    BY DEF WorthStep
  <2> HIDE DEF Upto
  <2> QED BY <2>1
<1>2. ASSUME NEW n \in Nat, n \in S PROVE n + 1 \in S
  <2>1. PICK w : Upto(n, w)
    BY <1>2
  <2> DEFINE x == [v \in Nat |-> IF v = n+1 THEN WorthStep(w, v) ELSE w[v]]
  <2>2. /\ x = [v \in Nat |-> x[v]]
        /\ x[n+1] = WorthStep(w, n+1)
        /\ \A v \in Nat : v <= n => x[v] = w[v]
    OBVIOUS
  <2> HIDE DEF x
  <2>3. ASSUME NEW v \in Nat, v <= n+1 PROVE WorthStep(x, v) = WorthStep(w, v)
    <3>1. v > 2 => v \div 2 \in Nat /\ v \div 2 <= n
      BY <1>0, <2>3
    <3> QED BY <2>2, <3>1 DEF WorthStep
  <2>4. ASSUME NEW v \in Nat, v <= n+1 PROVE x[v] = WorthStep(x, v)
    <3>1. v = n+1 \/ v <= n
      BY <2>4
    <3> QED BY <2>1, <2>2, <2>3, <2>4, <3>1
  <2>5. Upto(n+1, x)
    BY <2>2, <2>4
  <2> HIDE DEF Upto
  <2> QED BY <2>5
<1>3. \A n \in Nat : n \in S
  <2> HIDE DEF S
  <2> QED BY <1>1, <1>2, AllNumbers
<1>4. 0 \in R
  BY DEF WorthStep
<1>5. ASSUME NEW n \in Nat, n \in R PROVE n + 1 \in R
  <2> SUFFICES ASSUME NEW w, NEW x, Upto(n+1, w), Upto(n+1, x), NEW v \in Nat, v <= n+1
               PROVE  w[v] = x[v]
    OBVIOUS
  <2>1. Upto(n, w) /\ Upto(n, x)
    OBVIOUS
  <2>2. \A u \in Nat : u <= n => w[u] = x[u]
    <3> HIDE DEF Upto
    <3> QED BY <1>5, <2>1
  <2>3. v > 2 => v \div 2 \in Nat /\ v \div 2 <= n
    BY <1>0
  <2>4. WorthStep(w, v) = WorthStep(x, v)
    BY <2>2, <2>3 DEF WorthStep
  <2> QED BY <2>4
<1>6. \A n \in Nat : n \in R
  <2> HIDE DEF R
  <2> QED BY <1>4, <1>5, AllNumbers
<1> DEFINE At(n) == CHOOSE w : Upto(n, w)
           W == [v \in Nat |-> At(v)[v]]
<1>7. \A n \in Nat : Upto(n, At(n))
  <2> HIDE DEF Upto
  <2> QED BY <1>3
<1>8. ASSUME NEW n \in Nat, NEW v \in Nat, v <= n PROVE At(n)[v] = W[v]
  <2>1. Upto(v, At(v)) /\ Upto(n, At(n))
    BY <1>7
  <2> HIDE DEF At
  <2>2. Upto(v, At(n))
    BY <1>8, <2>1
  <2>3. W[v] = At(v)[v]
    OBVIOUS
  <2> HIDE DEF Upto, W
  <2>4. v \in R
    BY <1>6
  <2>5. At(n)[v] = At(v)[v]
    BY <2>1, <2>2, <2>4
  <2> QED BY <2>3, <2>5
<1>9. ASSUME NEW v \in Nat PROVE W[v] = WorthStep(W, v)
  <2>1. Upto(v, At(v))
    BY <1>7
  <2> HIDE DEF At
  <2>2. At(v)[v] = WorthStep(At(v), v)
    BY <2>1
  <2>3. v > 2 => At(v)[v \div 2] = W[v \div 2]
    <3> HIDE DEF W, Upto
    <3> QED BY <1>0, <1>8
  <2>4. WorthStep(At(v), v) = WorthStep(W, v)
    <3> HIDE DEF W
    <3> QED BY <2>3 DEF WorthStep
  <2> QED BY <2>2, <2>4
<1>10. W = [v \in Nat |-> W[v]]
  <2> HIDE DEF At
  <2> QED OBVIOUS
<1> HIDE DEF W
<1>11. W = [v \in Nat |-> WorthStep(W, v)]
  BY <1>9, <1>10
<1> QED BY <1>11 DEF Worth, WorthStep

\* Two tiles that merge earn the new tile; a tile that is spawned is worth
\* nothing, or 4.
LEMMA WorthSteps ==
    /\ \A v \in Nat : Worth[v] \in Nat
    /\ Worth[0] = 0 /\ Worth[2] = 0 /\ Worth[4] = 4
    /\ \A u \in Nat : u >= 2 => Worth[2 * u] = 2 * u + (Worth[u] + Worth[u])
<1>1. \A v \in Nat : Worth[v] = WorthStep(Worth, v)
  <2>1. PICK W : W = Worth
    OBVIOUS
  <2>2. W = [v \in Nat |-> WorthStep(W, v)]
    BY <2>1, WorthIs
  <2> QED BY <2>1, <2>2
<1>2. Worth[0] = 0 /\ Worth[1] = 0 /\ Worth[2] = 0
  BY <1>1 DEF WorthStep
<1>3. \A v \in Nat : Worth[v] \in Nat
  <2> DEFINE S == {n \in Nat : \A v \in Nat : v <= n => Worth[v] \in Nat}
  <2>1. 0 \in S
    BY <1>2
  <2>2. ASSUME NEW n \in Nat, n \in S PROVE n + 1 \in S
    <3>1. WorthStep(Worth, n+1) \in Nat
      <4>1. n + 1 > 2 => (n+1) \div 2 \in Nat /\ (n+1) \div 2 <= n
        OBVIOUS
      <4>2. n + 1 > 2 => Worth[(n+1) \div 2] \in Nat
        BY <2>2, <4>1
      <4> QED BY <4>2 DEF WorthStep
    <3>2. Worth[n+1] \in Nat
      BY <1>1, <3>1
    <3>3. \A v \in Nat : v <= n+1 => v = n+1 \/ v <= n
      OBVIOUS
    <3> QED BY <2>2, <3>2, <3>3
  <2>3. \A n \in Nat : n \in S
    <3> HIDE DEF S
    <3> QED BY <2>1, <2>2, AllNumbers
  <2> QED BY <2>3
<1>4. ASSUME NEW u \in Nat, u >= 2 PROVE Worth[2 * u] = 2 * u + (Worth[u] + Worth[u])
  <2>1. 2 * u \in Nat /\ 2 * u > 2 /\ (2 * u) \div 2 = u
    BY <1>4
  <2>2. Worth[2 * u] = 2 * u + 2 * Worth[u]
    BY <1>1, <2>1 DEF WorthStep
  <2>3. Worth[u] \in Nat
    BY <1>3
  <2> QED BY <2>2, <2>3
<1>5. Worth[4] = 4
  <2>1. Worth[2 * 2] = 2 * 2 + (Worth[2] + Worth[2])
    BY <1>4
  <2>2. 2 * 2 = 4
    OBVIOUS
  <2> QED BY <1>2, <2>1, <2>2
<1> QED BY <1>2, <1>3, <1>4, <1>5

-----------------------------------------------------------------------------
(* What a move earns.                                                      *)

\* Tiles of a played board: all come from 2s and 4s, so none is a 1.
Played == Nat \ {0, 1}

\* What the first n places of a line or a sequence are worth.
LineWorth(s, n) == SumOver([k \in 1..n |-> Worth[s[k]]], 1..n)

LEMMA LineWorthSteps ==
    ASSUME NEW n \in Nat, NEW s, \A k \in 1 .. n+1 : s[k] \in Nat
    PROVE  /\ LineWorth(s, 0) = 0 /\ LineWorth(s, n) \in Nat
           /\ LineWorth(s, n+1) = Worth[s[n+1]] + LineWorth(s, n)
<1>1. PICK f : f = [k \in 1 .. n+1 |-> Worth[s[k]]]
  OBVIOUS
<1>2. PICK g : g = [k \in 1 .. n |-> Worth[s[k]]]
  OBVIOUS
<1>3. \A k \in 1 .. n+1 : f[k] = Worth[s[k]] /\ f[k] \in Nat
  BY <1>1, WorthSteps
<1>4. \A k \in 1 .. n : f[k] \in Nat /\ g[k] = f[k]
  BY <1>2, <1>3
<1>5. IsFiniteSet(1..n) /\ IsFiniteSet({})
  BY FS_Interval, FS_EmptySet
<1>6. 1 .. n+1 = (1..n) \cup {n+1} /\ n+1 \notin 1..n
  OBVIOUS
<1>7. SumOver(f, 1..n) \in Nat /\ SumOver(f, (1..n) \cup {n+1}) = f[n+1] + SumOver(f, 1..n)
  BY <1>3, <1>5, <1>6, SumAdds
<1>8. SumOver(g, 1..n) = SumOver(f, 1..n)
  BY <1>4, <1>5, SumSame
<1>9. LineWorth(s, n) = SumOver(g, 1..n) /\ LineWorth(s, n+1) = SumOver(f, 1 .. n+1)
  BY <1>1, <1>2 DEF LineWorth
<1>10. LineWorth(s, 0) = 0
  <2>1. 1..0 = {}
    OBVIOUS
  <2>2. PICK h : h = [k \in 1..0 |-> Worth[s[k]]]
    OBVIOUS
  <2>3. SumOver(h, {}) = 0
    BY <1>5, SumTakes
  <2> QED BY <2>1, <2>2, <2>3 DEF LineWorth
<1> QED BY <1>3, <1>6, <1>7, <1>8, <1>9, <1>10

\* The worth of places that hold the same.
LEMMA LineWorthSame ==
    ASSUME NEW n \in Nat, NEW s, NEW t, \A k \in 1..n : s[k] = t[k]
    PROVE  LineWorth(s, n) = LineWorth(t, n)
<1>1. [k \in 1..n |-> Worth[s[k]]] = [k \in 1..n |-> Worth[t[k]]]
  OBVIOUS
<1> QED BY <1>1 DEF LineWorth

\* Leaving out the empty cells loses nothing.
LEMMA PackedWorth ==
    ASSUME NEW line \in Lines, \A k \in 1..N : line[k] # 1
    PROVE  /\ Packed(line) \in Seq(Played)
           /\ LineWorth(Packed(line), Len(Packed(line))) = LineWorth(line, N)
<1> USE BoardAssumption
<1>0. PICK U : U = PackedUpTo(line)
  OBVIOUS
<1> DEFINE Kept(k) == /\ U[k] \in Seq(Played)
                      /\ LineWorth(U[k], Len(U[k])) = LineWorth(line, k)
           S == {k \in Nat : k <= N => Kept(k)}
<1>1. 0 \in S
  <2>1. U[0] = <<>>
    BY <1>0, LineIsSeq, PackedUpToSteps
  <2>2. U[0] \in Seq(Played) /\ Len(U[0]) = 0
    BY <2>1
  <2>3. LineWorth(U[0], 0) = LineWorth(line, 0)
    <3>1. \A k \in 1..0 : U[0][k] = line[k]
      OBVIOUS
    <3> QED BY <3>1, LineWorthSame
  <2> QED BY <2>2, <2>3
<1>2. ASSUME NEW k \in Nat, k \in S PROVE k + 1 \in S
  <2> SUFFICES ASSUME k+1 <= N PROVE Kept(k+1)
    OBVIOUS
  <2>1. Kept(k)
    BY <1>2
  <2>2. k+1 \in 1..N /\ line[k+1] \in Nat /\ line[k+1] # 1
    BY DEF Lines
  <2>3. U[k+1] = IF line[k+1] # 0 THEN Append(U[k], line[k+1]) ELSE U[k]
    BY <1>0, <2>2, LineIsSeq, PackedUpToSteps
  <2>4. LineWorth(line, k+1) = Worth[line[k+1]] + LineWorth(line, k)
        /\ LineWorth(line, k) \in Nat
    <3>1. \A j \in 1 .. k+1 : line[j] \in Nat
      BY DEF Lines
    <3> QED BY <3>1, LineWorthSteps
  <2>5. CASE line[k+1] = 0
    <3>1. U[k+1] = U[k]
      BY <2>3, <2>5
    <3>2. LineWorth(line, k+1) = LineWorth(line, k)
      BY <2>4, <2>5, WorthSteps
    <3> QED BY <2>1, <3>1, <3>2
  <2>6. CASE line[k+1] # 0
    <3>1. PICK e \in Played : e = line[k+1]
      BY <2>2, <2>6 DEF Played
    <3>2. PICK u \in Seq(Played) : u = U[k]
      BY <2>1
    <3>3. PICK v \in Seq(Played) : v = Append(u, e)
      <4>1. Append(u, e) \in Seq(Played)
        OBVIOUS
      <4> QED BY <4>1
    <3>4. PICK n \in Nat : n = Len(u)
      OBVIOUS
    <3>5. Len(v) = n+1 /\ v[n+1] = e /\ \A j \in 1..n : v[j] = u[j]
      BY <3>3, <3>4
    <3>6. \A j \in 1 .. n+1 : v[j] \in Nat
      BY <3>5 DEF Played
    <3>7. LineWorth(v, n+1) = Worth[e] + LineWorth(v, n)
      BY <3>5, <3>6, LineWorthSteps
    <3>8. LineWorth(v, n) = LineWorth(u, n)
      BY <3>5, LineWorthSame
    <3>9. U[k+1] = v
      BY <2>3, <2>6, <3>1, <3>2, <3>3
    <3>10. LineWorth(u, n) = LineWorth(line, k)
      BY <2>1, <3>2, <3>4
    <3>11. LineWorth(v, n+1) = LineWorth(line, k+1)
      BY <2>4, <3>1, <3>7, <3>8, <3>10
    <3> QED BY <3>5, <3>9, <3>11
  <2> QED BY <2>5, <2>6
<1>3. \A k \in Nat : k \in S
  <2> HIDE DEF S
  <2> QED BY <1>1, <1>2, AllNumbers
<1>4. Kept(N)
  <2> HIDE DEF Kept
  <2> QED BY <1>3
<1> QED BY <1>0, <1>4, LineIsSeq DEF Packed

\* What the tile or tiles that came to a spot were worth: less by the new tile
\* if they merged.
SpotWorth(e) == IF e.merged THEN Worth[e.tile] - e.tile ELSE Worth[e.tile]

FairSpots == {e \in Spots : e.tile \in Played /\ SpotWorth(e) \in Nat}

SpotsWorth(r) == SumOver([k \in 1 .. Len(r) |-> SpotWorth(r[k])], 1 .. Len(r))

LEMMA PrependedWorth ==
    ASSUME NEW e \in FairSpots, NEW s \in Seq(FairSpots)
    PROVE  /\ <<e>> \o s \in Seq(FairSpots)
           /\ SpotsWorth(s) \in Nat
           /\ SpotsWorth(<<e>> \o s) = SpotWorth(e) + SpotsWorth(s)
<1>1. PICK r : r = <<e>> \o s
  OBVIOUS
<1>2. PICK n \in Nat : n = Len(s)
  OBVIOUS
<1>3. /\ r \in Seq(FairSpots) /\ Len(r) = n+1 /\ r[1] = e
      /\ \A k \in 2 .. n+1 : r[k] = s[k-1]
  BY <1>1, <1>2, Prepended
<1>4. PICK f : f = [k \in 1 .. n+1 |-> SpotWorth(r[k])]
  OBVIOUS
<1>5. PICK g : g = [k \in 1 .. n |-> SpotWorth(s[k])]
  OBVIOUS
<1>6. PICK b : b = [k \in 1 .. n |-> k+1]
  OBVIOUS
<1>7. \A k \in 1 .. n+1 : f[k] \in Nat
  <2>1. \A k \in 1 .. n+1 : r[k] \in FairSpots
    BY <1>3
  <2>2. \A spot \in FairSpots : SpotWorth(spot) \in Nat
    BY DEF FairSpots
  <2> QED BY <1>4, <2>1, <2>2
<1>8. \A k \in 1 .. n : g[k] \in Nat /\ f[b[k]] = g[k]
  <2> SUFFICES ASSUME NEW k \in 1 .. n PROVE g[k] \in Nat /\ f[b[k]] = g[k]
    OBVIOUS
  <2>1. g[k] = SpotWorth(s[k]) /\ s[k] \in FairSpots
    BY <1>2, <1>5
  <2>2. b[k] = k+1 /\ k+1 \in 2 .. n+1 /\ r[k+1] = s[k]
    BY <1>3, <1>6
  <2>3. f[k+1] = SpotWorth(r[k+1])
    BY <1>4
  <2> QED BY <2>1, <2>2, <2>3 DEF FairSpots
<1>9. IsFiniteSet(1..n) /\ IsFiniteSet(1 .. n+1)
  BY FS_Interval
<1>10. SumOver(f, {b[k] : k \in 1..n}) = SumOver(g, 1..n)
  <2>1. \A j, k \in 1..n : b[j] = b[k] => j = k
    BY <1>6
  <2>2. PICK D : D = 1..n
    OBVIOUS
  <2>3. /\ IsFiniteSet(D)
        /\ \A j, k \in D : b[j] = b[k] => j = k
        /\ \A k \in D : g[k] \in Nat /\ f[b[k]] = g[k]
    BY <1>8, <1>9, <2>1, <2>2
  <2>4. SumOver(f, {b[k] : k \in D}) = SumOver(g, D)
    BY <2>3, SumMoved
  <2> QED BY <2>2, <2>4
<1>11. {b[k] : k \in 1..n} = (1 .. n+1) \ {1}
  <2>1. \A k \in (1 .. n+1) \ {1} : k-1 \in 1..n /\ b[k-1] = k
    BY <1>6
  <2>2. \A k \in 1..n : b[k] \in (1 .. n+1) \ {1}
    BY <1>6
  <2> QED BY <2>1, <2>2
<1>12. SumOver(f, 1 .. n+1) = f[1] + SumOver(f, (1 .. n+1) \ {1})
  <2>1. 1 \in 1 .. n+1
    OBVIOUS
  <2> QED BY <1>7, <1>9, <2>1, SumTakes
<1>13. SumOver(g, 1..n) \in Nat
  BY <1>8, <1>9, SumTakes
<1>14. SpotsWorth(r) = SumOver(f, 1 .. n+1) /\ SpotsWorth(s) = SumOver(g, 1..n)
  BY <1>2, <1>3, <1>4, <1>5 DEF SpotsWorth
<1>15. f[1] = SpotWorth(e)
  BY <1>3, <1>4
<1> QED BY <1>1, <1>3, <1>10, <1>11, <1>12, <1>13, <1>14, <1>15

\* The worth of the tiles from the i-th on.
TailWorth(packed, i) ==
    SumOver([j \in 1 .. Len(packed) |-> Worth[packed[j]]], i .. Len(packed))

LEMMA TailWorthSteps ==
    ASSUME NEW packed \in Seq(Played)
    PROVE  /\ TailWorth(packed, Len(packed) + 1) = 0
           /\ TailWorth(packed, 1) = LineWorth(packed, Len(packed))
           /\ \A i \in 1 .. Len(packed) :
                 /\ TailWorth(packed, i + 1) \in Nat
                 /\ TailWorth(packed, i) = Worth[packed[i]] + TailWorth(packed, i + 1)
<1>1. PICK L \in Nat : L = Len(packed)
  OBVIOUS
<1>2. PICK f : f = [j \in 1 .. L |-> Worth[packed[j]]]
  OBVIOUS
<1>3. \A j \in 1..L : f[j] = Worth[packed[j]] /\ f[j] \in Nat
  <2>1. \A j \in 1..L : packed[j] \in Played
    BY <1>1
  <2> QED BY <1>2, <2>1, WorthSteps DEF Played
<1>4. \A i : TailWorth(packed, i) = SumOver(f, i..L)
  BY <1>1, <1>2 DEF TailWorth
<1>5. SumOver(f, (L+1)..L) = 0
  <2>1. (L+1)..L = {}
    OBVIOUS
  <2>2. SumOver(f, {}) = 0
    BY FS_EmptySet, SumTakes
  <2> QED BY <2>1, <2>2
<1>6. TailWorth(packed, 1) = LineWorth(packed, Len(packed))
  BY DEF TailWorth, LineWorth
<1>7. ASSUME NEW i \in 1..L
      PROVE  SumOver(f, (i+1)..L) \in Nat /\ SumOver(f, i..L) = f[i] + SumOver(f, (i+1)..L)
  <2>1. i..L = ((i+1)..L) \cup {i} /\ i \notin (i+1)..L
    OBVIOUS
  <2>2. IsFiniteSet((i+1)..L)
    BY FS_Interval
  <2>3. \A j \in ((i+1)..L) \cup {i} : f[j] \in Nat
    BY <1>3
  <2>4. SumOver(f, (i+1)..L) \in Nat
        /\ SumOver(f, ((i+1)..L) \cup {i}) = f[i] + SumOver(f, (i+1)..L)
    BY <2>1, <2>2, <2>3, SumAdds
  <2> QED BY <2>1, <2>4
<1> QED BY <1>1, <1>3, <1>4, <1>5, <1>6, <1>7

\* Whatever merges, the spots account for the tiles that came to them.
LEMMA MergeKeepsWorth ==
    ASSUME NEW packed \in Seq(Played)
    PROVE  /\ Merge(packed) \in Seq(FairSpots)
           /\ SpotsWorth(Merge(packed)) = LineWorth(packed, Len(packed))
<1>0. PICK L \in Nat : L = Len(packed)
  OBVIOUS
<1>4. PICK M : M = MergedFrom(packed)
  OBVIOUS
<1>9. packed \in Seq(Tiles)
  <2>1. Played \subseteq Tiles
    BY DEF Played, Tiles
  <2> QED BY <2>1
<1> DEFINE Kept(i) == M[i] \in Seq(FairSpots) /\ SpotsWorth(M[i]) = TailWorth(packed, i)
           S == {n \in Nat : \A i \in 1 .. L+1 : i + n > L => Kept(i)}
<1>1. 0 \in S
  <2> SUFFICES Kept(L+1)
    <3> HIDE DEF Kept
    <3> QED OBVIOUS
  <2>1. M[L+1] = <<>>
    BY <1>0, <1>4, <1>9, MergedFromSteps
  <2>2. PICK s \in Seq(FairSpots) : s = <<>> /\ Len(s) = 0
    <3>1. <<>> \in Seq(FairSpots) /\ Len(<<>>) = 0
      OBVIOUS
    <3> QED BY <3>1
  <2>3. SpotsWorth(s) = 0
    <3>1. PICK f : f = [k \in 1..0 |-> SpotWorth(s[k])]
      OBVIOUS
    <3>2. SumOver(f, {}) = 0
      BY FS_EmptySet, SumTakes
    <3>3. 1..0 = {}
      OBVIOUS
    <3> QED BY <2>2, <3>1, <3>2, <3>3 DEF SpotsWorth
  <2> QED BY <1>0, <2>1, <2>2, <2>3, TailWorthSteps
<1>2. ASSUME NEW n \in Nat, n \in S PROVE n + 1 \in S
  <2> SUFFICES ASSUME NEW i \in 1..L, i + n = L PROVE Kept(i)
    <3> HIDE DEF Kept
    <3> QED BY <1>2
  <2>1. M[i] = MergeStep(packed, M, i) /\ packed[i] \in Played
    BY <1>0, <1>4, <1>9, MergedFromSteps
  <2>2. Kept(i+1) /\ (i < L => Kept(i+2))
    <3> HIDE DEF Kept
    <3> QED BY <1>2
  <2>3. /\ TailWorth(packed, i+1) \in Nat
        /\ TailWorth(packed, i) = Worth[packed[i]] + TailWorth(packed, i+1)
    BY <1>0, TailWorthSteps
  <2>4. Worth[packed[i]] \in Nat
    BY <2>1, WorthSteps DEF Played
  <2>5. CASE i < L /\ packed[i] = packed[i+1]
    <3>1. PICK e : e = [tile |-> 2 * packed[i], merged |-> TRUE]
      OBVIOUS
    <3>2. e \in FairSpots /\ SpotWorth(e) = Worth[packed[i]] + Worth[packed[i]]
      <4>1. 2 * packed[i] \in Played /\ packed[i] \in Nat /\ packed[i] >= 2
        BY <2>1 DEF Played
      <4>2. Worth[2 * packed[i]] = 2 * packed[i] + (Worth[packed[i]] + Worth[packed[i]])
        BY <4>1, WorthSteps
      <4>3. e.tile = 2 * packed[i] /\ e.merged = TRUE
        BY <3>1
      <4>4. SpotWorth(e) = Worth[packed[i]] + Worth[packed[i]]
        BY <2>4, <4>1, <4>2, <4>3 DEF SpotWorth
      <4>5. e \in Spots
        BY <3>1, <4>1 DEF Spots, Tiles, Played
      <4> QED BY <2>4, <4>1, <4>3, <4>4, <4>5 DEF FairSpots
    <3>3. M[i] = <<e>> \o M[i+2]
      BY <1>0, <2>1, <2>5, <3>1 DEF MergeStep
    <3>4. /\ M[i] \in Seq(FairSpots) /\ SpotsWorth(M[i+2]) \in Nat
          /\ SpotsWorth(M[i]) = SpotWorth(e) + SpotsWorth(M[i+2])
      BY <2>2, <2>5, <3>2, <3>3, PrependedWorth
    <3>5. TailWorth(packed, i+1) = Worth[packed[i]] + TailWorth(packed, i+2)
          /\ TailWorth(packed, i+2) \in Nat
      <4>1. i+1 \in 1..L /\ (i+1)+1 = i+2
        BY <2>5
      <4> QED BY <1>0, <2>5, <4>1, TailWorthSteps
    <3> QED BY <2>2, <2>3, <2>4, <2>5, <3>2, <3>4, <3>5
  <2>6. CASE ~(i < L /\ packed[i] = packed[i+1])
    <3>1. PICK e : e = [tile |-> packed[i], merged |-> FALSE]
      OBVIOUS
    <3>2. e \in FairSpots /\ SpotWorth(e) = Worth[packed[i]]
      BY <2>1, <2>4, <3>1 DEF FairSpots, SpotWorth, Spots, Tiles, Played
    <3>3. M[i] = <<e>> \o M[i+1]
      BY <1>0, <2>1, <2>6, <3>1 DEF MergeStep
    <3>4. M[i] \in Seq(FairSpots) /\ SpotsWorth(M[i]) = SpotWorth(e) + SpotsWorth(M[i+1])
      BY <2>2, <3>2, <3>3, PrependedWorth
    <3> QED BY <2>2, <2>3, <3>2, <3>4
  <2> QED BY <2>5, <2>6
<1>3. L \in S
  <2> HIDE DEF S
  <2> QED BY <1>1, <1>2, AllNumbers
<1>5. Kept(1)
  <2> HIDE DEF Kept
  <2> QED BY <1>3
<1> QED BY <1>4, <1>5, TailWorthSteps DEF Merge

\* A compressed line accounts for the tiles it had, spot by spot.
LEMMA CompressKeepsWorth ==
    ASSUME NEW line \in Lines, \A k \in 1..N : line[k] # 1
    PROVE  /\ \A k \in 1..N :
                 /\ Compress(line)[k].tile # 1
                 /\ SpotWorth(Compress(line)[k]) \in Nat
           /\ SumOver([k \in 1..N |-> SpotWorth(Compress(line)[k])], 1..N)
                = LineWorth(line, N)
<1> USE BoardAssumption
<1>1. PICK result :
        /\ result = Merge(Packed(line)) /\ Len(result) \in 0..N
        /\ \A k \in 1..N :
              Compress(line)[k] = IF k <= Len(result) THEN result[k]
                                  ELSE [tile |-> 0, merged |-> FALSE]
  BY LineIsSeq, CompressIs
<1>2. /\ result \in Seq(FairSpots)
      /\ SpotsWorth(result) = LineWorth(line, N)
  BY <1>1, PackedWorth, MergeKeepsWorth
<1>3. PICK n \in 0..N : n = Len(result)
  BY <1>1
<1>4. ASSUME NEW k \in 1..n
      PROVE  Compress(line)[k] = result[k] /\ result[k] \in FairSpots
  BY <1>1, <1>2, <1>3
<1>5. ASSUME NEW k \in (1..N) \ (1..n)
      PROVE  Compress(line)[k] = [tile |-> 0, merged |-> FALSE]
             /\ SpotWorth(Compress(line)[k]) = 0
  <2>1. Compress(line)[k] = [tile |-> 0, merged |-> FALSE]
    BY <1>1, <1>3
  <2> QED BY <2>1, WorthSteps DEF SpotWorth
<1>6. ASSUME NEW k \in 1..N
      PROVE  Compress(line)[k].tile # 1 /\ SpotWorth(Compress(line)[k]) \in Nat
  <2>1. CASE k \in 1..n
    BY <1>4, <2>1 DEF FairSpots, Played
  <2>2. CASE k \notin 1..n
    BY <1>5, <2>2
  <2> QED BY <2>1, <2>2
<1>7. PICK f : f = [k \in 1..N |-> SpotWorth(Compress(line)[k])]
  OBVIOUS
<1>8. PICK g : g = [k \in 1..n |-> SpotWorth(result[k])]
  OBVIOUS
<1>9. IsFiniteSet(1..N) /\ IsFiniteSet(1..n) /\ 1..n \subseteq 1..N
  BY FS_Interval
<1>10. \A k \in 1..N : f[k] = SpotWorth(Compress(line)[k]) /\ f[k] \in Nat
  BY <1>6, <1>7
<1>11. SumOver(f, 1..N) = SumOver(f, 1..n)
  <2>1. \A k \in (1..N) \ (1..n) : f[k] = 0
    BY <1>5, <1>10
  <2> QED BY <1>9, <1>10, <2>1, SumWithoutZeros
<1>12. SumOver(f, 1..n) = SumOver(g, 1..n)
  <2>1. \A k \in 1..n : g[k] \in Nat /\ f[k] = g[k]
    BY <1>4, <1>8, <1>9, <1>10
  <2> QED BY <1>9, <2>1, SumSame
<1>13. SumOver(g, 1..n) = SpotsWorth(result)
  BY <1>3, <1>8 DEF SpotsWorth
<1> QED BY <1>2, <1>6, <1>7, <1>11, <1>12, <1>13

\* A sum over the board may be taken line by line.
LEMMA SumByLine ==
    ASSUME NEW d \in Directions, NEW f, NEW g,
           \A c \in Cells : f[c] \in Nat /\ g[c] \in Nat,
           \A l \in 0 .. N-1 : SumOver([k \in 1..N |-> f[CellAt(d, l, k)]], 1..N)
                                 = SumOver([k \in 1..N |-> g[CellAt(d, l, k)]], 1..N)
    PROVE  SumOver(f, Cells) = SumOver(g, Cells)
<1> USE BoardAssumption
<1> DEFINE Before(n) == {c \in Cells : LineNo(d, c) < n}
           OnLine(l) == {c \in Cells : LineNo(d, c) = l}
           S == {n \in Nat : n <= N => SumOver(f, Before(n)) = SumOver(g, Before(n))}
<1>1. ASSUME NEW l \in 0 .. N-1, NEW h, \A c \in Cells : h[c] \in Nat
      PROVE  SumOver(h, OnLine(l)) = SumOver([k \in 1..N |-> h[CellAt(d, l, k)]], 1..N)
  <2>1. PICK b : b = [k \in 1..N |-> CellAt(d, l, k)]
    OBVIOUS
  <2>2. PICK e : e = [k \in 1..N |-> h[CellAt(d, l, k)]]
    OBVIOUS
  <2>3. PICK D : D = 1..N
    OBVIOUS
  <2>4. \A k \in D : /\ b[k] \in Cells /\ LineNo(d, b[k]) = l /\ Place(d, b[k]) = k
                     /\ e[k] = h[b[k]]
    BY <2>1, <2>2, <2>3, CellsAndLines
  <2>5. /\ IsFiniteSet(D)
        /\ \A j, k \in D : b[j] = b[k] => j = k
        /\ \A k \in D : e[k] \in Nat /\ h[b[k]] = e[k]
    <3>1. IsFiniteSet(D)
      BY <2>3, FS_Interval
    <3>2. \A j, k \in D : b[j] = b[k] => j = k
      BY <2>4
    <3>3. \A k \in D : e[k] \in Nat /\ h[b[k]] = e[k]
      BY <1>1, <2>4
    <3> QED BY <3>1, <3>2, <3>3
  <2>6. SumOver(h, {b[k] : k \in D}) = SumOver(e, D)
    BY <2>5, SumMoved
  <2>7. ASSUME NEW c \in OnLine(l) PROVE \E k \in D : c = b[k]
    <3>1. c \in Cells /\ LineNo(d, c) = l
      OBVIOUS
    <3>2. Place(d, c) \in D /\ CellAt(d, l, Place(d, c)) = c
      BY <2>3, <3>1, CellsAndLines
    <3>3. b[Place(d, c)] = c
      BY <2>1, <2>3, <3>2
    <3> QED BY <3>2, <3>3
  <2>8. {b[k] : k \in D} = OnLine(l)
    BY <2>4, <2>7
  <2> QED BY <2>2, <2>3, <2>6, <2>8
<1>2. 0 \in S
  <2>1. Before(0) = {}
    BY CellsAndLines
  <2>2. SumOver(f, {}) = 0 /\ SumOver(g, {}) = 0
    BY FS_EmptySet, SumTakes
  <2> HIDE DEF Before
  <2> QED BY <2>1, <2>2
<1>3. ASSUME NEW n \in Nat, n \in S PROVE n + 1 \in S
  <2> SUFFICES ASSUME n+1 <= N
               PROVE  SumOver(f, Before(n+1)) = SumOver(g, Before(n+1))
    OBVIOUS
  <2>1. Before(n+1) = Before(n) \cup OnLine(n)
    BY CellsAndLines
  <2>2. Before(n) \cap OnLine(n) = {}
    BY CellsAndLines
  <2>3. Before(n) \subseteq Cells /\ OnLine(n) \subseteq Cells
    OBVIOUS
  <2>4. SumOver(f, Before(n)) = SumOver(g, Before(n))
    BY <1>3
  <2>5. SumOver(f, OnLine(n)) = SumOver(g, OnLine(n))
    <3> HIDE DEF OnLine
    <3>1. n \in 0 .. N-1
      OBVIOUS
    <3>2. SumOver(f, OnLine(n)) = SumOver([k \in 1..N |-> f[CellAt(d, n, k)]], 1..N)
      BY <1>1, <3>1
    <3>3. SumOver(g, OnLine(n)) = SumOver([k \in 1..N |-> g[CellAt(d, n, k)]], 1..N)
      BY <1>1, <3>1
    <3> QED BY <3>1, <3>2, <3>3
  <2> HIDE DEF Before, OnLine
  <2>6. IsFiniteSet(Before(n)) /\ IsFiniteSet(OnLine(n))
    BY <2>3, CellsAreFinite, FS_Subset
  <2>7. SumOver(f, Before(n) \cup OnLine(n)) = SumOver(f, Before(n)) + SumOver(f, OnLine(n))
    BY <2>2, <2>3, <2>6, SumUnion
  <2>8. SumOver(g, Before(n) \cup OnLine(n)) = SumOver(g, Before(n)) + SumOver(g, OnLine(n))
    BY <2>2, <2>3, <2>6, SumUnion
  <2> QED BY <2>1, <2>4, <2>5, <2>7, <2>8
<1>4. \A n \in Nat : n \in S
  <2> HIDE DEF S
  <2> QED BY <1>2, <1>3, AllNumbers
<1>5. Before(N) = Cells
  BY CellsAndLines
<1>6. SumOver(f, Before(N)) = SumOver(g, Before(N))
  <2> HIDE DEF Before
  <2> QED BY <1>4
<1> QED BY <1>5, <1>6

\* A board's tiles come from 2s and 4s.
PlayedBoards == {tiles \in Boards : \A c \in Cells : tiles[c] # 1}

BoardWorth(tiles) == SumOver([c \in Cells |-> Worth[tiles[c]]], Cells)

\* score_delta is what the merges of a move have added to the tiles' worth, in
\* all lines together: no merge is scored twice or not at all.
THEOREM MoveEarnsItsMerges ==
    ASSUME NEW tiles \in PlayedBoards, NEW d \in Directions
    PROVE  /\ Slide(tiles, d) \in PlayedBoards
           /\ BoardWorth(Slide(tiles, d)) = BoardWorth(tiles) + Gain(tiles, d)
<1> USE BoardAssumption
<1>1. PICK after \in Boards : after = Slide(tiles, d)
  BY SlideHasType DEF PlayedBoards
<1>2. PICK M \in SUBSET Cells : M = MergedBy(tiles, d)
  BY SlideHasType DEF PlayedBoards
<1>3. tiles \in Boards /\ \A c \in Cells : tiles[c] # 1 /\ tiles[c] \in Nat
  BY DEF PlayedBoards, Boards
<1>4. ASSUME NEW l \in 0 .. N-1
      PROVE  /\ Line(tiles, d, l) \in Lines
             /\ \A k \in 1..N : Line(tiles, d, l)[k] = tiles[CellAt(d, l, k)]
             /\ \A k \in 1..N : Line(tiles, d, l)[k] # 1
  <2>1. Line(tiles, d, l) \in Lines
    BY <1>3, LineHasType
  <2>2. \A k \in 1..N : Line(tiles, d, l)[k] = tiles[CellAt(d, l, k)]
    BY DEF Line
  <2>3. \A k \in 1..N : CellAt(d, l, k) \in Cells
    BY CellsAndLines
  <2> QED BY <1>3, <2>1, <2>2, <2>3
<1>5. PICK prior : prior = [c \in Cells |-> SpotWorth(Slid(tiles, d, c))]
  OBVIOUS
<1>6. PICK earned : earned = [c \in Cells |-> IF c \in M THEN after[c] ELSE 0]
  OBVIOUS
<1>7. PICK worth : worth = [c \in Cells |-> Worth[after[c]]]
  OBVIOUS
<1>8. PICK old : old = [c \in Cells |-> Worth[tiles[c]]]
  OBVIOUS
<1>9. ASSUME NEW c \in Cells
      PROVE  /\ after[c] # 1 /\ after[c] \in Nat
             /\ prior[c] \in Nat /\ earned[c] \in Nat /\ old[c] \in Nat
             /\ worth[c] = prior[c] + earned[c]
  <2>1. LineNo(d, c) \in 0 .. N-1 /\ Place(d, c) \in 1..N
    BY CellsAndLines
  <2>2. PICK e : e = Slid(tiles, d, c)
    OBVIOUS
  <2>3. e.tile # 1 /\ SpotWorth(e) \in Nat
    BY <1>4, <2>1, <2>2, CompressKeepsWorth DEF Slid
  <2>4. after[c] = e.tile /\ after[c] \in Nat
    BY <1>1, <2>2 DEF Slide, Boards
  <2>5. c \in M <=> e.merged
    BY <1>2, <2>2 DEF MergedBy
  <2>6. prior[c] = SpotWorth(e) /\ earned[c] = (IF c \in M THEN after[c] ELSE 0)
        /\ worth[c] = Worth[after[c]] /\ old[c] = Worth[tiles[c]]
    BY <1>5, <1>6, <1>7, <1>8, <2>2
  <2>7. Worth[after[c]] \in Nat /\ Worth[tiles[c]] \in Nat
    BY <1>3, <2>4, WorthSteps
  <2> QED BY <2>3, <2>4, <2>5, <2>6, <2>7 DEF SpotWorth
<1>10. IsFiniteSet(Cells)
  BY CellsAreFinite
<1>11. SumOver(worth, Cells) = SumOver(prior, Cells) + SumOver(earned, Cells)
  BY <1>9, <1>10, SumPlus
<1>12. SumOver(earned, Cells) = Gain(tiles, d)
  <2>1. SumOver(earned, Cells) = SumOver(earned, M)
    <3>1. \A c \in Cells \ M : earned[c] = 0
      BY <1>6
    <3> QED BY <1>9, <1>10, <3>1, SumWithoutZeros
  <2>2. SumOver(after, M) = SumOver(earned, M)
    <3>1. IsFiniteSet(M) /\ \A c \in M : earned[c] \in Nat /\ after[c] = earned[c]
      BY <1>6, <1>9, <1>10, FS_Subset
    <3> QED BY <3>1, SumSame
  <2>3. Gain(tiles, d) = SumOver(after, M)
    BY <1>1, <1>2 DEF Gain, SumOver
  <2> QED BY <2>1, <2>2, <2>3
<1>13. SumOver(prior, Cells) = SumOver(old, Cells)
  <2>1. ASSUME NEW l \in 0 .. N-1
        PROVE  SumOver([k \in 1..N |-> prior[CellAt(d, l, k)]], 1..N)
                 = SumOver([k \in 1..N |-> old[CellAt(d, l, k)]], 1..N)
    <3>1. PICK line \in Lines : line = Line(tiles, d, l)
      BY <1>4
    <3>2. SumOver([k \in 1..N |-> SpotWorth(Compress(line)[k])], 1..N) = LineWorth(line, N)
      BY <1>4, <3>1, CompressKeepsWorth
    <3>3. ASSUME NEW k \in 1..N
          PROVE  /\ prior[CellAt(d, l, k)] = SpotWorth(Compress(line)[k])
                 /\ old[CellAt(d, l, k)] = Worth[line[k]]
      <4>1. PICK c \in Cells : c = CellAt(d, l, k) /\ LineNo(d, c) = l /\ Place(d, c) = k
        BY CellsAndLines
      <4>2. Slid(tiles, d, c) = Compress(line)[k]
        BY <3>1, <4>1 DEF Slid
      <4>3. line[k] = tiles[c]
        BY <1>4, <3>1, <4>1
      <4> QED BY <1>5, <1>8, <4>1, <4>2, <4>3
    <3>4. [k \in 1..N |-> prior[CellAt(d, l, k)]] = [k \in 1..N |-> SpotWorth(Compress(line)[k])]
      BY <3>3
    <3>5. [k \in 1..N |-> old[CellAt(d, l, k)]] = [k \in 1..N |-> Worth[line[k]]]
      BY <3>3
    <3> QED BY <3>2, <3>4, <3>5 DEF LineWorth
  <2> QED BY <1>9, <2>1, SumByLine
<1>14. BoardWorth(tiles) = SumOver(old, Cells) /\ BoardWorth(Slide(tiles, d)) = SumOver(worth, Cells)
  BY <1>1, <1>7, <1>8 DEF BoardWorth
<1>15. Slide(tiles, d) \in PlayedBoards
  BY <1>1, <1>9 DEF PlayedBoards
<1> QED BY <1>11, <1>12, <1>13, <1>14, <1>15

\* A spawned 2 is worth nothing, a spawned 4 as much as its merge would have been.
LEMMA SpawnAddsWorth ==
    ASSUME NEW tiles \in PlayedBoards, NEW a \in Spawned(tiles)
    PROVE  /\ a.tiles \in PlayedBoards
           /\ BoardWorth(tiles) \in Nat
           /\ BoardWorth(a.tiles) = BoardWorth(tiles) + IF a.tile = 4 THEN 4 ELSE 0
<1> DEFINE empties == {c \in Cells : tiles[c] = 0}
<1>1. PICK old : old = [c \in Cells |-> Worth[tiles[c]]]
  OBVIOUS
<1>2. \A c \in Cells : tiles[c] \in Nat /\ tiles[c] # 1 /\ old[c] = Worth[tiles[c]] /\ old[c] \in Nat
  BY <1>1, WorthSteps DEF PlayedBoards, Boards
<1>3. BoardWorth(tiles) = SumOver(old, Cells) /\ SumOver(old, Cells) \in Nat
  BY <1>1, <1>2, CellsAreFinite, SumTakes DEF BoardWorth
<1>4. CASE empties = {}
  <2>1. a = [tiles |-> tiles, tile |-> 0]
    BY <1>4 DEF Spawned
  <2>2. a.tiles = tiles /\ a.tile = 0
    BY <2>1
  <2> QED BY <1>3, <2>2
<1>5. CASE empties # {}
  <2>1. PICK c \in Cells, v \in {2, 4} :
          tiles[c] = 0 /\ a = [tiles |-> [tiles EXCEPT ![c] = v], tile |-> v]
    BY <1>5 DEF Spawned
  <2>2. a.tiles = [tiles EXCEPT ![c] = v] /\ a.tile = v
    BY <2>1
  <2>3. a.tiles \in PlayedBoards /\ a.tiles[c] = v
        /\ \A e \in Cells \ {c} : a.tiles[e] = tiles[e]
    BY <2>1, <2>2 DEF PlayedBoards, Boards
  <2>4. PICK new : new = [e \in Cells |-> Worth[a.tiles[e]]]
    OBVIOUS
  <2>5. new[c] = (IF v = 4 THEN 4 ELSE 0) /\ old[c] = 0
    BY <1>2, <2>1, <2>3, <2>4, WorthSteps
  <2>6. \A e \in Cells \ {c} : old[e] \in Nat /\ new[e] = old[e]
    BY <1>2, <2>3, <2>4
  <2>7. \A e \in Cells : new[e] \in Nat
    BY <2>5, <2>6
  <2>8. IsFiniteSet(Cells \ {c})
    BY CellsAreFinite, FS_Subset
  <2>9. SumOver(new, Cells) = new[c] + SumOver(new, Cells \ {c})
    BY <2>7, CellsAreFinite, SumTakes
  <2>10. SumOver(old, Cells) = old[c] + SumOver(old, Cells \ {c})
    BY <1>2, CellsAreFinite, SumTakes
  <2>11. SumOver(new, Cells \ {c}) = SumOver(old, Cells \ {c})
    BY <2>6, <2>8, SumSame
  <2>12. SumOver(old, Cells \ {c}) \in Nat
    BY <2>6, <2>8, SumTakes
  <2>13. BoardWorth(a.tiles) = SumOver(new, Cells)
    BY <2>4 DEF BoardWorth
  <2> QED BY <1>3, <2>2, <2>3, <2>5, <2>9, <2>10, <2>11, <2>12, <2>13
<1> QED BY <1>4, <1>5

LEMMA EmptyIsWorthNothing == EmptyBoard \in PlayedBoards /\ BoardWorth(EmptyBoard) = 0
<1>1. PICK w : w = [c \in Cells |-> Worth[EmptyBoard[c]]]
  OBVIOUS
<1>2. \A c \in Cells : w[c] = 0
  BY <1>1, WorthSteps DEF EmptyBoard
<1>3. SumOver(w, Cells) = 0
  BY <1>2, CellsAreFinite, SumOfZeros
<1> QED BY <1>1, <1>3 DEF BoardWorth, PlayedBoards, Boards, EmptyBoard
=============================================================================
