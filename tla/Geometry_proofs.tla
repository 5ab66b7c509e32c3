--------------------------- MODULE Geometry_proofs ---------------------------
(***************************************************************************)
(* Facts about blocks and offsets that the proofs of the components cite.  *)
(***************************************************************************)
EXTENDS Geometry, Sums_proofs

\* A nonempty set of naturals below a bound has a greatest element.
LEMMA GreatestOf ==
  ASSUME NEW n \in Nat, NEW T \in SUBSET (0 .. n), T # {}
  PROVE  \E x \in T : \A y \in T : y <= x
<1> DEFINE U == {n - x : x \in T}
<1>1. U \in SUBSET Nat /\ U # {}
  <2>1. \A x \in T : n - x \in Nat
    OBVIOUS
  <2>2. PICK x \in T : TRUE
    OBVIOUS
  <2>3. n - x \in U
    OBVIOUS
  <2> QED
    BY <2>1, <2>3
<1>2. PICK u \in U : \A v \in U : u <= v
  <2> HIDE DEF U
  <2> QED
    BY <1>1, SmallestOf
<1>3. PICK x \in T : u = n - x
  OBVIOUS
<1>4. \A y \in T : y <= x
  <2> TAKE y \in T
  <2>1. u <= n - y
    BY <1>2
  <2> QED
    BY <2>1, <1>3
<1> QED
  BY <1>4

\* Multiplication by the block size preserves strict order with a whole block to spare.
LEMMA BlockOrder ==
  ASSUME NEW a \in Int, NEW b \in Int, a < b
  PROVE  (a + 1) * BlockSize <= b * BlockSize
  BY GeometryAssumption

LEMMA DivBounds ==
  ASSUME NEW x \in Int, NEW d \in Nat \ {0}
  PROVE  /\ x \div d \in Int
         /\ (x \div d) * d <= x
         /\ x < (x \div d) * d + d
  OBVIOUS

\* Rounding an offset to blocks gives an offset, for any way of halving a length.
LEMMA RoundingTyped ==
  ASSUME NEW x \in Int, NEW y \in Int
  PROVE  /\ AlignDown(x + y \div 2, BlockSize) \in Int
         /\ AlignUp(x + y \div 2, BlockSize) \in Int
<1>1. y \div 2 \in Int
  OBVIOUS
<1>2. /\ (x + y \div 2) \div BlockSize \in Int
      /\ (x + y \div 2 + BlockSize - 1) \div BlockSize \in Int
  BY <1>1, DivBounds, GeometryAssumption
<1> QED
  BY <1>2, GeometryAssumption DEF AlignDown, AlignUp

LEMMA CountCovers ==
  /\ BlockCount \in Nat
  /\ BlockCount * BlockSize >= TotalSize
  /\ (BlockCount - 1) * BlockSize < TotalSize
  BY GeometryAssumption, DivBounds DEF BlockCount

\* A block is a nonempty interval of bytes of the file.
LEMMA BlockInFile ==
  ASSUME NEW b \in Blocks
  PROVE  /\ b \in Nat
         /\ BlockBegin(b) \in Bytes
         /\ BlockEnd(b) \in 1 .. TotalSize
         /\ BlockBegin(b) < BlockEnd(b)
         /\ BlockEnd(b) <= BlockBegin(b) + BlockSize
<1>1. b \in Nat /\ b <= BlockCount - 1
  BY CountCovers DEF Blocks
<1>2. b * BlockSize <= (BlockCount - 1) * BlockSize
  BY <1>1, CountCovers, GeometryAssumption
<1>3. b * BlockSize \in Nat /\ (b + 1) * BlockSize = b * BlockSize + BlockSize
  BY <1>1, GeometryAssumption
<1>4. b * BlockSize < TotalSize
  BY <1>2, <1>3, CountCovers, GeometryAssumption
<1> QED
  BY <1>1, <1>3, <1>4, GeometryAssumption DEF BlockBegin, BlockEnd, Bytes, Min2

\* Blocks follow each other without overlap.
LEMMA BlockSequence ==
  ASSUME NEW b \in Blocks, NEW c \in Blocks, b < c
  PROVE  BlockEnd(b) <= BlockBegin(c) /\ BlockEnd(b) <= BlockEnd(c)
<1>1. (b + 1) * BlockSize <= c * BlockSize
  BY BlockOrder, BlockInFile
<1>2. (b + 1) * BlockSize \in Int /\ c * BlockSize \in Int
  BY BlockInFile, GeometryAssumption
<1> QED
  BY <1>1, <1>2, BlockInFile, GeometryAssumption DEF BlockBegin, BlockEnd, Min2, Bytes

\* Every byte lies in a block.
LEMMA ByteHasBlock ==
  ASSUME NEW x \in Bytes
  PROVE  \E b \in Blocks : x \in BlockBytes(b)
<1> DEFINE b == x \div BlockSize
<1>1. x \in Nat /\ x < TotalSize
  BY GeometryAssumption DEF Bytes
<1>2. b \in Int /\ b * BlockSize <= x /\ x < b * BlockSize + BlockSize
  BY <1>1, DivBounds, GeometryAssumption
<1> HIDE DEF b
<1>3. b >= 0
  <2>1. CASE b < 0
    <3>1. (b + 1) * BlockSize <= 0 * BlockSize
      BY <1>2, <2>1, BlockOrder
    <3>2. (b + 1) * BlockSize = b * BlockSize + BlockSize /\ 0 * BlockSize = 0
      BY <1>2, GeometryAssumption
    <3> QED
      BY <3>1, <3>2, <1>1, <1>2, GeometryAssumption
  <2> QED
    BY <2>1, <1>2
<1>4. b < BlockCount
  <2>1. CASE BlockCount <= b
    <3>1. BlockCount * BlockSize <= b * BlockSize
      BY <1>2, <2>1, <1>3, CountCovers, GeometryAssumption
    <3> QED
      BY <3>1, <1>1, <1>2, CountCovers, GeometryAssumption
  <2> QED
    BY <2>1, <1>2, CountCovers
<1>5. b \in Blocks
  BY <1>2, <1>3, <1>4, CountCovers DEF Blocks
<1>6. (b + 1) * BlockSize = b * BlockSize + BlockSize /\ b * BlockSize \in Int
  BY <1>2, GeometryAssumption
<1>7. x \in BlockBytes(b)
  BY <1>1, <1>2, <1>6, GeometryAssumption DEF BlockBytes, BlockBegin, BlockEnd, Min2
<1> QED
  BY <1>5, <1>7

\* Two blocks that share a byte are the same block.
LEMMA ByteHasOneBlock ==
  ASSUME NEW b \in Blocks, NEW c \in Blocks,
         NEW x \in BlockBytes(b), x \in BlockBytes(c)
  PROVE  b = c
<1>1. CASE b < c
  BY <1>1, BlockSequence, BlockInFile DEF BlockBytes, Bytes
<1>2. CASE c < b
  BY <1>2, BlockSequence, BlockInFile DEF BlockBytes, Bytes
<1> QED
  BY <1>1, <1>2, BlockInFile

\* The bytes from the first of block i to the last of block j are those of blocks i..j.
LEMMA RunBytes ==
  ASSUME NEW i \in Blocks, NEW j \in Blocks, i <= j
  PROVE  /\ BlockBegin(i) \in Bytes /\ BlockEnd(j) - 1 \in Bytes
         /\ BlockBegin(i) <= BlockEnd(j) - 1
         /\ \A x \in Bytes :
              BlockBegin(i) <= x /\ x <= BlockEnd(j) - 1
                <=> \E b \in i .. j : x \in BlockBytes(b)
<1>1. BlockEnd(i) <= BlockEnd(j) /\ BlockBegin(i) <= BlockBegin(j)
  BY BlockSequence, BlockInFile DEF Bytes
<1>2. /\ BlockBegin(i) \in Bytes /\ BlockEnd(j) - 1 \in Bytes
      /\ BlockBegin(i) <= BlockEnd(j) - 1
  BY <1>1, BlockInFile, GeometryAssumption DEF Bytes
<1>3. ASSUME NEW x \in Bytes, BlockBegin(i) <= x, x <= BlockEnd(j) - 1
      PROVE  \E b \in i .. j : x \in BlockBytes(b)
  <2>1. PICK b \in Blocks : x \in BlockBytes(b)
    BY ByteHasBlock
  <2>2. BlockBegin(b) <= x /\ x < BlockEnd(b)
    BY <2>1, BlockInFile DEF BlockBytes, Bytes
  <2>3. i <= b
    BY <1>3, <2>2, BlockSequence, BlockInFile DEF Bytes
  <2>4. b <= j
    BY <1>3, <2>2, BlockSequence, BlockInFile DEF Bytes
  <2> QED
    BY <2>1, <2>3, <2>4, BlockInFile
<1>4. ASSUME NEW x \in Bytes, NEW b \in i .. j, x \in BlockBytes(b)
      PROVE  BlockBegin(i) <= x /\ x <= BlockEnd(j) - 1
  <2>1. b \in Blocks
    BY BlockInFile, CountCovers DEF Blocks
  <2>2. BlockBegin(i) <= BlockBegin(b) /\ BlockEnd(b) <= BlockEnd(j)
    BY <2>1, BlockSequence, BlockInFile DEF Bytes
  <2> QED
    BY <1>4, <2>1, <2>2, BlockInFile DEF BlockBytes, Bytes
<1> QED
  BY <1>2, <1>3, <1>4
=============================================================================
