------------------------------ MODULE Geometry ------------------------------
(***************************************************************************)
(* The geometry every component of the downloader shares: offsets of a     *)
(* remote file of TotalSize bytes, the fixed size blocks the bitmap counts *)
(* them in, and the operations of AtomicBlockBitmap as functions from one  *)
(* bitmap to the next (core/alignment.hpp, core/block_bitmap.cpp).         *)
(*                                                                         *)
(* An interval of bytes is half open, [from, upto), as it is in the        *)
(* arguments of mark_downloading_range and mark_finished_range.            *)
(* The loops of the code are given here by what they compute.              *)
(***************************************************************************)
EXTENDS Integers

CONSTANTS BlockSize,   \* DownloadOptions::block_size
          TotalSize    \* SessionState::total_size, positive once the probe succeeded

ASSUME GeometryAssumption ==
  /\ BlockSize \in Nat \ {0}
  /\ TotalSize \in Nat \ {0}

Min2(a, b) == IF a <= b THEN a ELSE b
Max2(a, b) == IF a >= b THEN a ELSE b

AlignDown(value, alignment) == (value \div alignment) * alignment
AlignUp(value, alignment) == ((value + alignment - 1) \div alignment) * alignment

-----------------------------------------------------------------------------
\* Blocks.

BlockCount == (TotalSize + BlockSize - 1) \div BlockSize
Blocks == 0 .. (BlockCount - 1)
Bytes == 0 .. (TotalSize - 1)

BlockBegin(b) == b * BlockSize
BlockEnd(b) == Min2((b + 1) * BlockSize, TotalSize)   \* exclusive
BlockBytes(b) == BlockBegin(b) .. (BlockEnd(b) - 1)

-----------------------------------------------------------------------------
\* Bitmaps.

BlockState == {"empty", "downloading", "finished"}
Bitmaps == [Blocks -> BlockState]
EmptyBitmap == [b \in Blocks |-> "empty"]

FinishedBlocks(bitmap) == {b \in Blocks : bitmap[b] = "finished"}

\* Only empty -> downloading, and only for the blocks the interval meets.
MarkDownloading(bitmap, from, upto) ==
  [b \in Blocks |->
     IF bitmap[b] = "empty" /\ Max2(from, BlockBegin(b)) < Min2(upto, BlockEnd(b))
       THEN "downloading"
       ELSE bitmap[b]]

\* A block is finished by an interval that covers all of its valid bytes.
Covers(from, upto, b) == from <= BlockBegin(b) /\ BlockEnd(b) <= upto

MarkFinished(bitmap, from, upto) ==
  [b \in Blocks |-> IF Covers(from, upto, b) THEN "finished" ELSE bitmap[b]]

ResetTransient(bitmap) ==
  [b \in Blocks |-> IF bitmap[b] = "downloading" THEN "empty" ELSE bitmap[b]]

\* The number of leading blocks that are finished, and the bytes they hold: the VDL.
FinishedPrefix(bitmap) ==
  CHOOSE n \in 0 .. BlockCount :
    /\ \A b \in 0 .. (n - 1) : bitmap[b] = "finished"
    /\ n < BlockCount => bitmap[n] # "finished"

ContiguousFinished(bitmap) == Min2(FinishedPrefix(bitmap) * BlockSize, TotalSize)
=============================================================================
