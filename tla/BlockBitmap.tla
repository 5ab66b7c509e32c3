----------------------------- MODULE BlockBitmap -----------------------------
(***************************************************************************)
(* AtomicBlockBitmap (core/block_bitmap.cpp) block by block: every block is*)
(* an atomic of its own and nothing locks the bitmap.  The persistence     *)
(* thread is its one writer, with mark_downloading_range and               *)
(* mark_finished_range; beside it the flush task reads the VDL with        *)
(* contiguous_finished_bytes.  The other modules take each of these calls  *)
(* for one step (Geometry); this one says how far they may.                *)
(***************************************************************************)
EXTENDS Geometry

VARIABLES
  states,    \* states_
  call,      \* the writer's call and its arguments
  index,     \* its loop variable
  scanning,  \* the reader is in its loop
  position,  \* the reader's loop variable
  finished_bytes,  \* the reader's finished: what it has counted
  answer,    \* what it returned last
  expected   \* history: the bitmap if every call were one step

vars == <<states, call, index, scanning, position, finished_bytes, answer, expected>>

NoCall == [op |-> "none", from |-> 0, upto |-> 0]
Calls == [op : {"downloading", "finished"}, from : Bytes, upto : 1 .. TotalSize]

-----------------------------------------------------------------------------
\* The writer.

\* What c does to a bitmap, as Geometry has it.
Effect(c, bitmap) ==
  IF c.op = "downloading" THEN MarkDownloading(bitmap, c.from, c.upto)
                          ELSE MarkFinished(bitmap, c.from, c.upto)

\* An empty interval returns at once.  Intervals end within the file, so clamping them to
\* it changes nothing.
Mark(c) ==
  /\ call = NoCall
  /\ c.from < c.upto
  /\ call' = c
  /\ index' = c.from \div BlockSize
  /\ expected' = Effect(c, expected)
  /\ UNCHANGED <<states, scanning, position, finished_bytes, answer>>

\* end_block.  Slip: the block of the first byte behind the interval.
BlockBehind(upto) == upto \div BlockSize
LastBlock(upto) == (upto - 1) \div BlockSize
Looping == index <= LastBlock(call.upto) /\ index < BlockCount

\* compare_exchange from empty.  Slip: a plain store.
Stored(state) == "downloading"
Exchanged(state) == IF state = "empty" THEN "downloading" ELSE state

MarkBlock ==
  /\ call # NoCall
  /\ Looping
  /\ states' = [states EXCEPT ![index] =
                  IF call.op = "downloading" THEN Exchanged(@)
                  ELSE IF Covers(call.from, call.upto, index) THEN "finished" ELSE @]
  /\ index' = index + 1
  /\ UNCHANGED <<call, scanning, position, finished_bytes, answer, expected>>

MarkReturns ==
  /\ call # NoCall
  /\ ~Looping
  /\ call' = NoCall
  /\ index' = 0
  /\ UNCHANGED <<states, scanning, position, finished_bytes, answer, expected>>

-----------------------------------------------------------------------------
\* The reader.

BeginScan ==
  /\ ~scanning
  /\ scanning' = TRUE
  /\ position' = 0
  /\ finished_bytes' = 0
  /\ UNCHANGED <<states, call, index, answer, expected>>

\* The loop's load finds a finished block, and the file may end with it.
ScanBlock ==
  /\ scanning
  /\ position < BlockCount
  /\ states[position] = "finished"
  /\ position' = position + 1
  /\ finished_bytes' = finished_bytes + BlockSize
  /\ IF finished_bytes' >= TotalSize THEN answer' = TotalSize /\ scanning' = FALSE
                               ELSE UNCHANGED <<answer, scanning>>
  /\ UNCHANGED <<states, call, index, expected>>

ScanStops ==
  /\ scanning
  /\ position < BlockCount => states[position] # "finished"
  /\ answer' = finished_bytes
  /\ scanning' = FALSE
  /\ UNCHANGED <<states, call, index, position, finished_bytes, expected>>

-----------------------------------------------------------------------------
\* A run begins with the bitmap its metadata gave it, or with an empty one.
Init ==
  /\ states \in [Blocks -> {"empty", "finished"}]
  /\ call = NoCall
  /\ index = 0
  /\ scanning = FALSE
  /\ position = 0
  /\ finished_bytes = 0
  /\ answer = 0
  /\ expected = states

Next ==
  \/ \E c \in Calls : Mark(c)
  \/ MarkBlock
  \/ MarkReturns
  \/ BeginScan
  \/ ScanBlock
  \/ ScanStops

Spec == Init /\ [][Next]_vars

-----------------------------------------------------------------------------
(***************************************************************************)
(* Properties.                                                             *)
(***************************************************************************)

\* A call that returned has marked what Geometry's operator marks, no block more or less:
\* the two divisions find the blocks the interval meets, the short last one included.
MarksComputed == call = NoCall => states = expected

\* The VDL is the longest finished prefix of the bitmap as it was at one moment of the
\* scan, its last load, although blocks are marked all the while: a block it has passed
\* stays finished.
VdlOfOneMoment == [][scanning /\ ~scanning' => answer' = ContiguousFinished(states)]_vars
=============================================================================
