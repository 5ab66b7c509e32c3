------------------------- MODULE MCPersistenceThread -------------------------
(***************************************************************************)
(* Model checking PersistenceThread: blocks of four bytes, writes of two,  *)
(* and packets whose borders are not those of the writes.                  *)
(***************************************************************************)
EXTENDS PersistenceThread_proofs

MCBlockSize == 4
MCIoAlignment == 2

Packet(r, from, upto) == [range |-> r, offset |-> from, size |-> upto - from]

\* One range, the whole file, in three packets that may arrive in any order.
\* The second ends inside a unit of io_alignment, at a block's end.
OneRange == {0}
OneRangeFirst == [r \in OneRange |-> 0]
OneRangeLast == [r \in OneRange |-> TotalSize - 1]
OneRangePackets == {Packet(0, 0, 3), Packet(0, 3, 4), Packet(0, 4, TotalSize)}

\* A resumed file: block 2 is trusted, range 0 is blocks 0 and 1 before it,
\* range 1 is block 3 behind it, the end of the file; its first packet ends inside a
\* unit of io_alignment.
TwoRanges == {0, 1}
TwoRangesFirst == [r \in TwoRanges |-> IF r = 0 THEN 0 ELSE 12]
TwoRangesLast == [r \in TwoRanges |-> IF r = 0 THEN 7 ELSE TotalSize - 1]
TwoRangesPackets ==
  {Packet(0, 0, 8), Packet(1, 12, 13), Packet(1, 13, TotalSize)}
=============================================================================
