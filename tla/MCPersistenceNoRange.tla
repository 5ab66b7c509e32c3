------------------------- MODULE MCPersistenceNoRange -------------------------
(***************************************************************************)
(* Model checking PersistenceThread for a server without Range support:    *)
(* one request for the whole file serves the one hole of a resumed file.   *)
(***************************************************************************)
EXTENDS PersistenceThread

\* Seven bytes in blocks of four; block 0 is trusted, the range is block 1.
MCBlockSize == 4
OneHole == {0}
OneHoleFirst == [r \in OneHole |-> 4]
OneHoleLast == [r \in OneHole |-> TotalSize - 1]

\* The packets begin at offset 0, and none begins where the range does.
WholeFilePackets ==
  {[range |-> 0, offset |-> 0, size |-> 3],
   [range |-> 0, offset |-> 3, size |-> 2],
   [range |-> 0, offset |-> 5, size |-> 2]}
=============================================================================
