--------------------------- MODULE MCRangeScheduler ---------------------------
(***************************************************************************)
(* Model checking RangeScheduler, together with the inductive invariant of *)
(* its proofs: a strengthening that TLC refutes need not be proved.        *)
(* Every resumed bitmap is an initial state, so the sizes stay small.      *)
(***************************************************************************)
EXTENDS RangeScheduler_proofs

\* Thirteen bytes in blocks of two: six full blocks and a short one.
MCBlockSize == 2
MCTotalSize == 13
=============================================================================
