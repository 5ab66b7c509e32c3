-------------------------------- MODULE Sums --------------------------------
(***************************************************************************)
(* The sum of the values a function takes over a finite set, for counting  *)
(* what buffers and queues hold.                                           *)
(***************************************************************************)
EXTENDS Integers, Folds

Sum(f, S) == MapThenFoldSet(+, 0, LAMBDA x : f[x], LAMBDA s : CHOOSE x \in s : TRUE, S)
=============================================================================
