---------------------------- MODULE MCBlockBitmap ----------------------------
(***************************************************************************)
(* Four blocks, the last one short.                                        *)
(***************************************************************************)
EXTENDS BlockBitmap_proofs

MCBlockSize == 2
MCTotalSize == 7
=============================================================================
