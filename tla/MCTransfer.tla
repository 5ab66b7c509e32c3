----------------------------- MODULE MCTransfer -----------------------------
(***************************************************************************)
(* Model checking Transfer.                                                *)
(***************************************************************************)
EXTENDS Delivery_proofs

\* Room for two buffers and a chunk; and less than the first chunk.
MCWatermarks == {[high |-> 5, low |-> 2], [high |-> 2, low |-> 1]}
\* The buffers of all transfers stay below the low watermark.
MCAmpleMemory == {[high |-> 20, low |-> 10]}
=============================================================================
