------------------------------ MODULE MCSdCard ------------------------------
(***************************************************************************)
(* Three blocks of two words, a FIFO shorter than a transfer of two, a     *)
(* 16-bit counter of six values, so that a write of three blocks is longer *)
(* than it counts, and faults enough for a retry to go wrong once more.    *)
(***************************************************************************)
EXTENDS SdCard
=============================================================================
