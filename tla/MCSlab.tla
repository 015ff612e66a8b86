------------------------------- MODULE MCSlab -------------------------------
(***************************************************************************)
(* Two caches whose blocks are one page and two pages and hold two objects *)
(* each, with a place left over where no whole object fits, and room for   *)
(* both to grow.                                                           *)
(***************************************************************************)
EXTENDS Slab, TLC

HandleSymmetry == Permutations(Handle)
=============================================================================
