------------------------------- MODULE MCBuddy -------------------------------
(***************************************************************************)
(* The page allocator on a small array: one pair of largest blocks (the    *)
(* second one without a marked head page) and two odd pages, as 1542 pages *)
(* are three pairs and six odd pages.                                      *)
(***************************************************************************)
EXTENDS Buddy, TLC

\* Which handle a caller keeps a block in makes no difference.
HandleSymmetry == Permutations(Handle)
=============================================================================
