------------------------------- MODULE MCExt2 -------------------------------
(***************************************************************************)
(* Two tasks on a card with room for one more file than the root           *)
(* directory; a short name and a longer one, so that a name written over a *)
(* longer one leaves a rest; directory sectors of two entries, so that the *)
(* directory grows into its second sector; sector bitmap sectors of four   *)
(* bits, so that a run of sectors crosses from one into the next; and a    *)
(* machine that starts anew on the used card.                              *)
(***************************************************************************)
EXTENDS Ext2, TLC
CONSTANTS a, long

Lengths == [n \in {a, long, Dot} |-> IF n = long THEN 3 ELSE 1]
TaskSymmetry == Permutations(Task)
=============================================================================
