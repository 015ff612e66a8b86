----------------------------- MODULE MCExt2Data -----------------------------
(***************************************************************************)
(* Two files of two sectors each, one behind the other, and sectors of     *)
(* three bytes: a call of up to four bytes begins and ends anywhere in a   *)
(* sector, touches one, two or three of them, and may pass the file's end. *)
(***************************************************************************)
EXTENDS Ext2Data, TLC
CONSTANTS f1, f2

FileOrder == <<f1, f2>>
DescSymmetry == Permutations(Desc)
=============================================================================
