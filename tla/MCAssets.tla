------------------------------- MODULE MCAssets -------------------------------
(* Two uploads and a result, two confirmations at a time, pages of one. *)
EXTENDS Assets, TLC

MCUploads == {1, 3}
MCOutput  == 2
MCTimes   == {1, 2}
Perms     == Permutations(Requests)
=============================================================================
