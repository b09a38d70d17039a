--------------------------- MODULE MCPlaybackList ---------------------------
(***************************************************************************)
(* Instances of PlaybackList for TLC.                                      *)
(***************************************************************************)
EXTENDS PlaybackList

SlotSymmetry == Permutations(Slots)
=============================================================================
