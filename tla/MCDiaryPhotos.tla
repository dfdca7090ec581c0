--------------------------- MODULE MCDiaryPhotos ---------------------------
(***************************************************************************)
(* Requests are interchangeable: nothing orders them.                      *)
(***************************************************************************)
EXTENDS DiaryPhotos, TLC

MCSymmetry == Permutations(Request)
=============================================================================
