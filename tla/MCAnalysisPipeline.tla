------------------------- MODULE MCAnalysisPipeline -------------------------
(***************************************************************************)
(* Values for the constants of AnalysisPipeline.                           *)
(***************************************************************************)
EXTENDS AnalysisPipeline, TLC

\* Diaries of one upload share its day.
MCDayOf == [d \in Diary |-> 20]

Timely == {"crash", "db_error"}
Contended == {"crash", "db_error", "lock_loss", "late_bg"}

MCSymmetry == Permutations(Proc) \cup Permutations(Diary)
MCProcSymmetry == Permutations(Proc)
=============================================================================
