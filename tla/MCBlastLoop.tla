----------------------------- MODULE MCBlastLoop -----------------------------
(***************************************************************************)
(* A small instance of BlastLoop for TLC.                                  *)
(***************************************************************************)
EXTENDS BlastLoop, TLC

MCLoops == 1..2

MCLeads == 1..2

====
