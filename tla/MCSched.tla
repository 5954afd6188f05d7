------------------------------- MODULE MCSched -------------------------------
(***************************************************************************)
(* A small instance of SelectedSched for TLC.  PromiseKept contains        *)
(* Scheduler's fairness, so no symmetry set is declared.                   *)
(***************************************************************************)
EXTENDS SelectedSched
=============================================================================
