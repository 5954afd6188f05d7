---------------------------- MODULE MCThreadPool ----------------------------
(***************************************************************************)
(* A small instance of ProfiledPool for TLC.  The jobs are interchangeable,*)
(* but the run checks liveness, so no symmetry set is declared.            *)
(***************************************************************************)
EXTENDS ProfiledPool
=============================================================================
