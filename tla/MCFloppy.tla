------------------------------ MODULE MCFloppy ------------------------------
(***************************************************************************)
(* Model-checking Floppy with the constants of each run's cfg.             *)
(***************************************************************************)
EXTENDS Floppy
=============================================================================
