---------------------------- MODULE MCBackplane -----------------------------
(***************************************************************************)
(* Model-checking Backplane with the constants of the cfg.                 *)
(***************************************************************************)
EXTENDS Backplane
=============================================================================
