----------------------------- MODULE MCLoading ------------------------------
(***************************************************************************)
(* Model-checking Loading with the constants of each run's cfg.            *)
(***************************************************************************)
EXTENDS Loading
=============================================================================
