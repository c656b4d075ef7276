------------------------------- MODULE MCHic --------------------------------
(***************************************************************************)
(* Model-checking Hic: two cards, the buffers and ports of each run's cfg. *)
(***************************************************************************)
EXTENDS Hic

CONSTANTS a, b
=============================================================================
