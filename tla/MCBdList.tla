------------------------------ MODULE MCBdList ------------------------------
(* BdList on a small instance: the values are in the cfg.                   *)
EXTENDS BdList

=============================================================================
