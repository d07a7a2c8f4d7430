------------------------------ MODULE MCTaurus ------------------------------
(* Taurus for TLC: the constants are in MCTaurus.cfg. *)
EXTENDS Taurus
=============================================================================
