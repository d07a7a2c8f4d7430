------------------------------ MODULE MCServer ------------------------------
(* Server on a small instance: the other values are in the cfg. *)
EXTENDS Server

\* One command, for the commands are alike, and what lies around it.
MCCmds == -1 .. 2
=============================================================================
