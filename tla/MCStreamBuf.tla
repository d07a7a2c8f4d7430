---------------------------- MODULE MCStreamBuf ----------------------------
(* StreamBuf on small instances: the other values are in the cfg. *)
EXTENDS StreamBuf

MCBuffers ==
  {[kind |-> "fixed", capacity |-> 3], [kind |-> "borrowed", capacity |-> 4]} \cup
  {[kind |-> "dynamic", capacity |-> n] : n \in {0, 2}}

MCItems == {<<1>>, <<0, 1>>}

MCStrings == {<<>>, <<1>>}
=============================================================================
