------------------------------ MODULE MCKfifo ------------------------------
(* Instances of Kfifo for TLC. *)
EXTENDS Kfifo

\* Records of one byte and of three.
MCRecords == UNION {[1 .. n -> Bytes] : n \in {1, 3}}

\* Records of two bytes, like the fixed-size records of test.cpp.
MCPairs == [1 .. 2 -> Bytes]
=============================================================================
