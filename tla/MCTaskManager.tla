--------------------------- MODULE MCTaskManager ---------------------------
(* Instances of TaskManager for TLC. *)
EXTENDS TaskManager, TLC

\* Addresses of coroutines and of tasks are interchangeable.
MCSymmetry == Permutations(Coroutines) \cup Permutations(Tasks)
=============================================================================
