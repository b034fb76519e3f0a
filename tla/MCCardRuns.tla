------------------------------ MODULE MCCardRuns ------------------------------
(* Instances of CardRuns for TLC. *)
EXTENDS LeasedRuns, TLC

(* Runs are interchangeable: the process treats its tasks alike. *)
AnyTask == Permutations(Tasks)
================================================================================
