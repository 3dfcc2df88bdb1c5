---- MODULE MCHostAnswers ----
(* HostAnswers with the values of MCValues; blocks are interchangeable. *)
EXTENDS HostAnswers, MCValues, TLC

Blocks == Permutations(Offsets)
====
