---- MODULE MCHostFunctions ----
(* HostFunctions with the values of MCValues; blocks are interchangeable. *)
EXTENDS HostFunctions, MCValues, TLC

Blocks == Permutations(Offsets)
====
