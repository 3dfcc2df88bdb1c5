---- MODULE MCVarRequests ----
(* VarRequests with the values of MCValues; blocks are interchangeable. *)
EXTENDS VarRequests, MCValues, TLC

Blocks == Permutations(Offsets)
====
