---- MODULE MCPluginCall ----
(* PluginCall with the values of MCValues; blocks are interchangeable. *)
EXTENDS CallRefinement, MCValues, TLC

Blocks == Permutations(Offsets)
====
