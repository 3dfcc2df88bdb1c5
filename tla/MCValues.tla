------------------------------ MODULE MCValues ------------------------------
(* Values for the host functions and the calls: one non-empty text, word, *)
(* is key, value, log line and what fresh memory holds; junk is not UTF-8. *)
EXTENDS HostFunctions

CONSTANTS word, junk

MCText    == {Empty, word}
MCBytes   == {Empty, word, junk}
MCConfig  == [t \in MCText |-> IF t = word THEN word ELSE Absent]
MCImports == {"log", "config_get", "var_get", "var_set"}
OnlyConfig == {"config_get"}
OnlyVars   == {"var_get", "var_set"}
NoTraps   == {}
HostTraps == {"free"}
CallTraps == {"alloc", "free", "input_set", "output_offset"}
=============================================================================
