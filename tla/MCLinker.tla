------------------------------ MODULE MCLinker ------------------------------
(* Three modules; a has up to two imports of every kind there is, b and c  *)
(* up to two from any of the three.  "y" of namespace b is a host function *)
(* of the program and, of another type, an export of module b; d is no     *)
(* module of the plugin.  wasi_p1 and wasix are served by the environment  *)
(* of WASIX, which has no "y".                                             *)
EXTENDS Linker

MCNamespaces == {"a", "b", "c", "d", "hostenv", "env", "wasi_p1", "wasix"}
MCItems      == {"x", "y", "mem"}
MCTypes      == {"f", "g", "global", "memory"}
MCFunctions  == {"f", "g"}
MCMemories   == {"memory"}
MCCompatible == {<<t, t>> : t \in MCTypes}

MCExports ==
  [n \in MCNamespaces |->
     CASE n = "b" -> [i \in {"x", "y", "mem"} |->
                        CASE i = "x" -> "f" [] i = "y" -> "g" [] OTHER -> "memory"]
       [] n = "c" -> [i \in {"x", "y"} |-> IF i = "x" THEN "f" ELSE "g"]
       [] OTHER   -> [i \in {"x"} |-> "f"]]

MCExternals ==
  [p \in {<<"hostenv", "x">>, <<"hostenv", "mem">>, <<"b", "y">>} |->
     IF p[2] = "mem" THEN "memory" ELSE "f"]

MCWasiNamed   == {"wasi_p1"}
MCWasiExports == [p \in {<<"wasi_p1", "x">>, <<"wasix", "x">>} |-> "f"]

Wants(n, i, t) == [from |-> n, item |-> i, type |-> t]

FromModules == {Wants(n, "x", "f") : n \in {"a", "b", "c"}}
AnyImport ==
  FromModules \cup
  {Wants("c", "y", "f"), Wants("c", "mem", "global"), Wants("b", "mem", "memory"),
   Wants("b", "y", "f"), Wants("b", "y", "g"), Wants("d", "x", "f"), Wants("env", "mem", "memory"),
   Wants("hostenv", "x", "f"), Wants("hostenv", "x", "g"),
   Wants("hostenv", "mem", "memory"),
   Wants("wasi_p1", "x", "f"), Wants("wasi_p1", "y", "f"), Wants("wasix", "x", "f")}

OrWasi == FromModules \cup {Wants("wasi_p1", "x", "f")}

UpToTwo(S) == {<<>>} \cup {<<i>> : i \in S} \cup {<<i, j>> : i, j \in S}

Plugin(x, y, z) == [m \in {"a", "b", "c"} |->
                      CASE m = "a" -> x [] m = "b" -> y [] OTHER -> z]

MCPlugins == {Plugin(x, y, z) : x \in UpToTwo(AnyImport),
                y \in UpToTwo(OrWasi), z \in UpToTwo(FromModules)}
=============================================================================
