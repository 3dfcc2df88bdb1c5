---------------------------- MODULE MCPluginNew ----------------------------
(* The runtime's memory is also listed by host_env; the program passes an  *)
(* export under the name of a host function, one under the same name in    *)
(* its own namespace, and one twice.                                       *)
EXTENDS PluginNew

CONSTANTS s, t

MCNamespaces  == {"host/env", "host/user"}
MCNames       == {"var_get", "memory", "alloc"}
MCHostNames   == {"var_get", "memory"}
MCKernelNames == {"alloc", "memory"}

Own(n)   == <<"host/user", n>>
MCUserExports ==
  {<<>>, <<<<"host/env", "var_get">>, Own("var_get"), Own("var_get")>>}

MCAllKinds == AllKinds
=============================================================================
