--------------------------- MODULE MCLoadManifest ---------------------------
(* Manifests of up to three entries, each of a few kinds: sound ones of    *)
(* every source, whose names may collide, one for every way to fail, and   *)
(* one that never answers.                                                 *)
EXTENDS LoadManifest

MCNames == {"main", "lib"}

E(source, meta, own, fault, silent) ==
  [source |-> source, meta |-> meta, own |-> own, fault |-> fault, silent |-> silent]

Sound ==
  {E("data", NoName, NoName, "none", FALSE), E("data", "lib", "main", "none", FALSE),
   E("file", NoName, "lib", "none", FALSE), E("url", "lib", NoName, "none", FALSE)}

Unsound ==
  {E("data", NoName, NoName, "compile", FALSE), E("file", NoName, NoName, "response", FALSE),
   E("file", "lib", NoName, "request", FALSE),
   E("url", NoName, NoName, "request", FALSE), E("url", NoName, NoName, "response", FALSE),
   E("url", NoName, NoName, "body", FALSE), E("url", NoName, NoName, "compile", FALSE)}

Hanging == {E("url", NoName, NoName, "none", TRUE)}

UpTo3(S) == {<<>>} \cup {<<x>> : x \in S} \cup {<<x, y>> : x, y \in S}
              \cup {<<x, y, z>> : x, y, z \in S}

AllManifests == UpTo3(Sound \cup Unsound \cup Hanging)
=============================================================================
