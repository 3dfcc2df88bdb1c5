--------------------------- MODULE MCSavedPlugin ---------------------------
(* Two names, two modules this engine can load and one it cannot; the file *)
(* has room for one entry more than a plugin has modules.                  *)
EXTENDS SavedPlugin

MCNames  == {"main", "lib"}
MCNative == {"a", "b"}
MCCode   == MCNative \cup {"foreign"}
=============================================================================
