---------------------------- MODULE SavedPlugin ----------------------------
(***************************************************************************)
(* The modules of a plugin by name: the conversions of src/wasm_input.rs   *)
(* and the match on WasmInput in Plugin::new, Plugin's Serialize, and      *)
(* Plugin::deserialize with PluginModuleVisitor (src/plugin.rs).  A        *)
(* program makes a plugin, saves it, ends, and when it runs again loads    *)
(* what it saved, or what somebody made of it.  Each of the three loops    *)
(* moves one entry per step from one map to the other.                     *)
(*                                                                         *)
(* A module is abstracted to its bytes, a member of Code, of which this    *)
(* engine can load Native.  The modules are named, not yet linked.  Names  *)
(* are written as String and read as Option<String>: in a self-describing  *)
(* format that gives the name back, and other formats are left out.        *)
(***************************************************************************)
EXTENDS Naturals, Sequences

CONSTANTS
  Names,     \* names of modules
  Main,      \* "main"
  Unnamed,   \* the key None of an Option<String>
  Code,      \* bytes of modules
  Native,    \* those this engine can load
  MaxFile    \* bound on the entries of a map that was edited

ASSUME SavedAssumption ==
  Main \in Names /\ Unnamed \notin Names /\ Native \subseteq Code /\ MaxFile \in Nat

Keys     == Names \cup {Unnamed}
Map(K)   == UNION {[D -> Code] : D \in SUBSET K}
NoMap    == [k \in {} |-> Main]
Phases   == {"idle", "reading", "loading", "making", "running", "saving"}

VARIABLES
  phase,     \* what the program does
  given,     \* the map the plugin is made from
  plugin,    \* its modules
  todo,      \* the keys the loop over given, or over plugin, has left
  at,        \* how many entries of the file the visitor has read
  out,       \* the entries the serializer has written
  file,      \* the entries of the saved map, in order
  saved      \* the modules of the plugin it was saved from, if it is intact

vars == <<phase, given, plugin, todo, at, out, file, saved>>

TypeOK ==
  /\ phase \in Phases
  /\ given \in Map(Keys) /\ plugin \in Map(Names)
  /\ todo \subseteq Keys
  /\ at \in Nat
  /\ out \in Seq(Keys \X Code) /\ file \in Seq(Keys \X Code)
  /\ saved \in {{m} : m \in Map(Names)} \cup {{}}

Init ==
  /\ phase = "idle"
  /\ given = NoMap /\ plugin = NoMap /\ todo = {}
  /\ at = 0 /\ out = <<>> /\ file = <<>> /\ saved = {}

-----------------------------------------------------------------------------
(* BTreeMap::insert, which replaces what the key had.                      *)
Insert(m, k, c) == [x \in DOMAIN m \cup {k} |-> IF x = k THEN c ELSE m[x]]

(* None sorts before every name.  Among the names any order does.          *)
First(k, S) == k \in S /\ (k = Unnamed \/ Unnamed \notin S)

(* A module without a name is "main".                                      *)
NameOf(k) == IF k = Unnamed THEN Main ELSE k

(* Plugin::new: from bytes the engine can load, or from compiled modules.  *)
New ==
  /\ phase = "idle"
  /\ \/ \E c \in Native :
          /\ phase' = "running"
          /\ given' = [k \in {Main} |-> c] /\ plugin' = given' /\ todo' = {}
     \/ \E D \in SUBSET Keys : \E m \in [D -> Native] :
          /\ phase' = "making"
          /\ given' = m /\ todo' = D /\ UNCHANGED plugin
  /\ UNCHANGED <<at, out, file, saved>>

(* Faulty match: leaves a module without its name.                         *)
TakeUnnamed(k) ==
  /\ phase \in {"loading", "making"}
  /\ First(k, todo)
  /\ plugin' = Insert(plugin, k, given[k]) /\ todo' = todo \ {k}
  /\ UNCHANGED <<phase, given, at, out, file, saved>>

(* Faulty match: names come before None.                                   *)
TakeNoneLast(k) ==
  /\ phase \in {"loading", "making"}
  /\ k \in todo /\ (k # Unnamed \/ todo = {Unnamed})
  /\ plugin' = Insert(plugin, NameOf(k), given[k]) /\ todo' = todo \ {k}
  /\ UNCHANGED <<phase, given, at, out, file, saved>>

(* The match on WasmInput: one entry of the map is collected.              *)
Take(k) ==
  /\ phase \in {"loading", "making"}
  /\ First(k, todo)
  /\ plugin' = Insert(plugin, NameOf(k), given[k]) /\ todo' = todo \ {k}
  /\ UNCHANGED <<phase, given, at, out, file, saved>>

Made ==
  /\ phase \in {"loading", "making"} /\ todo = {}
  /\ phase' = "running"
  /\ UNCHANGED <<given, plugin, todo, at, out, file, saved>>

-----------------------------------------------------------------------------
(* Serialize writes every module under its name to a buffer; the program   *)
(* makes the buffer its file when no module failed to serialize.           *)
Save ==
  /\ phase = "running"
  /\ phase' = "saving" /\ todo' = DOMAIN plugin /\ out' = <<>>
  /\ UNCHANGED <<given, plugin, at, file, saved>>

Write(k) ==
  /\ phase = "saving" /\ k \in todo
  /\ out' = Append(out, <<k, plugin[k]>>) /\ todo' = todo \ {k}
  /\ UNCHANGED <<phase, given, plugin, at, file, saved>>

SaveFails ==
  /\ phase = "saving"
  /\ phase' = "running" /\ todo' = {}
  /\ UNCHANGED <<given, plugin, at, out, file, saved>>

Saved ==
  /\ phase = "saving" /\ todo = {}
  /\ phase' = "running" /\ file' = out /\ saved' = {plugin}
  /\ UNCHANGED <<given, plugin, todo, at, out>>

(* The program ends, whatever it does; the file stays.                     *)
End ==
  /\ phase # "idle" /\ phase' = "idle"
  /\ given' = NoMap /\ plugin' = NoMap /\ todo' = {} /\ at' = 0 /\ out' = <<>>
  /\ UNCHANGED <<file, saved>>

(* The saved map gets another entry, perhaps without a name or under a     *)
(* name it has.  What is being loaded was read before.                     *)
Edit(k, c) ==
  /\ phase \notin {"reading", "loading"}
  /\ Len(file) < MaxFile
  /\ file' = Append(file, <<k, c>>) /\ saved' = {}
  /\ UNCHANGED <<phase, given, plugin, todo, at, out>>

-----------------------------------------------------------------------------
(* deserialize                                                             *)
Load ==
  /\ phase = "idle" /\ phase' = "reading"
  /\ UNCHANGED <<given, plugin, todo, at, out, file, saved>>

(* Faulty visit_map: goes on after an entry the engine cannot load.        *)
ReadLeniently ==
  /\ phase = "reading" /\ at < Len(file)
  /\ LET e == file[at + 1]
     IN  given' = IF e[2] \in Native THEN Insert(given, e[1], e[2]) ELSE given
  /\ at' = at + 1
  /\ UNCHANGED <<phase, plugin, todo, out, file, saved>>

(* visit_map takes the next entry, and gives up at the first the engine    *)
(* cannot load; what it has collected is dropped.                          *)
Read ==
  /\ phase = "reading" /\ at < Len(file)
  /\ LET e == file[at + 1]
     IN  \/ /\ e[2] \in Native
            /\ given' = Insert(given, e[1], e[2]) /\ at' = at + 1
            /\ UNCHANGED phase
         \/ /\ e[2] \notin Native
            /\ phase' = "idle" /\ given' = NoMap /\ at' = 0
  /\ UNCHANGED <<plugin, todo, out, file, saved>>

(* The map goes to Plugin::new.                                            *)
Loaded ==
  /\ phase = "reading" /\ at = Len(file)
  /\ phase' = "loading" /\ todo' = DOMAIN given
  /\ UNCHANGED <<given, plugin, at, out, file, saved>>

Next ==
  \/ New \/ Made \/ Save \/ SaveFails \/ Saved \/ End \/ Load \/ Read \/ Loaded
  \/ \E k \in Keys : Take(k) \/ Write(k)
  \/ \E k \in Keys, c \in Code : Edit(k, c)

Spec == Init /\ [][Next]_vars
-----------------------------------------------------------------------------
(* No module gets lost between the map and the plugin, except the one      *)
(* without a name if there is one called "main".                           *)
NamesKept ==
  phase \in {"running", "saving"} =>
    /\ \A k \in DOMAIN given \cap Names : k \in DOMAIN plugin /\ plugin[k] = given[k]
    /\ Unnamed \in DOMAIN given /\ Main \notin DOMAIN given
         => Main \in DOMAIN plugin /\ plugin[Main] = given[Unnamed]
    /\ DOMAIN plugin = {NameOf(k) : k \in DOMAIN given}

(* What was saved is what is loaded, however often: the comment of         *)
(* deserialize, "as generated when serializing a Plugin via serde".  Of    *)
(* several entries of one name in an edited map the last counts, and an    *)
(* entry that cannot be loaded is never left out silently.                 *)
LastIn(s, j) == \A i \in DOMAIN s : s[i][1] = s[j][1] => i <= j

RightlyLoaded ==
  phase = "loading" /\ phase' = "running" =>
    /\ saved # {} => plugin' \in saved
    /\ \A j \in DOMAIN file : file[j][1] \in Names /\ LastIn(file, j)
         => file[j][1] \in DOMAIN plugin' /\ plugin'[file[j][1]] = file[j][2]

SavedIsLoaded == [][RightlyLoaded]_vars
=============================================================================
