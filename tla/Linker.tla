------------------------------- MODULE Linker -------------------------------
(***************************************************************************)
(* Linking the modules of a plugin: the loop in Plugin::new and            *)
(* Plugin::instantiate_module (src/plugin.rs), which instantiates the      *)
(* modules a module imports from before the module itself.                 *)
(*                                                                         *)
(* The recursion is an explicit stack: a frame is one activation of        *)
(* instantiate_module, with the import it is at and the import object it   *)
(* has built.  The names on the stack are its dependency_tree.  An import  *)
(* is a record of what it asks for; compiled modules, instances and the    *)
(* import object are abstracted to names and positions.  With the wasix    *)
(* feature the program may pass an environment of wasmer_wasix, which      *)
(* serves the imports of WASI modules and is bound to their memory.        *)
(***************************************************************************)
EXTENDS Naturals, Sequences, FiniteSets

CONSTANTS
  Namespaces,   \* what an import may name as its module
  HostEnv,      \* the namespace "extism:host/env"
  Env,          \* the namespace "env"
  Items,        \* names of exports
  Types,        \* types of exports
  Functions,    \* the function types
  Memories,     \* the memory types
  Compatible,   \* <<provided, wanted>>: is_compatible_with
  Exports,      \* what an instance of each module exports
  Externals,    \* external_imports: host functions, user's and own
  WasixGiven,   \* whether an environment of WASIX was passed
  WasiNamed,    \* the namespaces whose names start with "wasi_"
  WasiExports,  \* what the environment of WASIX offers
  Plugins       \* the plugins to link: for each module, what it imports

Import  == [from : Namespaces, item : Items, type : Types]
IsTable(t, D) == /\ t = [x \in DOMAIN t |-> t[x]] /\ DOMAIN t \subseteq D
                 /\ \A x \in DOMAIN t : t[x] \in Types

ASSUME LinkerAssumption ==
  /\ {HostEnv, Env} \subseteq Namespaces
  /\ Functions \subseteq Types /\ Memories \subseteq Types
  /\ Functions \cap Memories = {}
  /\ Compatible \subseteq Types \X Types
  /\ DOMAIN Exports = Namespaces
  /\ \A n \in Namespaces : IsTable(Exports[n], Items)
  /\ IsTable(Externals, Namespaces \X Items)
  /\ IsTable(WasiExports, Namespaces \X Items)
  /\ WasixGiven \in BOOLEAN /\ WasiNamed \subseteq Namespaces
  /\ \A p \in Plugins : /\ DOMAIN p \subseteq Namespaces /\ IsFiniteSet(DOMAIN p)
                        /\ \A m \in DOMAIN p : p[m] \in Seq(Import)

VARIABLES
  imports,   \* rigid: the plugin's modules and what they import
  todo,      \* modules the loop of Plugin::new has not reached
  frames,    \* activations of instantiate_module, the running one last
  loaded,    \* the instances made so far
  wasi,      \* the one the environment of WASIX is bound to, if any
  result     \* how linking ended

vars == <<imports, todo, frames, loaded, wasi, result>>

Modules == DOMAIN imports

Failures == {"NonFunctionKernelAccess", "MissingExport", "IncompatibleType",
             "Export", "CyclicDependency", "Memory", "Wasmer", "Wasix"}

(* next: the import being resolved; back: its module was just visited;     *)
(* defined: the imports the import object has an entry for.                *)
Frames == [name : Namespaces, next : Nat \ {0}, back : BOOLEAN,
           defined : SUBSET Nat]

Entry(m) == [name |-> m, next |-> 1, back |-> FALSE, defined |-> {}]

TypeOK ==
  /\ Modules \subseteq Namespaces
  /\ \A m \in Modules : imports[m] \in Seq(Import)
  /\ todo \in SUBSET Modules /\ loaded \in SUBSET Modules
  /\ wasi \in SUBSET loaded
  /\ frames \in Seq(Frames)
  /\ \A j \in 1..Len(frames) :
       /\ frames[j].name \in Modules
       /\ frames[j].next <= Len(imports[frames[j].name]) + 1
  /\ result \in Failures \cup {"running", "ok"}

Init ==
  /\ imports \in Plugins
  /\ todo = DOMAIN imports
  /\ frames = <<>> /\ loaded = {} /\ wasi = {}
  /\ result = "running"

Top     == frames[Len(frames)]
Current == imports[Top.name][Top.next]

(* Faulty dependency_tree: gets the dependency pushed, not the dependent.  *)
OnPathItself(m) == TRUE

(* Faulty dependency_tree: only the direct dependent.                      *)
OnPathDirect(m) == frames # <<>> /\ Top.name = m

(* dependency_tree.contains(m)                                             *)
OnPath(m) == \E j \in 1..Len(frames) : frames[j].name = m

(* instantiate_module is at one of its imports.                            *)
AtImport == result = "running" /\ frames # <<>>
              /\ Top.next <= Len(imports[Top.name])

Fail(why) == result' = why /\ UNCHANGED <<imports, todo, frames, loaded, wasi>>

(* Faulty loop: stays at the import it has just resolved.                  *)
AdvancedNowhere(f, bound) == [f EXCEPT !.back = FALSE, !.defined = @ \cup bound]

Advanced(f, bound) == [name |-> f.name, next |-> f.next + 1, back |-> FALSE,
                       defined |-> f.defined \cup bound]

(* The activation waits for the module its import names.                   *)
Waiting(f) == [name |-> f.name, next |-> f.next, back |-> TRUE,
               defined |-> f.defined]

(* imports.define, and on to the next import.                              *)
Define ==
  /\ frames' = [frames EXCEPT ![Len(frames)] = Advanced(@, {@.next})]
  /\ UNCHANGED <<imports, todo, loaded, wasi, result>>

-----------------------------------------------------------------------------
(* Which branch an import takes.                                           *)
KernelData(i) == i.from = HostEnv /\ i.type \notin Functions
Wasi(i)       == ~KernelData(i) /\ WasixGiven /\ i.from \in WasiNamed
Memory(i)     == ~KernelData(i) /\ ~Wasi(i) /\ i.type \in Memories
External(i)   == ~KernelData(i) /\ ~Wasi(i) /\ i.type \notin Memories
                   /\ <<i.from, i.item>> \in DOMAIN Externals
Dependency(i) == ~KernelData(i) /\ ~Wasi(i) /\ i.type \notin Memories
                   /\ <<i.from, i.item>> \notin DOMAIN Externals

ImportsOf(m) == {imports[m][j] : j \in 1..Len(imports[m])}

(* is_wasi_module: it imports a function from a namespace WASIX knows.     *)
WasiSpaces  == {k[1] : k \in DOMAIN WasiExports}
UsesWasi(m) == WasixGiven /\ \E i \in ImportsOf(m) :
                                i.from \in WasiSpaces /\ i.type \in Functions

(* What import_object has an entry for that fits the import.  It offers    *)
(* functions only.                                                         *)
Has(table, x, type) == x \in DOMAIN table /\ <<table[x], type>> \in Compatible

Offered(i) == /\ WasixGiven /\ i.type \in Functions
              /\ Has(WasiExports, <<i.from, i.item>>, i.type)

(* Plugin::new visits the modules in the order of their names, which is    *)
(* any order.  A module visited as a dependency is not instantiated again. *)
Visit(m) ==
  /\ result = "running" /\ frames = <<>> /\ m \in todo
  /\ todo' = todo \ {m}
  /\ frames' = IF m \in loaded THEN <<>> ELSE <<Entry(m)>>
  /\ UNCHANGED <<imports, loaded, wasi, result>>

Finish ==
  /\ result = "running" /\ frames = <<>> /\ todo = {}
  /\ result' = "ok"
  /\ UNCHANGED <<imports, todo, frames, loaded, wasi>>

RefuseKernelData ==
  /\ AtImport /\ KernelData(Current)
  /\ Fail("NonFunctionKernelAccess")

(* wasix.import_object fails, before the first import is looked at.        *)
ImportObjectFails ==
  /\ result = "running" /\ frames # <<>> /\ Top.next = 1 /\ ~Top.back
  /\ UsesWasi(Top.name) /\ Fail("Wasix")

(* Imports of WASI are passed over: the import object has them, or not.    *)
SkipWasi ==
  /\ AtImport /\ Wasi(Current)
  /\ IF Offered(Current) THEN Define
     ELSE /\ frames' = [frames EXCEPT ![Len(frames)] = Advanced(@, {})]
          /\ UNCHANGED <<imports, todo, loaded, wasi, result>>

LinkMemory ==
  /\ AtImport /\ Memory(Current)
  /\ IF Current.from = Env THEN Define \/ Fail("Memory")
                           ELSE Fail("MissingExport")

(* Faulty lookup of a host function: its type is not compared.             *)
LinkExternalUntyped == AtImport /\ External(Current) /\ Define

LinkExternal ==
  /\ AtImport /\ External(Current)
  /\ IF <<Externals[<<Current.from, Current.item>>], Current.type>> \in Compatible
     THEN Define ELSE Fail("IncompatibleType")

(* Faulty recursion: takes the dependency as loaded when it is visited.    *)
DescendLoading ==
  /\ AtImport /\ Dependency(Current)
  /\ ~Top.back /\ Current.from \in Modules \ loaded
  /\ frames' = Append([frames EXCEPT ![Len(frames)] = Waiting(@)],
                      Entry(Current.from))
  /\ loaded' = loaded \cup {Current.from}
  /\ UNCHANGED <<imports, todo, wasi, result>>

(* Faulty recursion: the dependency is not looked up in all_modules.       *)
DescendUnknown ==
  /\ AtImport /\ Dependency(Current)
  /\ ~Top.back /\ Current.from \notin loaded
  /\ IF OnPath(Current.from) THEN Fail("CyclicDependency")
     ELSE /\ frames' = Append([frames EXCEPT ![Len(frames)] = Waiting(@)],
                              Entry(Current.from))
          /\ UNCHANGED <<imports, todo, loaded, wasi, result>>

(* The module imported from is not loaded: visit it first.                 *)
Descend ==
  /\ AtImport /\ Dependency(Current)
  /\ ~Top.back /\ Current.from \notin loaded
  /\ \/ Current.from \notin Modules /\ Fail("Export")
     \/ /\ Current.from \in Modules
        /\ OnPath(Current.from)
        /\ Fail("CyclicDependency")
     \/ /\ Current.from \in Modules
        /\ ~OnPath(Current.from)
        /\ frames' = Append([frames EXCEPT ![Len(frames)] = Waiting(@)],
                            Entry(Current.from))
        /\ UNCHANGED <<imports, todo, loaded, wasi, result>>

(* loaded.get: an instance that is not there is passed over in silence.    *)
LinkDependency ==
  /\ AtImport /\ Dependency(Current)
  /\ Top.back \/ Current.from \in loaded
  /\ LET e == Exports[Current.from]
         Missing == Current.item \notin DOMAIN e
     IN \/ /\ Current.from \notin loaded
           /\ frames' = [frames EXCEPT ![Len(frames)] = Advanced(@, {})]
           /\ UNCHANGED <<imports, todo, loaded, wasi, result>>
        \/ Current.from \in loaded /\ Missing /\ Fail("MissingExport")
        \/ /\ Current.from \in loaded /\ ~Missing
           /\ IF <<e[Current.item], Current.type>> \in Compatible
              THEN Define ELSE Fail("IncompatibleType")

AtEnd == result = "running" /\ frames # <<>>
           /\ Top.next > Len(imports[Top.name])

(* Faulty instantiate_module: returns without loaded.insert.               *)
InstantiateUnrecorded ==
  /\ AtEnd
  /\ frames' = SubSeq(frames, 1, Len(frames) - 1)
  /\ UNCHANGED <<imports, todo, loaded, wasi, result>>

(* Faulty initialize: only for the first module that uses WASI.            *)
InstantiateBindsOnce ==
  /\ AtEnd
  /\ \/ Fail("Wasmer")
     \/ /\ Top.defined = 1..Len(imports[Top.name])
        /\ loaded' = loaded \cup {Top.name}
        /\ wasi' = IF UsesWasi(Top.name) /\ wasi = {} THEN {Top.name} ELSE wasi
        /\ frames' = SubSeq(frames, 1, Len(frames) - 1)
        /\ UNCHANGED <<imports, todo, result>>

(* Instance::new fails if an import is missing or the start function       *)
(* traps.  Then wasix.initialize, which may fail too for what the instance *)
(* exports, binds the environment to the instance of a module that uses    *)
(* WASI.                                                                   *)
Instantiate ==
  /\ AtEnd
  /\ \/ Fail("Wasmer")
     \/ /\ Top.defined = 1..Len(imports[Top.name])
        /\ UsesWasi(Top.name) /\ Fail("Export")
     \/ /\ Top.defined = 1..Len(imports[Top.name])
        /\ loaded' = loaded \cup {Top.name}
        /\ wasi' = IF UsesWasi(Top.name) THEN {Top.name} ELSE wasi
        /\ frames' = SubSeq(frames, 1, Len(frames) - 1)
        /\ UNCHANGED <<imports, todo, result>>

Ended == result # "running" /\ UNCHANGED vars

Link == \/ \E m \in Modules : Visit(m)
        \/ Finish \/ RefuseKernelData \/ ImportObjectFails \/ SkipWasi
        \/ LinkMemory \/ LinkExternal
        \/ Descend \/ LinkDependency \/ Instantiate

Next == Link \/ Ended

(* Plugin::new runs on one thread and nothing in linking waits.            *)
Spec == Init /\ [][Next]_vars /\ WF_vars(Link)

-----------------------------------------------------------------------------
(* What linking a plugin means, without the branches of instantiate_module *)
(* and the order modules are visited in.  An import is provided if WASIX,  *)
(* the program or a module of the plugin has something that fits it, or by *)
(* a new memory; data of the host environment is nobody's to import.       *)
Provided(i) ==
  /\ ~KernelData(i)
  /\ \/ Offered(i)
     \/ i.from = Env /\ i.type \in Memories
     \/ Has(Externals, <<i.from, i.item>>, i.type)
     \/ i.from \in Modules /\ Has(Exports[i.from], i.item, i.type)

OthersMemory(i) == Memory(i) /\ i.from # Env

Uses(m, n) ==
  \E i \in ImportsOf(m) : (Dependency(i) \/ OthersMemory(i)) /\ i.from = n

Cycle(S) == S # {} /\ \A m \in S : \E n \in S : Uses(m, n)

Linkable ==
  /\ \A m \in Modules : \A i \in ImportsOf(m) : Provided(i)
  /\ \A S \in SUBSET Modules : ~Cycle(S)

(* Imports instantiate_module refuses although something else may provide  *)
(* them: a memory of another module; a function of WASIX in a namespace    *)
(* not named "wasi_"; one the program has with another type.               *)
Unsupported(i) ==
  \/ OthersMemory(i)
  \/ Dependency(i) /\ Offered(i)
  \/ External(i) /\ ~Has(Externals, <<i.from, i.item>>, i.type)

(* A module is instantiated after every module it uses, with each of its   *)
(* imports provided: no instance refers to one that does not exist.        *)
DependenciesFirst ==
  \A m \in loaded :
    /\ \A i \in ImportsOf(m) : Provided(i)
    /\ \A n \in Modules : Uses(m, n) => n \in loaded

(* The branch that passes over a dependency in silence is never taken: an  *)
(* activation has an entry for every import it is past, but for those from *)
(* WASI that WASIX does not offer, which Instance::new will refuse.        *)
Lacking(i) == Wasi(i) /\ ~Offered(i)
NothingSkipped ==
  \A j \in 1..Len(frames) :
    frames[j].defined = {k \in 1..(frames[j].next - 1) :
                           ~Lacking(imports[frames[j].name][k])}

(* The recursion visits no module twice on one path, so it is at most as   *)
(* deep as the plugin has modules, cyclic or not.                          *)
NoRevisit ==
  \A i, j \in 1..Len(frames) : frames[i].name = frames[j].name => i = j

(* A plugin is accepted only if it can be linked, and then all of it is.   *)
(* It is refused at an import only if it cannot be linked, or the import   *)
(* is of one of the three kinds that are not supported.                    *)
RefusedImport ==
  /\ result \in Failures \ {"Memory", "Wasmer", "Wasix"}
  /\ Top.next <= Len(imports[Top.name])

VerdictRight ==
  /\ result = "ok" => Linkable /\ loaded = Modules
  /\ RefusedImport => ~Linkable \/ Unsupported(Current)

(* CyclicDependency is reported only for plugins whose modules do use each *)
(* other in a circle; two modules sharing a dependency are no circle.      *)
CyclicIsReal ==
  result = "CyclicDependency" => \E S \in SUBSET Modules : Cycle(S)

(* One environment of WASIX serves all modules of a plugin but works on    *)
(* the memory of one: that of a WASI module none of the others imports     *)
(* from, so what a plugin is built on does not take it from its user.      *)
WasiOfOutermost ==
  \A m \in loaded : UsesWasi(m) =>
    wasi # {} /\ \A n \in wasi : UsesWasi(n) /\ ~Uses(m, n)

(* Linking ends, for plugins with cycles too.                              *)
Terminates == <>(result # "running")
=============================================================================
