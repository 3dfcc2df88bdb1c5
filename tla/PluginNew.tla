----------------------------- MODULE PluginNew -----------------------------
(***************************************************************************)
(* Constructing plugins: Plugin::new and Plugin::deserialize               *)
(* (src/plugin.rs) by several tasks in one Context, whose store is behind  *)
(* an RwLock that every part of the construction takes and gives back for  *)
(* itself, and beside them calls, which hold the store while they run.     *)
(*                                                                         *)
(* A task does one thing, on a thread of its own.  Its phase is the        *)
(* section of the code it is in or waits to enter.  The store is           *)
(* abstracted to what was put into it, for whom and by which section;      *)
(* Linker and LoadManifest say what linking and loading do in detail, here *)
(* they are up to MaxSections and MaxEntries sections that may fail.       *)
(***************************************************************************)
EXTENDS Integers, Sequences

CONSTANTS
  Tasks,
  Kinds,        \* what tasks may do, a subset of AllKinds
  Namespaces,   \* namespaces of imports
  HostEnv,      \* the namespace "extism:host/env"
  Names,        \* names of exports
  HostNames,    \* what host_env defines itself
  KernelNames,  \* what the runtime exports
  UserExports,  \* the lists of exports a program may pass, as <<namespace, name>>
  MaxEntries,   \* bound on the entries of a manifest
  MaxSections   \* bound on the sections of linking

Keys == Namespaces \X Names

(* The input is bytes, a manifest, a map of modules or a serialized plugin; *)
(* held is a construction whose caller keeps Context::store() meanwhile.    *)
AllKinds == {"data", "manifest", "modules", "serialized", "held", "call"}

ASSUME NewAssumption ==
  /\ Kinds \subseteq AllKinds
  /\ HostEnv \in Namespaces
  /\ HostNames \subseteq Names /\ KernelNames \subseteq Names
  /\ UserExports \subseteq Seq(Keys)
  /\ MaxEntries \in Nat /\ MaxSections \in Nat

VARIABLES
  kind,       \* rigid: what each task does
  user,       \* rigid: the exports it passes
  phase,      \* where it is
  left,       \* the entries, exports or sections it has left
  id,         \* the id of its plugin
  counter,    \* PLUGIN_COUNTER
  guards,     \* the guards of the store that exist: <<task, section>>
  poisoned,   \* the lock is poisoned
  store,      \* what is in the store
  externals   \* external_imports: what each task's modules may import

vars == <<kind, user, phase, left, id, counter, guards, poisoned, store, externals>>

Reads    == {"decode", "load", "compile", "check"}
Writes   == {"call", "hold", "kernel", "env", "export", "wasi", "memory", "instance"}
Sections == Reads \cup Writes
Ended    == {"called", "returned", "unloaded", "unlinked", "cancelled", "panicked"}
Phases   == Sections \cup Ended \cup {"begin", "fetch", "link"}

NoId    == -1
Objects == [of : Nat, made : Writes, nth : Nat]
Table(f, D, R) == f = [x \in DOMAIN f |-> f[x]] /\ DOMAIN f \subseteq D
                    /\ \A x \in DOMAIN f : f[x] \in R

TypeOK ==
  /\ kind \in [Tasks -> Kinds] /\ user \in [Tasks -> UserExports]
  /\ phase \in [Tasks -> Phases] /\ left \in [Tasks -> Nat]
  /\ counter \in Nat /\ id \in [Tasks -> Nat \cup {NoId}]
  /\ guards \subseteq Tasks \X Sections
  /\ poisoned \in BOOLEAN
  /\ store \subseteq Objects
  /\ DOMAIN externals = Tasks
  /\ \A t \in Tasks : Table(externals[t], Keys, Objects)

Init ==
  /\ kind \in [Tasks -> Kinds] /\ user \in [Tasks -> UserExports]
  /\ phase = [t \in Tasks |-> "begin"] /\ left = [t \in Tasks |-> 0]
  /\ counter = 0 /\ id = [t \in Tasks |-> NoId]
  /\ guards = {} /\ poisoned = FALSE
  /\ store = {} /\ externals = [t \in Tasks |-> <<>>]

-----------------------------------------------------------------------------
(* The lock.  A task is inside its section when it has the section's guard. *)
Inside(t, p) == phase[t] = p /\ <<t, p>> \in guards

Free(p) == \A g \in guards : p \in Reads /\ g[2] \in Reads

Goto(t, p)    == phase' = [phase EXCEPT ![t] = p]
Leave(t)      == guards' = guards \ {<<t, phase[t]>>}
Count(t, n)   == left' = [left EXCEPT ![t] = n]
Put(t, p)     == [of |-> id[t], made |-> p, nth |-> left[t]]
OnlyMoves     == UNCHANGED <<kind, user, left, id, counter, poisoned, store, externals>>

(* Faulty lock: goes on with a poisoned store.                             *)
EnterAnyway(t) ==
  /\ phase[t] \in Sections /\ ~Inside(t, phase[t]) /\ Free(phase[t])
  /\ guards' = guards \cup {<<t, phase[t]>>} /\ UNCHANGED phase
  /\ OnlyMoves

(* store.read().unwrap() and store.write().unwrap()                        *)
Enter(t) ==
  /\ phase[t] \in Sections /\ ~Inside(t, phase[t]) /\ Free(phase[t])
  /\ IF poisoned THEN Goto(t, "panicked") /\ UNCHANGED guards
     ELSE guards' = guards \cup {<<t, phase[t]>>} /\ UNCHANGED phase
  /\ OnlyMoves

(* A section ends with an error, which drops its guard ...                 *)
Fails(t, p) == Goto(t, p) /\ Leave(t) /\ OnlyMoves

(* ... or with a panic, which poisons the lock if the guard is for writing. *)
Panics(t) ==
  /\ Goto(t, "panicked") /\ Leave(t) /\ poisoned' = TRUE
  /\ UNCHANGED <<kind, user, left, id, counter, store, externals>>

(* A section puts its object into the store, and the task goes on to p.    *)
Makes(t, p) ==
  /\ store' = store \cup {Put(t, phase[t])}
  /\ Goto(t, p) /\ Leave(t)
  /\ UNCHANGED <<kind, user, id, counter, poisoned>>

(* Faulty new_plugin_id: the counter is read and written back unchanged.   *)
TakeStaleId(t) ==
  /\ id' = [id EXCEPT ![t] = counter] /\ counter' = counter
  /\ Goto(t, "kernel")
  /\ UNCHANGED <<kind, user, left, poisoned, store, externals>>

(* new_plugin_id, then Kernel::new                                         *)
TakeId(t) ==
  /\ id' = [id EXCEPT ![t] = counter] /\ counter' = counter + 1
  /\ Goto(t, "kernel")
  /\ UNCHANGED <<kind, user, left, poisoned, store, externals>>

-----------------------------------------------------------------------------
Begin(t) ==
  /\ phase[t] = "begin"
  /\ \/ kind[t] = "call" /\ Goto(t, "call") /\ UNCHANGED guards /\ OnlyMoves
     \/ kind[t] = "held" /\ Goto(t, "hold") /\ UNCHANGED guards /\ OnlyMoves
     \/ kind[t] = "serialized" /\ Goto(t, "decode") /\ UNCHANGED guards /\ OnlyMoves
     \/ kind[t] \in {"data", "manifest", "modules"} /\ TakeId(t) /\ UNCHANGED guards

(* A call returns, with a result or an error, or the guest returned an     *)
(* error of its own: todo!().                                              *)
Call(t) == Inside(t, "call") /\ (Fails(t, "called") \/ Panics(t))

(* The caller keeps the guard and calls Plugin::new.                       *)
Hold(t) == Inside(t, "hold") /\ TakeId(t) /\ UNCHANGED guards

(* Faulty deserialize: the guard of the visitor lives until Plugin::new    *)
(* is done.                                                                *)
DecodeKeepsGuard(t) ==
  /\ Inside(t, "decode")
  /\ \/ TakeId(t) /\ UNCHANGED guards
     \/ Fails(t, "unloaded")

(* deserialize_map holds the store for reading until the map is complete.  *)
Decode(t) ==
  /\ Inside(t, "decode")
  /\ \/ TakeId(t) /\ Leave(t)
     \/ Fails(t, "unloaded")

(* Faulty order: host_env is called before the input is loaded.            *)
MakeKernelEarly(t) ==
  /\ Inside(t, "kernel")
  /\ store' = store \cup {Put(t, "kernel"), Put(t, "env")}
  /\ Goto(t, "load") /\ Leave(t)
  /\ UNCHANGED <<kind, user, left, id, counter, poisoned, externals>>

(* Kernel::new; unwraps the failures of wasmer.                            *)
MakeKernel(t) ==
  /\ Inside(t, "kernel")
  /\ \/ kind[t] = "data" /\ Makes(t, "load") /\ UNCHANGED <<left, externals>>
     \/ kind[t] = "manifest" /\ Makes(t, "fetch") /\ UNCHANGED externals
          /\ \E n \in 0..MaxEntries : Count(t, n)
     \/ kind[t] \in {"modules", "serialized", "held"}
          /\ Makes(t, "env") /\ UNCHANGED <<left, externals>>
     \/ Panics(t)

Load(t) == Inside(t, "load") /\ (Fails(t, "env") \/ Fails(t, "unloaded"))

(* Faulty loop over the manifest: goes on past the last entry.             *)
FetchPast(t) ==
  /\ phase[t] = "fetch"
  /\ \/ left[t] = 0 /\ Goto(t, "env")
     \/ Goto(t, "compile") \/ Goto(t, "unloaded")
  /\ UNCHANGED guards /\ OnlyMoves

(* Waiting for an entry of the manifest, without a guard.                  *)
Fetch(t) ==
  /\ phase[t] = "fetch"
  /\ \/ left[t] = 0 /\ Goto(t, "env")
     \/ left[t] > 0 /\ (Goto(t, "compile") \/ Goto(t, "unloaded"))
  /\ UNCHANGED guards /\ OnlyMoves

(* The program drops the future of Plugin::new while it waits.             *)
Cancel(t) ==
  /\ phase[t] = "fetch" /\ left[t] > 0
  /\ Goto(t, "cancelled") /\ UNCHANGED guards /\ OnlyMoves

(* Faulty load_manifest: the guard lives across the next await.            *)
CompileKeepsGuard(t) ==
  /\ Inside(t, "compile")
  /\ \/ /\ Goto(t, "fetch") /\ Count(t, left[t] - 1)
        /\ UNCHANGED <<kind, user, id, counter, guards, poisoned, store, externals>>
     \/ Fails(t, "unloaded")

Compile(t) ==
  /\ Inside(t, "compile")
  /\ \/ /\ Goto(t, "fetch") /\ Leave(t) /\ Count(t, left[t] - 1)
        /\ UNCHANGED <<kind, user, id, counter, poisoned, store, externals>>
     \/ Fails(t, "unloaded")

-----------------------------------------------------------------------------
(* external_imports: the user's exports in their order, then what host_env *)
(* returned; an entry replaces an earlier one of its key.                  *)
Insert(f, k, x) == [y \in DOMAIN f \cup {k} |-> IF y = k THEN x ELSE f[y]]

EnvKeys == {HostEnv} \X (HostNames \cup KernelNames)

EnvObject(t, k) == [of |-> id[t], nth |-> 0,
                    made |-> IF k[2] \in KernelNames THEN "kernel" ELSE "env"]

(* Faulty chain: the user's exports come after those of host_env.          *)
ChainReversed(t, f) ==
  [k \in DOMAIN f \cup EnvKeys |-> IF k \in DOMAIN f THEN f[k] ELSE EnvObject(t, k)]

Chain(t, f) ==
  [k \in DOMAIN f \cup EnvKeys |-> IF k \in EnvKeys THEN EnvObject(t, k) ELSE f[k]]

(* Linking starts, with some number of sections ahead.                     *)
StartLinking(t, f) ==
  /\ externals' = [externals EXCEPT ![t] = Chain(t, f)]
  /\ \E n \in 0..MaxSections : Count(t, n)

(* host_env, which chain evaluates before the first user export is built   *)
MakeEnv(t) ==
  /\ Inside(t, "env")
  /\ \/ /\ user[t] = <<>>
        /\ Makes(t, "link") /\ StartLinking(t, <<>>)
     \/ /\ user[t] # <<>>
        /\ Makes(t, "export") /\ Count(t, 1) /\ UNCHANGED externals

(* to_extern for the next user export                                      *)
MakeExport(t) ==
  /\ Inside(t, "export")
  /\ LET f == Insert(externals[t], user[t][left[t]], Put(t, "export")) IN
     \/ /\ left[t] = Len(user[t])
        /\ Makes(t, "link") /\ StartLinking(t, f)
     \/ /\ left[t] < Len(user[t])
        /\ Makes(t, "export") /\ Count(t, left[t] + 1)
        /\ externals' = [externals EXCEPT ![t] = f]

(* Between two sections of linking: the next one, an error that needs no   *)
(* lock, or the end.                                                       *)
LinkOn(t) ==
  /\ phase[t] = "link"
  /\ \/ left[t] = 0 /\ Goto(t, "returned")
     \/ left[t] > 0 /\ \E p \in {"check", "memory", "wasi", "instance", "unlinked"} :
                         Goto(t, p)
  /\ UNCHANGED guards /\ OnlyMoves

(* The type of an external or of another module's export is compared.      *)
Check(t) ==
  /\ Inside(t, "check")
  /\ \/ /\ Goto(t, "link") /\ Leave(t) /\ Count(t, left[t] - 1)
        /\ UNCHANGED <<kind, user, id, counter, poisoned, store, externals>>
     \/ Fails(t, "unlinked")

(* Memory::new for an import of env, or the import object of WASIX         *)
MakeImport(t) ==
  /\ Inside(t, "memory") \/ Inside(t, "wasi")
  /\ \/ Makes(t, "link") /\ Count(t, left[t] - 1) /\ UNCHANGED externals
     \/ Fails(t, "unlinked")

(* Instance::new runs the module's start function, which may panic in a    *)
(* host function.                                                          *)
MakeInstance(t) ==
  /\ Inside(t, "instance")
  /\ \/ Makes(t, "link") /\ Count(t, left[t] - 1) /\ UNCHANGED externals
     \/ Fails(t, "unlinked")
     \/ Panics(t)

-----------------------------------------------------------------------------
Step(t) == \/ Begin(t) \/ Enter(t) \/ Call(t) \/ Hold(t) \/ Decode(t)
           \/ MakeKernel(t) \/ Load(t) \/ Fetch(t) \/ Compile(t)
           \/ MakeEnv(t) \/ MakeExport(t)
           \/ LinkOn(t) \/ Check(t) \/ MakeImport(t) \/ MakeInstance(t)

Finished == (\A t \in Tasks : phase[t] \in Ended) /\ UNCHANGED vars

Next == (\E t \in Tasks : Step(t) \/ Cancel(t)) \/ Finished

(* Threads run, calls return, and what a manifest names answers.  A task   *)
(* can be overtaken at the lock only by the other tasks' few sections.     *)
Fairness == \A t \in Tasks : WF_vars(Step(t))

Spec     == Init /\ [][Next]_vars
FairSpec == Spec /\ Fairness
-----------------------------------------------------------------------------
(* No guard outlives its section: a task that waits, for the lock or for   *)
(* an entry of its manifest, holds nothing another task could wait for.    *)
(* The caller that keeps Context::store() is the exception.                *)
NothingHeldOver ==
  \A g \in guards : kind[g[1]] # "held" => phase[g[1]] = g[2]

(* Ids are never shared, and what is in the store was made for one plugin. *)
Attempted(t) == id[t] # NoId
Identities ==
  /\ \A s, t \in Tasks : Attempted(t) /\ id[s] = id[t] => s = t
  /\ \A o \in store : \E t \in Tasks : id[t] = o.of

(* What an attempt that ended leaves in the store.  One that failed or was *)
(* cancelled while loading leaves its kernel and nothing of the program's; *)
(* one that went as far as linking leaves all that was built before it.    *)
Of(t) == {o \in store : Attempted(t) /\ o.of = id[t]}
Left(t, p) == {o.nth : o \in {x \in Of(t) : x.made = p}}
Leftovers ==
  \A t \in Tasks :
    /\ phase[t] \in {"unloaded", "cancelled"} => \A o \in Of(t) : o.made = "kernel"
    /\ phase[t] \in {"unlinked", "returned"} =>
         /\ Left(t, "kernel") = {0} /\ Left(t, "env") = {0}
         /\ Left(t, "export") = 1..Len(user[t])

(* What a plugin's modules may import: the functions of the host           *)
(* environment and the runtime under their own names, whatever the program *)
(* passes, its exports under all others, the last of equal names; each     *)
(* made for this plugin and in the store.                                  *)
LastOf(s, k) == CHOOSE j \in 1..Len(s) :
                  s[j] = k /\ \A i \in 1..Len(s) : s[i] = k => i <= j
UserKeys(t) == {user[t][j] : j \in 1..Len(user[t])}
Linking(t)  == phase[t] \in {"link", "check", "memory", "wasi", "instance",
                            "unlinked", "returned"}
ExternalsResolve ==
  \A t \in Tasks : Linking(t) =>
    /\ DOMAIN externals[t] = EnvKeys \cup UserKeys(t)
    /\ \A k \in EnvKeys : externals[t][k] = EnvObject(t, k)
    /\ \A k \in UserKeys(t) \ EnvKeys :
         /\ externals[t][k].made = "export"
         /\ externals[t][k].nth = LastOf(user[t], k)
    /\ \A k \in DOMAIN externals[t] : externals[t][k] \in Of(t)

(* A panic while the store is held for writing, in a call or in another    *)
(* construction, ends the context: nothing gets into its store afterwards. *)
PoisonIsFinal == [][poisoned => poisoned' /\ store' = store]_vars

(* Every construction and every call ends, unless a caller that keeps the  *)
(* store waits for a construction that waits for the store.                *)
BlockedOnItself(t) ==
  <<t, "hold">> \in guards /\ phase[t] = "kernel" /\ <<t, "kernel">> \notin guards

EveryoneEnds ==
  \A t \in Tasks :
    <>(phase[t] \in Ended \/ \E h \in Tasks : BlockedOnItself(h))
=============================================================================
