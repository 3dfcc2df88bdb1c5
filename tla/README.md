# A TLA+ model of WebXtism

WebXtism loads WebAssembly plugins written for extism and runs them with
wasmer. This directory models it in TLA+: how plugins are loaded, constructed,
linked and saved, the kernel memory a plugin shares with the host, the functions
the host offers to it, the calls into it and back, and the per-thread
registries of wasm32. TLC checks the models
on small instances; TLAPS proves the most important properties for every value
of the constants. Paths below are relative to the repository, so the crate is
`src/`.

## The system

| Component | State | Operations | Where |
|---|---|---|---|
| Context | the wasmer store behind an `RwLock`, the compiled runtime module | `Context::store`, used by everything else | `src/context.rs` |
| Kernel | one instance of the extism runtime per plugin: a block allocator and the input and output registers | `memory_new`, `memory_handle`, `memory_bytes`, `memory_free`, `set_input`, `get_output`, ... | `src/plugin/kernel.rs` |
| Host environment | the plugin's config and variables | `log_*`, `config_get`, `var_get`, `var_set`, and `todo!()` stubs for HTTP | `src/plugin/kernel.rs`, `Plugin::host_env` |
| Plugin variables | a table from text to bytes | `get_var`, `set_var` | `src/plugin/vars.rs` |
| Exported host functions | the program's closures, a weak reference to the plugin | four shapes: in and out, in, out, neither | `src/function.rs` |
| Call API | none of its own | `call_in_out`, `call_in`, `call_out`, `call` | `src/plugin.rs` |
| Linker | modules, instances made so far, dependency tree | the loop in `Plugin::new`, `instantiate_module` | `src/plugin.rs` |
| Plugin construction | the sequence of store locks in `Plugin::new` | `new`, `deserialize` | `src/plugin.rs` |
| Manifest loading | modules being fetched concurrently | `load_manifest` | `src/plugin.rs` |
| Serialization | none of its own | `Serialize`, `deserialize`, `PluginModuleVisitor` | `src/plugin.rs` |
| Wasm input | none | `WasmInput` and its conversions | `src/wasm_input.rs` |
| WASIX support | an environment of `wasmer_wasix`, passed by the program | `import_object`, `initialize`, `is_wasi_module` in the linker | `src/plugin.rs` |
| Per-thread instances (wasm32) | thread-local maps from plugin to instances | `with_instances`, `with_runtime`, `Drop` | `src/plugin.rs`, `src/plugin/kernel.rs` |

How they interact. `Plugin::new` takes an id, makes a kernel, loads the modules,
puts the host environment and the program's exports into the store and links
the modules; for each of these sections it takes the store's lock anew, so
several constructions in one context interleave, and calls, which hold the
lock while they run, come in between. On wasm32 it then enters the instances
into a map of its thread.

A call writes its argument into kernel memory, points the
input register at it, and runs the guest. The guest calls the runtime's own
exports (which `host_env` hands to it) to allocate, free, and set its output;
it calls the host environment with handles, whose ownership passes to the host
or to the guest; and it calls host functions of the program, which may call
back into the plugin. When the guest returns, the call reads and frees what the
output register names.

What is hard here:

- *ownership of blocks*: every handle passed or returned changes hands, the
  errors of `memory_free` are ignored, and every early return is a chance to
  leak or to free twice;
- *nesting*: calls and host functions form a stack that shares one memory, one
  input register and one output register;
- *stale registers*: nothing resets them between calls;
- *failure*: traps, allocation failures, undecodable bytes, panics that poison
  the store's lock, constructions that fail or are cancelled half way;
- *sharing*: constructions and calls of several threads on one lock, downloads
  that complete in any order, drops on another thread than the maker's;
- *linking*: a depth-first recursion with shared mutable state over plugins
  that may be cyclic, incomplete or inconsistent.

What makes each part correct: the host environment frees what it takes and
nothing else, and answers as a table of variables would; a call's argument and
output survive until it ends, and it returns its own guest's output; the linker
instantiates every module once and after everything it uses, accepts only plugins
that can be linked and refuses the others; a construction holds the lock in none of
its pauses and builds on objects made for it alone; what a manifest means
does not depend on which download is first; a saved plugin is the one that is
loaded; and on wasm32 guests run where their instances are.

## The modules

`Kernel.tla` is a library of operators without state: the functions of `Kernel`
over a set of live blocks and a memory. A handle is a block or `Null`, the
offset 0. Lengths are abstracted to "empty or not" and bytes to members of a
small set, of which `Text` are UTF-8; this is all the code branches on. The
runtime is external: `Trapping` says which of its exports may trap (under
metering, for instance). A trap in `length` reads as "not found", one in `free`
leaves the block live, one in `alloc` is the same as running out of memory.
The bytes of a freed block stay until the block is handed out again.

`HostFunctions.tla` is the host environment of one plugin. The store is
borrowed exclusively while a guest runs, so a handler is one atomic action;
the other actor is the guest, an arbitrary program that calls the handlers and
the runtime's exports. `Disciplined` chooses between a guest that uses only
handles it owns and one that uses any. `owned` is a history variable: the
blocks the guest has to free or to hand over. The functions that share a body
share an operator: `Log` for the five log functions, `Lookup` for `config_get`
and `var_get`.

`VarStore.tla` is the abstract specification of the variables as the comments
of `var_get` and `var_set` describe them: a step serves one request, for the key and
with the value that are part of it, and may fail only if the request is not `sure`.
`VarRequests.tla` adds to `HostFunctions` two history variables: the request, which is
what the guest's handles name before the handler runs (`AskedGet`, `AskedSet`), and the reply a
guest reads. It maps them to `VarStore`. A request is sure unless an export
it needs may trap, the memory may be full, or key and value are one block. An
empty value is invisible to the guest, because its handle is the null handle that
also means "not found".

`PluginCall.tla` adds the stack of activations over `HostFunctions`: calls made
by the program, host functions called by a guest, calls made by those. Starting
a call, a host function entering and leaving, setting the output and ending a
call are actions; guest and handler steps come from `HostFunctions`. `Refuse`
covers every error before the guest runs; `Panic` is the `todo!()` on a guest
error and in the HTTP functions, or a panic of a host function of the program.
`ReturnOutput` reads and frees whatever the output register names, as the code
does. `Spec` has any guest; `LastSpec` those that set their output
last, after any host function of the program they call, as the PDK's do, and `OnceNext` those
that set it at some time in the call. `CallResults.tla` is the abstract specification of
calls: no memory, no registers, each call has an output of its own.
`CallRefinement.tla` maps `PluginCall` to it: of an activation one sees its kind and
what its guest has said so far. `HostAnswers.tla` adds the history of `var_get`
answers for one finding.

`Linker.tla` turns the recursion of `instantiate_module` into a stack of
frames; the names on it are the `dependency_tree`. One action is one turn of
the loop over the imports, or the start or end of an activation. Names are
compared only, so the alphabetical order of the module map is any order, and
`Visit` picks any module not yet visited. The branch that silently passes over
an import (`if let Some(..) = loaded.get(..)`) is kept, and shown to be dead.
With `WasixGiven` imports from namespaces that start with `wasi_` are passed over
and provided by what WASIX offers (`WasiExports`), and `wasi` is the module the
one environment was bound to last. What `wasmer_wasix` does itself is external.
What can be linked (`Linkable`) is stated without the branches of the code: an import is
`Provided` if WASIX, the program or a module of the plugin has something under its
name that fits its type. Three kinds of import the code refuses all the same are
listed by name in `Unsupported`: a memory another module exports, a function of
WASIX in a namespace not spelled `wasi_`, and a name the program's own function hides.

`PluginNew.tla` is `Plugin::new` and `deserialize` as the sections they take the
store's lock for. A task's phase is the section it is in or waits for; a guard
is a pair of task and section, so that one that outlives its section shows.
`Enter` is the lock, with readers, writers and poisoning; each section then
ends by going on, by an error or by a panic. The store is the set of objects put
into it, with the plugin and the section they were made for. `Chain` is the table of
externals: `.chain(host_env)` is evaluated before the program's exports are built,
and its entries override theirs. Other kinds of task call a plugin, or keep
`Context::store()` while they construct one.

`LoadManifest.tla` is `load_manifest`: all entries in one task, each going from await
to await, polled in the way of `try_join_all` (together up to `SmallJoin` entries,
in order beyond, 30 in fact). What is wrong with an entry, and whether it ever
answers (`silent`), belongs to the entry; a file on wasm32 is an entry refused at once.

`SavedPlugin.tla` has the modules of a plugin by name, from `WasmInput` through
`Plugin::new` and `Serialize` to a file that outlives the program, may be edited and
is loaded with `deserialize`. The three loops (the match on `WasmInput`, `serialize`,
`visit_map`) move one entry per step; `None` sorts before every name, so a
module without a name is taken first. The serializer writes to a buffer (`out`) that
becomes the file only when it has not failed; `saved` is a history variable, what the file
was made from until somebody edits it.

`ThreadRegistry.tla` has the two thread-local maps of wasm32: `kernelMap`
(`kernel.rs`) and `pluginMap` (`plugin.rs`), which a running call borrows. A change of
a borrowed map panics, and a thread that panicked is dead. A kernel has two owners,
its plugin and the store (`shared`), and is dropped with the last.

`HandleArithmetic.tla` has the same handles as `Kernel`, as words of `Bits` bits with
their casts between `i64` and `u64` and the addition in `memory_bytes`, which wraps
around or panics as the build says (`checked`). The allocator is the runtime's and
external.

`MC*.tla` give the constants values; `MCValues.tla` is shared. The definitions
commented as faulty are what a plausible bug would turn an operation into; they
are not part of any specification and show that each property notices one.

## What is checked

| Run | Question | Bounds |
|---|---|---|
| `host_any_guest` | does any sequence of requests make the host free a block of the guest? do `var_get` and `var_set` implement the documented table? | 3 blocks, 2 texts and junk, any handles, `free` may trap |
| `calls` | how can a call harm the guest or another call, if guests set outputs or not? what is lost? what does the input register name? | any guest that uses its own handles (`Spec`); stack of 2: a call and a host function, 3 blocks, all handlers |
| `nested_calls` | do calls nested in a host function harm the outer call, if guests set their output last? do calls implement `CallResults`? | `LastSpec`; stack of 3: call, host function, call; 3 blocks; `alloc`, `free`, `input_set` and `output_offset` may trap; `config_get` stands for the handlers |
| `link` | which plugins are accepted and which refused, in which order are modules instantiated, and does linking end? | 3 modules, up to 2 imports each, 16 kinds of import in one of them, WASI in another |
| `new_plugins` | what do constructions do to each other, to the lock and to the store, and does everyone end? | 2 tasks of any of 6 kinds, with or without exports, 1 entry, 1 section of linking |
| `load_all` | does the map of modules depend on the order of completion? does loading end? | 12 kinds of entry, up to 3 entries, `SmallJoin` 2 |
| `saved` | is what was saved what is loaded, and which modules has it? | 2 names, 3 modules, one of them not loadable; edits up to 3 entries |
| `registry` | do guests run at home, and what stays in the maps? | 2 threads, 3 plugins, 2 contexts, calls nested 2 deep |
| `handles` | what does `memory_bytes` read for any words a guest sets? | words of 3 bits, 4 bytes of memory, with and without overflow checks |
| `unreadable_key`, `removed_key`, `stale_output` | findings, see below | as small as shows them |

Why the bounds are enough. Three blocks allow a key, a value and an answer at
once, or an input, an output and a block of the guest, with reuse in between;
more blocks only add bystanders. One non-empty text that is at once key, value
and log line lets any of them be mistaken for another; `junk` exercises every
decoding error. A stack of three is the smallest with two calls, and calls deeper
down are to the inner ones what the outer one is here; the proofs cover any
depth. Handlers other than `config_get` change blocks in the same way
(`HostFunctionsProofs` has one lemma for all of them), which is why the largest
run leaves them out. Three modules make cycles of every length up to three, a
shared dependency and a chain; imports of every kind occur in any position
relative to them. The run passes an environment of WASIX; without one,
imports from its namespaces are imports from unknown modules, which the run has
too. Two tasks suffice for every conflict of the lock, which knows readers, one
writer and the rest; the exports passed hide a host function, repeat a name
and use one in two namespaces. Sections of linking are alike as far as the lock
goes, so one stands for any number; the proofs cover the rest. With `SmallJoin` 2,
manifests of two entries are polled together and those of three in order.
In the runs of `SavedPlugin` the file's format is self-describing: names are written
as `String` and read as `Option<String>`, which is the identity in such formats only. Two
threads and contexts tell home from elsewhere, and a third plugin can be made in a
host function of the second. With three
bits and four bytes of memory there are words in and beyond the memory, words that are
negative as `i64`, and sums that wrap around. Blocks, plugins, threads and contexts are
interchangeable and symmetry sets in the runs that state safety of them only.

Deadlock is not checked where the system ends: a manifest is loaded, all tasks
have ended (or wait for a caller that waits for itself, which `EveryoneEnds`
names), all plugins and contexts were dropped.

Fairness. Linking runs on one thread without waiting for anything, so a step that
is possible is taken, `WF_vars(Link)`. In `LoadManifest` the executor polls a
task that was woken, and every entry that is not silent wakes it: weak fairness of the
steps together; an entry that never answers is excepted, because the code has no
timeout. In `PluginNew` each task's step is fair: threads run, calls return, what a manifest
names answers, and each of the other tasks overtakes at the lock only finitely often. Dropping
a future is nobody's duty. Nothing obliges a guest to return or a program to
call or to drop, so the other specifications state no fairness.

## What is proved

All proofs hold for every value of the constants that satisfies the named
assumptions (`KernelAssumption`, `HostAssumption`, `CallAssumption`,
`LinkerAssumption`, `NewAssumption`, `ManifestAssumption`, `RegistryAssumption`,
`HandleAssumption`, `SavedAssumption`): any number of blocks, any byte strings and texts, any config, any
imports, any set of trapping exports, any bound on the stack, any plugin, any number of
tasks, entries, threads and contexts, any width of words.

`HostFunctionsProofs.tla`. Every handler is shown to be of one form, `Handled`:
it takes some arguments, frees nothing else, and answers with the null handle or
a block that was free. From this follow `HostTypeCorrect` and
`GuestBlocksAreKept`, with `HostTypeOK /\ GuestBlocksKept` as the inductive
invariant. `OnlyUnreadableBlocksAreLost` adds that what stays behind of the
arguments is not text. `GuestStepUntouched` says that a disciplined guest leaves
alone every live block it does not own: this is what the next modules need.
`RequestsImplementVarStore` is the refinement of the table of variables, for guests that
pass any words: a `VarGet` is `Get` of the key when it could be read and `Fail` otherwise
(`GetRefines`), a `VarSet` is `Set` or `Fail` (`SetRefines`), with the key and value the
guest's handles named, every other step leaves the table alone. `Fail` has to be
justified: a request that is sure is shown to succeed. It rests on
`VisibleUnchanged` and on the type invariant alone;
`RequestsKeepGuestBlocks` carries `GuestBlocksKept` over.

`PluginCallProofs.tla` begins with `TypeCorrect`, one lemma per action, and
`InputRegisterNamesArgument` for stacks without nested calls.
The blocks of running calls are safe: `InputsIntact`,
`OutputsIntact` and `CallsKeepGuestBlocks` are not inductive: from a state
where two calls share a block, ending one would free the other's. The
inductive invariant is `Ownership`, that a live block has at most one owner: the
guest, one call's input or one call's output. Each action but
one is of one of four kinds:
it touches only the guest's blocks, pushes an activation that holds a
fresh block or none, pops one and frees at most its output, or moves a block from
the guest to the top activation (`OtherStepsOwn`). The one is `ReturnOutput`, which
frees what the output register names. `HarmIsExplained` holds for any guest of
`Spec`: if a step destroys `Ownership`, it is such a return and the register
does not name what this call's guest set last (`HarmIsStaleOutput`); for that the register has to be
the running call's own while `final` says so (`OutputRegister`), however many calls were
nested before. That guests set their output last is an assumption about them, which
`LastSpec` states and the code cannot enforce; the run `stale_output` shows
what happens to others. Under it the register is the call's own when the call ends, so
`OwnershipHolds`, and `OwnOutputIsReturned` follows. `InputDoesNotDangle` says that the input
register never names a block that is the guest's or free, although nothing resets
it: the host never frees an input it has set. `CallsImplementResults` is the refinement,
`Disciplined /\ LastSpec => ImplementsCallResults`:
each action maps to one step of `CallResults` or to none, and that a call's result is
its own guest's is `OutputRegister` and `Ownership` again. `Disciplined` means that guests
use their own handles only. `LossesAreExplained` is about `Spec` and has `Ownership` as the premise of a step, since a block with
one owner is lost only when that owner gives it up, and that host functions hold
no blocks (`HostFramesInvariant`); then each action is shown to give up only what
`LossCause` lists (`CallLoss`, `GuestLoss`, `OutputSetLoss`, `HostEnterLoss`,
`HostExitLoss`, `ReturnLoss`).

`LinkerProofs.tla`: every safety property of `Linker`, for any plugin. `VerdictIsRight`
says that `Plugin::new` accepts only plugins that can be linked, and refuses one at an
import only if it cannot, or the import is of an unsupported kind. Failures of wasmer
and WASIX, and what an instance exports to WASIX, are no verdict on the imports. The inductive invariant `LinkInv` describes the stack
(`FramesOK`): names do not repeat, an activation has resolved every import it is past
and is not loaded itself, and one that waits does so for the module above it. It
describes the instances (`LoadedOK`): what a loaded module uses is loaded, and no set
of loaded modules is a circle, which is how acceptance implies that there is no
cycle (`NoCycleAdded`). And every module is still to be visited, on the stack or loaded
(`Covered`). `DependenciesFirst` alone is not inductive, because it says nothing of
the imports a running activation has already resolved; nor is `NothingSkipped`,
which needs that the recursion leaves the dependency loaded. A reported cycle is real
because the part of the stack from the module met again to the top is one
(`PathIsCycle`). With WASIX an activation may be past an import it has no entry for
(`Lacking`), and then it is never loaded; that the environment is bound to a
module no other WASI module uses (`WasiIsOfOutermost`) follows from the order of
instantiation.

`PluginNewProofs.tla`: every safety property of `PluginNew`. The inductive invariant
`NewInv` has the lock (`LockInv`: a writer is alone), `NothingHeldOver`, the ids (`IdInv`)
and per task what its phase says about what it has, what is in the store for it and what
its table of externals holds (`TaskInv`). `Leftovers` is not inductive: that all
exports are in the store at the end needs how many were before.

`LoadManifestProofs.tla`: `LoadInv` says what cannot be wrong with an entry that came
so far (`EntryInv`), and that what has been collected is the last of each name so far
(`CollectedInv`).

`ThreadRegistryProofs.tla`: what is in a map was made on its thread (`Placed`), what is
alive is in the maps of its thread (`Alive`), and who owns a kernel (`Owners`), from which follow that guests run at home and what strays.

`HandleArithmeticProofs.tla`: casts undo each other, so
`MemoryBytes` reads a block exactly and never outside the range the guest named and the
memory. That blocks lie apart, which the first needs, is what the external allocator does (`BlocksApart`).

`SavedPluginProofs.tla`: each of the three loops has its invariant, by which no induction
over maps is needed. What is still to be taken is a part of the map, and if it
has `None` nothing was taken (`Naming`), so that "main" wins over the module without a
name; what the visitor has read is collected with the last entry of every key
(`Reading`); what is written are the modules written so far (`Writing`), and
a file nobody edited lists exactly what it was made from (`Intact`). `SavedIsLoaded` follows
when the third loop ends: each key of such a file has one value only, so reading and
naming give back the same map, in whichever order it was written.

Only model-checked is what is liveness and so out of reach of the prover:
`Terminates`, `EveryoneEnds`, `Ends` and `FailureNotDelayed`. What they rest on apart
from fairness is proved, though. Every step brings the system nearer to its
end: in `LinkerProofs` it takes something from two finite sets (`LinkingGetsOn`, where `Ahead`
has of each module its entry, its imports and its instance), in `LoadManifestProofs`
it brings an entry to a later stage or collects one (`LoadingGetsOn`), and in
`PluginNewProofs` it brings one task forward in a lexicographic order and no other back
(`TasksAdvance`). And while the end is due there is a step to take:
`LoadingIsNeverStuck`, for which the first entry not yet done is the one to look at, and
`NobodyWaitsForEver`, which needs that the only guard to outlive its section is a
caller's own (`KeptInv`) and that a writer is alone. In `Linker` the guards of
the actions cover all cases, and TLC checks for deadlock. These theorems name the guards in place
of `ENABLED`, about which the prover knows nothing.

## Findings

Each has a run that shows it:

- `unreadable_key`: `config_get` leaks its key when it is not UTF-8, though the comment
  says the function takes ownership of it. `var_get`, `var_set` and `log` do the
  same; `var_set` leaks the key also when the value's handle is not found, and in the
  mirror case frees the value.
- `removed_key`: `var_set` with value offset 0 stores an empty value; the comment
  says it removes the key. Only the host can tell the difference.
- `stale_output`: a guest sets its output and then calls a host function, which calls
  the plugin again; the nested call ends with its output read and freed, but the one
  register still names it, and the outer call decodes and frees that block, by then an
  answer of `var_get` the guest still uses. The run has guests that set an output in each call, so the
  order alone is to blame; a guest that sets none does the same without nesting, which
  is what `HarmIsStaleOutput` allows in the run `calls`.

Three more are part of what the passing runs state of the code:

- importing a memory from another module is reported as a missing export even if that
  module exports it (`OthersMemory`, the first of the `Unsupported` kinds `VerdictRight` excepts);
- imports from namespaces WASIX serves but whose names do not start with `wasi_` are
  refused as imports from an unknown module (the second kind), while the README lists
  support of WASIX;
- a plugin loaded with `WasmInput::file` has no module called `main`, the only one calls
  look for, if the name section of its bytes names it otherwise (`NameOf` in
  `LoadManifest`).

## Not modelled

`http_request`, `http_status_code` and `http_headers` are `todo!()` and appear only as
a panic; `get_log_level` reads a global filter. `build.rs` downloads the runtime and
`examples/` are demonstrations. What wasmer and `wasmer_wasix` do inside is external.
The failing write of `memory_new` cannot happen, since the block was just allocated. A call with
the store of another context panics inside wasmer. Results are decoded as `String`;
other types differ only in which bytes they refuse. The weak reference of a host
function to its plugin always upgrades, because a running call borrows the plugin.

## What is left

The modules are written in the order of how much of the system depends on them, and all
of the plan is done: every safety property a run checks is also proved. What `PluginNew`
abstracts of linking, the number and kinds of its sections, could be replaced by `Linker`
itself in a composition of the two; it would need a bound on both at once that
TLC still finishes, and shows nothing about the lock the sections do not.
