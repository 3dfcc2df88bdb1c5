---------------------------- MODULE LoadManifest ----------------------------
(***************************************************************************)
(* Loading the modules of a manifest: Plugin::load_manifest                *)
(* (src/plugin.rs), which loads all entries concurrently with try_join_all *)
(* and names each module.                                                  *)
(*                                                                         *)
(* The entries share one task: they are polled in turn and run undisturbed *)
(* from one await to the next.  A file is read with one await; a download  *)
(* awaits the response and then its body; bytes in the manifest need none. *)
(* What is wrong with an entry, and whether it ever answers, is part of    *)
(* the entry; a module is abstracted to the entry it comes from.           *)
(***************************************************************************)
EXTENDS Naturals, Sequences

CONSTANTS
  Manifests,   \* the manifests to load
  Names,       \* names of modules
  Main,        \* "main"
  NoName,      \* stands for an absent name
  SmallJoin    \* up to so many futures try_join_all polls all, 30 in fact

(* meta: the name in the manifest; own: the one in the bytes.              *)
(* fault: where loading it fails; silent: whether it never answers.        *)
Sources == {"file", "data", "url"}
Faults  == {"none", "request", "response", "body", "compile"}
Entry   == [source : Sources, meta : Names \cup {NoName},
            own : Names \cup {NoName}, fault : Faults, silent : BOOLEAN]

ASSUME ManifestAssumption ==
  /\ Main \in Names /\ NoName \notin Names
  /\ SmallJoin \in Nat
  /\ Manifests \subseteq Seq(Entry)
  /\ \A m \in Manifests : \A i \in 1..Len(m) :
       /\ m[i].source = "file" => m[i].fault # "body"
       /\ m[i].source = "data" => m[i].fault \in {"none", "compile"} /\ ~m[i].silent

VARIABLES
  manifest,   \* rigid: the entries
  at,         \* where each entry is
  collected,  \* how many results are in the map
  modules,    \* the map of modules by name
  result,     \* how load_manifest ended
  culprit     \* the entry whose error it returned, or 0

vars == <<manifest, at, collected, modules, result, culprit>>

Entries == 1..Len(manifest)

TypeOK ==
  /\ manifest \in Manifests
  /\ at \in [Entries -> {"new", "asked", "answered", "done", "failed"}]
  /\ collected \in 0..Len(manifest)
  /\ DOMAIN modules \subseteq Names
  /\ \A n \in DOMAIN modules : modules[n] \in Entries
  /\ result \in {"running", "ok", "error"}
  /\ culprit \in 0..Len(manifest)

Init ==
  /\ manifest \in Manifests
  /\ at = [i \in 1..Len(manifest) |-> "new"]
  /\ collected = 0 /\ modules = <<>>
  /\ result = "running" /\ culprit = 0

(* The name a module gets: the manifest's, else its own, else "main".      *)
NameOf(e) == IF e.meta # NoName THEN e.meta
             ELSE IF e.own # NoName THEN e.own ELSE Main

-----------------------------------------------------------------------------
Goto(i, p) == /\ at' = [at EXCEPT ![i] = p]
              /\ UNCHANGED <<manifest, collected, modules, result, culprit>>

(* try_join_all returns the first error it polls.  Beyond SmallJoin        *)
(* futures it takes their results in order, and an error waits its turn.   *)
MayReport(i) ==
  Len(manifest) > SmallJoin => \A j \in 1..(i - 1) : at[j] = "done"

(* The entry fails; once that is reported the others are dropped.          *)
Fail(i) ==
  /\ at' = [at EXCEPT ![i] = "failed"]
  /\ \/ MayReport(i) /\ result' = "error" /\ culprit' = i
     \/ ~MayReport(i) /\ UNCHANGED <<result, culprit>>
  /\ UNCHANGED <<manifest, collected, modules>>

Report(i) ==
  /\ result = "running" /\ at[i] = "failed" /\ MayReport(i)
  /\ result' = "error" /\ culprit' = i
  /\ UNCHANGED <<manifest, at, collected, modules>>

(* Module::new                                                             *)
Compile(i) ==
  \/ manifest[i].fault = "compile" /\ Fail(i)
  \/ manifest[i].fault # "compile" /\ Goto(i, "done")

(* Method, headers and request are checked before anything is sent; built *)
(* for wasm32, a file is refused as well.                                  *)
Refused(e) == e.fault = "request"

(* Faulty start: an entry is asked for only when the one before is done.   *)
StartInTurn(i) ==
  /\ result = "running" /\ at[i] = "new" /\ \A j \in 1..(i - 1) : at[j] = "done"
  /\ \/ Refused(manifest[i]) /\ Fail(i)
     \/ ~Refused(manifest[i]) /\ manifest[i].source = "data" /\ Compile(i)
     \/ ~Refused(manifest[i]) /\ manifest[i].source # "data" /\ Goto(i, "asked")

(* The first poll of the join starts the entries in their order.           *)
Start(i) ==
  /\ result = "running" /\ at[i] = "new" /\ \A j \in 1..(i - 1) : at[j] # "new"
  /\ \/ Refused(manifest[i]) /\ Fail(i)
     \/ ~Refused(manifest[i]) /\ manifest[i].source = "data" /\ Compile(i)
     \/ ~Refused(manifest[i]) /\ manifest[i].source # "data" /\ Goto(i, "asked")

(* Faulty wakeup: an entry that did not answer at once is forgotten.       *)
PolledOnce(i) == \A j \in (i + 1)..Len(manifest) : at[j] = "new"

(* The entry is polled: for the first time, right after it was started, or *)
(* once all have been.                                                     *)
Polled(i) == \/ \A j \in (i + 1)..Len(manifest) : at[j] = "new"
             \/ \A j \in Entries : at[j] # "new"

(* Faulty download: the status of the response is not looked at.           *)
AnswerAnyStatus(i) ==
  /\ result = "running" /\ at[i] = "asked" /\ Polled(i) /\ ~manifest[i].silent
  /\ \/ manifest[i].source = "file" /\ Compile(i)
     \/ manifest[i].source = "url" /\ Goto(i, "answered")

(* A file has been read, or a response has come and its status is looked at *)
Answer(i) ==
  /\ result = "running" /\ at[i] = "asked" /\ Polled(i) /\ ~manifest[i].silent
  /\ \/ manifest[i].fault = "response" /\ Fail(i)
     \/ manifest[i].fault # "response" /\ manifest[i].source = "file" /\ Compile(i)
     \/ manifest[i].fault # "response" /\ manifest[i].source = "url" /\ Goto(i, "answered")

(* The body of a download is complete.                                     *)
Receive(i) ==
  /\ result = "running" /\ at[i] = "answered" /\ Polled(i)
  /\ \/ manifest[i].fault = "body" /\ Fail(i)
     \/ manifest[i].fault # "body" /\ Compile(i)

Insert(f, n, i) == [m \in DOMAIN f \cup {n} |-> IF m = n THEN i ELSE f[m]]

(* Faulty collect: keeps the first of equal names.                         *)
CollectFirst ==
  LET i == collected + 1 IN
  /\ result = "running" /\ \A j \in Entries : at[j] = "done"
  /\ i \in Entries
  /\ collected' = i
  /\ modules' = IF NameOf(manifest[i]) \in DOMAIN modules THEN modules
                ELSE Insert(modules, NameOf(manifest[i]), i)
  /\ UNCHANGED <<manifest, at, result, culprit>>

(* tuples.into_iter().collect(), in the order of the manifest: a module    *)
(* replaces an earlier one of its name.                                    *)
Collect ==
  LET i == collected + 1 IN
  /\ result = "running" /\ \A j \in Entries : at[j] = "done"
  /\ i \in Entries
  /\ collected' = i
  /\ modules' = Insert(modules, NameOf(manifest[i]), i)
  /\ UNCHANGED <<manifest, at, result, culprit>>

Finish ==
  /\ result = "running" /\ collected = Len(manifest)
  /\ result' = "ok"
  /\ UNCHANGED <<manifest, at, collected, modules, culprit>>

Poll(i) == Start(i) \/ Answer(i) \/ Receive(i) \/ Report(i)
Ended   == result # "running" /\ UNCHANGED vars

Next == (\E i \in Entries : Poll(i)) \/ Collect \/ Finish \/ Ended

(* The executor polls a task that was woken, and what is not silent wakes  *)
(* it.                                                                     *)
Fairness == WF_vars((\E i \in Entries : Poll(i)) \/ Collect \/ Finish)

Spec     == Init /\ [][Next]_vars
FairSpec == Spec /\ Fairness
-----------------------------------------------------------------------------
(* What loading means, without the order in which entries are done.        *)
Bad(e) == e.fault # "none"

Named(n) == {i \in Entries : NameOf(manifest[i]) = n}

(* A manifest is loaded only if all of it can be; the error reported is    *)
(* one an entry really has.                                                *)
VerdictRight ==
  /\ result = "ok" => \A i \in Entries : ~Bad(manifest[i])
  /\ result = "error" => Bad(manifest[culprit])

(* Whatever order the entries are done in, a name means the last entry of  *)
(* that name in the manifest, and no other name is in the map.             *)
LastOfName ==
  result = "ok" =>
    /\ DOMAIN modules = {NameOf(manifest[i]) : i \in Entries}
    /\ \A n \in DOMAIN modules :
         modules[n] \in Named(n) /\ \A i \in Named(n) : i <= modules[n]

(* Loading ends if every entry answers; and, up to SmallJoin entries, as   *)
(* soon as one fails, even if another never answers.                       *)
Noticed(e) == Refused(e) \/ (Bad(e) /\ ~e.silent)
Ends ==
  \/ \E i \in Entries : manifest[i].silent
  \/ <>(result # "running")
FailureNotDelayed ==
  (Len(manifest) <= SmallJoin /\ \E i \in Entries : Noticed(manifest[i]))
    => <>(result # "running")
=============================================================================
