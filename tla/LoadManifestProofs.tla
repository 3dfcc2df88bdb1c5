------------------------- MODULE LoadManifestProofs -------------------------
(***************************************************************************)
(* Proofs about LoadManifest, for manifests of any length, any names and   *)
(* any number of futures try_join_all polls at once.  Where an entry is    *)
(* says what cannot be wrong with it any more, and what has been collected *)
(* is the last of each name so far.  The last part shows that loading      *)
(* neither goes in circles nor gets stuck.                                 *)
(***************************************************************************)
EXTENDS LoadManifest, WellFoundedInduction, TLAPS

(* An entry that has come so far passed the tests on its way.              *)
EntryInv(i) ==
  /\ at[i] = "asked"    => ~Refused(manifest[i])
  /\ at[i] = "answered" => /\ ~Refused(manifest[i]) /\ manifest[i].source = "url"
                           /\ manifest[i].fault # "response"
  /\ at[i] = "done"     => ~Bad(manifest[i])
  /\ at[i] = "failed"   => Bad(manifest[i])

Progress ==
  /\ collected > 0 \/ result = "ok" => \A j \in Entries : at[j] = "done"
  /\ result = "ok" => collected = Len(manifest)
  /\ result = "error" => culprit \in Entries /\ at[culprit] = "failed"

CollectedInv ==
  /\ DOMAIN modules = {NameOf(manifest[i]) : i \in 1..collected}
  /\ \A n \in DOMAIN modules :
       /\ modules[n] \in 1..collected /\ NameOf(manifest[modules[n]]) = n
       /\ \A i \in 1..collected : NameOf(manifest[i]) = n => i <= modules[n]

LoadInv ==
  /\ TypeOK /\ Progress /\ CollectedInv
  /\ \A i \in Entries : EntryInv(i)

-----------------------------------------------------------------------------
LEMMA ManifestEntries ==
  ASSUME TypeOK
  PROVE  /\ Len(manifest) \in Nat
         /\ \A i \in Entries :
              /\ manifest[i] \in Entry /\ NameOf(manifest[i]) \in Names
              /\ manifest[i].source = "file" => manifest[i].fault # "body"
              /\ manifest[i].source = "data" => manifest[i].fault \in {"none", "compile"}
<1>1. manifest \in Manifests /\ manifest \in Seq(Entry)
  BY ManifestAssumption DEF TypeOK
<1>2. Len(manifest) \in Nat /\ \A i \in Entries : manifest[i] \in Entry
  BY <1>1 DEF Entries
<1>3. \A i \in Entries : NameOf(manifest[i]) \in Names
  BY <1>2, ManifestAssumption DEF NameOf, Entry
<1>4. \A i \in Entries :
        /\ manifest[i].source = "file" => manifest[i].fault # "body"
        /\ manifest[i].source = "data" => manifest[i].fault \in {"none", "compile"}
  BY <1>1, ManifestAssumption DEF Entries
<1> QED
  BY <1>2, <1>3, <1>4

(* A step of one entry, which is not done yet: nothing is collected, and   *)
(* what is known of the others stays.                                      *)
LEMMA EntryStep ==
  ASSUME LoadInv, NEW i \in Entries, NEW p, at[i] # "done",
         p \in {"asked", "answered", "done", "failed"}, result = "running",
         at' = [at EXCEPT ![i] = p], UNCHANGED <<manifest, collected, modules>>,
         \/ UNCHANGED <<result, culprit>>
         \/ p = "failed" /\ result' = "error" /\ culprit' = i,
         EntryInv(i)'
  PROVE  LoadInv'
<1>1. TypeOK /\ Progress /\ CollectedInv /\ Len(manifest) \in Nat
  BY ManifestEntries DEF LoadInv
<1>2. at'[i] = p /\ (\A j \in Entries \ {i} : at'[j] = at[j]) /\ Entries' = Entries
  BY <1>1 DEF TypeOK, Entries
<1>3. i \in 0..Len(manifest)
  BY <1>1 DEF Entries
<1>4. TypeOK'
  BY <1>1, <1>2, <1>3 DEF TypeOK
<1>5. collected = 0
  BY <1>1 DEF Progress, TypeOK
<1>6. Progress'
  BY <1>1, <1>2, <1>5 DEF Progress
<1>7. CollectedInv'
  BY <1>1 DEF CollectedInv
<1>8. \A j \in Entries \ {i} : EntryInv(j)'
  BY <1>2 DEF LoadInv, EntryInv
<1> QED
  BY <1>2, <1>4, <1>6, <1>7, <1>8 DEF LoadInv

LEMMA FailKeeps ==
  ASSUME LoadInv, NEW i \in Entries, at[i] # "done", result = "running", Fail(i),
         Bad(manifest[i])
  PROVE  LoadInv'
<1>1. at' = [at EXCEPT ![i] = "failed"] /\ UNCHANGED <<manifest, collected, modules>>
  BY DEF Fail
<1>2. EntryInv(i)'
  BY <1>1 DEF EntryInv, LoadInv, TypeOK
<1> QED
  BY <1>1, <1>2, EntryStep DEF Fail

LEMMA GotoKeeps ==
  ASSUME LoadInv, NEW i \in Entries, NEW p \in {"asked", "answered", "done"},
         at[i] # "done", result = "running", Goto(i, p),
         ~Refused(manifest[i]), p = "done" => ~Bad(manifest[i]),
         p = "answered" => manifest[i].source = "url" /\ manifest[i].fault # "response"
  PROVE  LoadInv'
<1>1. at' = [at EXCEPT ![i] = p] /\ UNCHANGED <<manifest, collected, modules, result, culprit>>
  BY DEF Goto
<1>2. EntryInv(i)'
  BY <1>1 DEF EntryInv, LoadInv, TypeOK
<1> QED
  BY <1>1, <1>2, EntryStep

LEMMA CompileKeeps ==
  ASSUME LoadInv, NEW i \in Entries, at[i] # "done", result = "running", Compile(i),
         ~Refused(manifest[i]), manifest[i].fault \notin {"request", "response", "body"}
  PROVE  LoadInv'
<1>1. manifest[i].fault \in {"none", "compile"}
  BY ManifestEntries DEF LoadInv, Entry, Faults
<1>2. CASE manifest[i].fault = "compile" /\ Fail(i)
  BY <1>2, FailKeeps DEF Bad
<1>3. CASE manifest[i].fault # "compile" /\ Goto(i, "done")
  BY <1>1, <1>3, GotoKeeps DEF Bad, Refused
<1> QED
  BY <1>2, <1>3 DEF Compile

-----------------------------------------------------------------------------
LEMMA StartKeeps ==
  ASSUME LoadInv, NEW i \in Entries, Start(i)
  PROVE  LoadInv'
<1>1. result = "running" /\ at[i] = "new" /\ at[i] # "done"
  BY DEF Start
<1>2. /\ manifest[i].source = "file" => manifest[i].fault # "body"
      /\ manifest[i].source = "data" => manifest[i].fault \in {"none", "compile"}
  BY ManifestEntries DEF LoadInv
<1>3. CASE Refused(manifest[i]) /\ Fail(i)
  BY <1>1, <1>3, FailKeeps DEF Refused, Bad
<1>4. CASE ~Refused(manifest[i]) /\ manifest[i].source = "data" /\ Compile(i)
  BY <1>1, <1>2, <1>4, CompileKeeps
<1>5. CASE ~Refused(manifest[i]) /\ Goto(i, "asked")
  BY <1>1, <1>5, GotoKeeps
<1> QED
  BY <1>3, <1>4, <1>5 DEF Start

LEMMA AnswerKeeps ==
  ASSUME LoadInv, NEW i \in Entries, Answer(i)
  PROVE  LoadInv'
<1>1. result = "running" /\ at[i] = "asked" /\ at[i] # "done" /\ ~Refused(manifest[i])
  BY DEF Answer, LoadInv, EntryInv
<1>2. manifest[i].source = "file" => manifest[i].fault # "body"
  BY ManifestEntries DEF LoadInv
<1>3. CASE manifest[i].fault = "response" /\ Fail(i)
  BY <1>1, <1>3, FailKeeps DEF Bad
<1>4. CASE manifest[i].fault # "response" /\ manifest[i].source = "file" /\ Compile(i)
  BY <1>1, <1>2, <1>4, CompileKeeps DEF Refused
<1>5. CASE /\ manifest[i].fault # "response" /\ manifest[i].source = "url"
           /\ Goto(i, "answered")
  BY <1>1, <1>5, GotoKeeps
<1> QED
  BY <1>3, <1>4, <1>5 DEF Answer

LEMMA ReceiveKeeps ==
  ASSUME LoadInv, NEW i \in Entries, Receive(i)
  PROVE  LoadInv'
<1>1. /\ result = "running" /\ at[i] # "done" /\ ~Refused(manifest[i])
      /\ manifest[i].fault # "response"
  BY DEF Receive, LoadInv, EntryInv
<1>2. CASE manifest[i].fault = "body" /\ Fail(i)
  BY <1>1, <1>2, FailKeeps DEF Bad
<1>3. CASE manifest[i].fault # "body" /\ Compile(i)
  BY <1>1, <1>3, CompileKeeps DEF Refused
<1> QED
  BY <1>2, <1>3 DEF Receive

LEMMA ReportKeeps ==
  ASSUME LoadInv, NEW i \in Entries, Report(i)
  PROVE  LoadInv'
<1>1. /\ result' = "error" /\ culprit' = i /\ at[i] = "failed" /\ Len(manifest) \in Nat
      /\ UNCHANGED <<manifest, at, collected, modules>>
  BY ManifestEntries DEF Report, LoadInv
<1>2. Entries' = Entries /\ i \in 0..Len(manifest)
  BY <1>1 DEF Entries
<1>3. TypeOK'
  BY <1>1, <1>2 DEF LoadInv, TypeOK
<1>4. Progress' /\ CollectedInv'
  BY <1>1, <1>2 DEF LoadInv, Progress, CollectedInv
<1>5. \A j \in Entries : EntryInv(j)'
  BY <1>1 DEF LoadInv, EntryInv
<1> QED
  BY <1>2, <1>3, <1>4, <1>5 DEF LoadInv

LEMMA CollectKeeps ==
  ASSUME LoadInv, Collect
  PROVE  LoadInv'
<1> DEFINE i == collected + 1
           n == NameOf(manifest[i])
<1>1. /\ result = "running" /\ (\A j \in Entries : at[j] = "done") /\ i \in Entries
      /\ collected' = i /\ modules' = Insert(modules, n, i)
      /\ UNCHANGED <<manifest, at, result, culprit>>
  BY DEF Collect
<1>2. TypeOK /\ Len(manifest) \in Nat /\ n \in Names /\ collected \in Nat
  BY <1>1, ManifestEntries DEF LoadInv, TypeOK
<1>3. 1..i = 1..collected \cup {i} /\ i \in 0..Len(manifest) /\ i > collected
  BY <1>1, <1>2 DEF Entries
<1>4. /\ DOMAIN modules' = DOMAIN modules \cup {n} /\ modules'[n] = i
      /\ \A m \in DOMAIN modules \ {n} : modules'[m] = modules[m]
  BY <1>1 DEF Insert
<1>5. TypeOK'
  BY <1>1, <1>2, <1>3, <1>4 DEF TypeOK, Entries
<1>6. Progress'
  BY <1>1 DEF Progress, Entries
<1>7. CollectedInv'
  <2>1. DOMAIN modules' = {NameOf(manifest[j]) : j \in 1..i}
    BY <1>3, <1>4 DEF LoadInv, CollectedInv
  <2>2. ASSUME NEW m \in DOMAIN modules'
        PROVE  /\ modules'[m] \in 1..i /\ NameOf(manifest[modules'[m]]) = m
               /\ \A j \in 1..i : NameOf(manifest[j]) = m => j <= modules'[m]
    <3>1. CASE m = n
      BY <1>2, <1>3, <1>4, <3>1
    <3>2. CASE m # n
      BY <1>2, <1>3, <1>4, <3>2 DEF LoadInv, CollectedInv
    <3> QED
      BY <3>1, <3>2
  <2> QED
    BY <1>1, <2>1, <2>2 DEF CollectedInv
<1>8. \A j \in Entries' : EntryInv(j)'
  BY <1>1 DEF LoadInv, EntryInv, Entries
<1> QED
  BY <1>5, <1>6, <1>7, <1>8 DEF LoadInv

LEMMA FinishKeeps ==
  ASSUME LoadInv, Finish
  PROVE  LoadInv'
<1>1. /\ collected = Len(manifest) /\ result' = "ok"
      /\ UNCHANGED <<manifest, at, collected, modules, culprit>>
  BY DEF Finish
<1>2. \A j \in Entries : at[j] = "done"
  BY <1>1, ManifestEntries DEF LoadInv, Progress, Entries
<1>3. TypeOK' /\ Progress' /\ CollectedInv'
  BY <1>1, <1>2 DEF LoadInv, TypeOK, Progress, CollectedInv, Entries
<1>4. \A j \in Entries' : EntryInv(j)'
  BY <1>1 DEF LoadInv, EntryInv, Entries
<1> QED
  BY <1>3, <1>4 DEF LoadInv

LEMMA LoadInvariant == Spec => []LoadInv
<1>1. Init => LoadInv
  <2> SUFFICES ASSUME Init PROVE LoadInv
    OBVIOUS
  <2>1. Len(manifest) \in Nat /\ DOMAIN <<>> = {}
    BY ManifestAssumption DEF Init
  <2>2. TypeOK /\ Progress /\ CollectedInv
    BY <2>1 DEF Init, TypeOK, Progress, CollectedInv, Entries
  <2>3. \A i \in Entries : EntryInv(i)
    BY DEF Init, Entries, EntryInv
  <2> QED
    BY <2>2, <2>3 DEF LoadInv
<1>2. LoadInv /\ [Next]_vars => LoadInv'
  <2>1. LoadInv /\ UNCHANGED vars => LoadInv'
    BY DEF LoadInv, TypeOK, Progress, CollectedInv, EntryInv, Entries, vars
  <2> QED
    BY <2>1, StartKeeps, AnswerKeeps, ReceiveKeeps, ReportKeeps, CollectKeeps, FinishKeeps
    DEF Next, Poll, Ended
<1> QED
  BY <1>1, <1>2, PTL DEF Spec

-----------------------------------------------------------------------------
(* Loading keeps its state in shape: in particular every module gets one   *)
(* of the names, whatever order the entries are done in.                   *)
THEOREM LoadTypeCorrect == Spec => []TypeOK
<1>1. LoadInv => TypeOK
  BY DEF LoadInv
<1> QED
  BY <1>1, LoadInvariant, PTL

(* A manifest of any length is loaded only if every entry of it can be,    *)
(* and the error returned is one the entry it names really has.            *)
THEOREM VerdictIsRight == Spec => []VerdictRight
<1>1. LoadInv => VerdictRight
  BY DEF LoadInv, Progress, EntryInv, VerdictRight
<1> QED
  BY <1>1, LoadInvariant, PTL

(* Of the entries of one name the last in the manifest is the module,      *)
(* although they are loaded in any order.                                  *)
THEOREM LastEntryWins == Spec => []LastOfName
<1>1. LoadInv => LastOfName
  <2> SUFFICES ASSUME LoadInv, result = "ok"
               PROVE  /\ DOMAIN modules = {NameOf(manifest[i]) : i \in Entries}
                      /\ \A n \in DOMAIN modules :
                           modules[n] \in Named(n) /\ \A i \in Named(n) : i <= modules[n]
    BY DEF LastOfName
  <2>1. 1..collected = Entries
    BY DEF LoadInv, Progress, Entries
  <2> QED
    BY <2>1 DEF LoadInv, CollectedInv, Named
<1> QED
  BY <1>1, LoadInvariant, PTL

-----------------------------------------------------------------------------
(* Loading ends because every step brings an entry forward or collects     *)
(* one, which is never undone, and because somebody can always go on.      *)
Stage(p) == CASE p = "new" -> 0 [] p = "asked" -> 1 [] p = "answered" -> 2
              [] OTHER -> 3

Forward ==
  result' = "running" =>
    /\ collected' >= collected
    /\ \A i \in Entries : Stage(at'[i]) >= Stage(at[i])
    /\ collected' > collected \/ \E i \in Entries : Stage(at'[i]) > Stage(at[i])

(* The guards of the steps: one of them can be taken.                      *)
FirstNew(i) == at[i] = "new" /\ \A j \in 1..(i - 1) : at[j] # "new"
Waits(i) == \/ at[i] = "asked" /\ ~manifest[i].silent
            \/ at[i] = "answered"

CanGoOn ==
  \/ \E i \in Entries : FirstNew(i) \/ (Waits(i) /\ Polled(i))
                          \/ (at[i] = "failed" /\ MayReport(i))
  \/ \A i \in Entries : at[i] = "done"

(* When the run of an entry that never answers is no excuse.               *)
MustEnd ==
  \/ \A i \in Entries : ~manifest[i].silent
  \/ Len(manifest) <= SmallJoin /\ \E i \in Entries : Noticed(manifest[i])

NeverStuck == result = "running" /\ MustEnd => CanGoOn

LEMMA Smallest ==
  ASSUME NEW S \in SUBSET Nat, S # {}
  PROVE  \E i \in S : \A j \in S : i <= j
<1> DEFINE R == OpToRel(<, Nat)
<1>1. IsWellFoundedOn(R, Nat)
  BY NatLessThanWellFounded
<1>2. \A i, j \in Nat : i < j => <<i, j>> \in R
  BY DEF OpToRel
<1> HIDE DEF R
<1>3. PICK i \in S : \A j \in S : <<j, i>> \notin R
  BY <1>1, WFMin
<1>4. \A j \in S : ~(j < i)
  BY <1>2, <1>3
<1> QED
  BY <1>4

LEMMA SmallestEntry ==
  ASSUME TypeOK, NEW S \in SUBSET Entries, S # {}
  PROVE  \E i \in S : \A j \in 1..(i - 1) : j \in Entries \ S
<1>1. Len(manifest) \in Nat
  BY ManifestEntries
<1>2. S \in SUBSET Nat
  BY <1>1 DEF Entries
<1>3. PICK i \in S : \A j \in S : i <= j
  BY <1>2, Smallest
<1>4. \A j \in 1..(i - 1) : j \in Entries /\ ~(i <= j)
  BY <1>1, <1>2, <1>3 DEF Entries
<1> QED
  BY <1>3, <1>4

LEMMA SomeNew ==
  ASSUME TypeOK, NEW i \in Entries, at[i] = "new"
  PROVE  CanGoOn
<1> DEFINE S == {j \in Entries : at[j] = "new"}
<1>1. PICK k \in S : \A j \in 1..(k - 1) : j \in Entries \ S
  BY SmallestEntry
<1>2. FirstNew(k)
  BY <1>1 DEF FirstNew
<1> QED
  BY <1>1, <1>2 DEF CanGoOn

(* An entry that can be polled lets loading go on.                         *)
LEMMA Awaited ==
  ASSUME TypeOK, NEW i \in Entries, at[i] # "done",
         at[i] = "asked" => ~manifest[i].silent,
         at[i] = "failed" => MayReport(i)
  PROVE  CanGoOn
<1>1. at[i] \in {"new", "asked", "answered", "failed"}
  BY DEF TypeOK
<1>2. CASE at[i] = "failed"
  BY <1>2 DEF CanGoOn
<1>3. CASE \E j \in Entries : at[j] = "new"
  BY <1>3, SomeNew
<1>4. CASE at[i] \in {"asked", "answered"} /\ \A j \in Entries : at[j] # "new"
  BY <1>4 DEF CanGoOn, Waits, Polled
<1> QED
  BY <1>1, <1>2, <1>3, <1>4

LEMMA NotStuck ==
  ASSUME LoadInv
  PROVE  NeverStuck
<1> SUFFICES ASSUME MustEnd, ~(\A i \in Entries : at[i] = "done")
             PROVE  CanGoOn
  BY DEF NeverStuck, CanGoOn
<1> USE DEF LoadInv
<1>1. CASE \A i \in Entries : ~manifest[i].silent
  <2> DEFINE S == {i \in Entries : at[i] # "done"}
  <2>1. S # {}
    OBVIOUS
  <2>2. PICK i \in S : \A j \in 1..(i - 1) : j \in Entries \ S
    BY <2>1, SmallestEntry
  <2>3. MayReport(i)
    BY <2>2 DEF MayReport
  <2> QED
    BY <1>1, <2>2, <2>3, Awaited
<1>2. CASE Len(manifest) <= SmallJoin /\ \E i \in Entries : Noticed(manifest[i])
  <2>1. PICK i \in Entries : Noticed(manifest[i])
    BY <1>2
  <2>2. MayReport(i)
    BY <1>2, ManifestEntries, ManifestAssumption DEF MayReport
  <2>3. at[i] # "done" /\ (at[i] = "asked" => ~manifest[i].silent)
    BY <2>1 DEF Noticed, EntryInv, Refused, Bad
  <2> QED
    BY <2>2, <2>3, Awaited
<1> QED
  BY <1>1, <1>2 DEF MustEnd

(* An entry gets on by one step, and nothing else changes.                 *)
LEMMA EntryForward ==
  ASSUME TypeOK, NEW i \in Entries, NEW p, at' = [at EXCEPT ![i] = p],
         Stage(p) > Stage(at[i]), collected' = collected
  PROVE  Forward
<1>1. collected \in Nat /\ at'[i] = p /\ \A j \in Entries \ {i} : at'[j] = at[j]
  BY DEF TypeOK
<1>2. \A j \in Entries : Stage(at[j]) \in Nat
  BY DEF Stage
<1> HIDE DEF Stage
<1>3. \A j \in Entries : Stage(at'[j]) >= Stage(at[j])
  <2> SUFFICES ASSUME NEW j \in Entries
               PROVE  Stage(at'[j]) >= Stage(at[j])
    OBVIOUS
  <2>1. Stage(p) \in Nat /\ Stage(at[j]) \in Nat /\ Stage(at[i]) \in Nat
    BY DEF Stage
  <2>2. CASE j = i
    BY <1>1, <2>1, <2>2
  <2>3. CASE j # i
    BY <1>1, <2>1, <2>3
  <2> QED
    BY <2>2, <2>3
<1>4. Stage(at'[i]) > Stage(at[i])
  BY <1>1
<1> QED
  BY <1>1, <1>3, <1>4 DEF Forward

LEMMA PollForward ==
  ASSUME LoadInv, NEW i \in Entries, Poll(i)
  PROVE  Forward
<1>1. CASE Report(i)
  BY <1>1 DEF Report, Forward
<1>2. CASE Start(i) \/ Answer(i) \/ Receive(i)
  <2>1. PICK p \in {"asked", "answered", "done", "failed"} :
             /\ at' = [at EXCEPT ![i] = p] /\ collected' = collected
             /\ \/ at[i] = "new"
                \/ at[i] = "asked" /\ p # "asked"
                \/ at[i] = "answered" /\ p \in {"done", "failed"}
    BY <1>2 DEF Start, Answer, Receive, Compile, Fail, Goto
  <2>2. Stage(p) > Stage(at[i])
    BY <2>1 DEF Stage
  <2> QED
    BY <2>1, <2>2, EntryForward DEF LoadInv
<1> QED
  BY <1>1, <1>2 DEF Poll

LEMMA NextForward ==
  ASSUME LoadInv, [Next]_vars
  PROVE  [Forward]_vars
<1>1. CASE \E i \in Entries : Poll(i)
  BY <1>1, PollForward
<1>2. CASE Collect
  <2>1. at' = at /\ collected' = collected + 1 /\ collected \in Nat
    BY <1>2 DEF Collect, LoadInv, TypeOK
  <2>2. \A i \in Entries : Stage(at[i]) \in Nat
    BY DEF Stage
  <2>3. \A i \in Entries : Stage(at'[i]) >= Stage(at[i])
    BY <2>1, <2>2
  <2> QED
    BY <2>1, <2>3 DEF Forward
<1>3. CASE Finish
  BY <1>3 DEF Finish, Forward
<1> QED
  BY <1>1, <1>2, <1>3 DEF Next, Ended

(* Every step brings an entry forward, of which each has three stages, or  *)
(* collects one, or ends loading.                                          *)
THEOREM LoadingGetsOn == Spec => [][Forward]_vars
  BY NextForward, LoadInvariant, PTL DEF Spec

(* While loading must end there is a step to take: if every entry answers, *)
(* and, up to SmallJoin entries, if one will fail although others never    *)
(* answer.                                                                 *)
THEOREM LoadingIsNeverStuck == Spec => []NeverStuck
  BY NotStuck, LoadInvariant, PTL
=============================================================================
