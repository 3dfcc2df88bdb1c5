-------------------------- MODULE PluginNewProofs --------------------------
(***************************************************************************)
(* Proofs about PluginNew, for any number of tasks, any exports and any    *)
(* number of entries and sections.  A step of a task changes nothing of    *)
(* another: ids are never shared, so what it puts into the store belongs   *)
(* to nobody else.  What a task has in the store and what its modules may  *)
(* import follows from the section it is in.  The last part shows that     *)
(* every step brings a task forward and that they do not wait in a circle. *)
(***************************************************************************)
EXTENDS PluginNew, SequenceTheorems, TLAPS

Linked == {"link", "check", "memory", "wasi", "instance", "unlinked", "returned"}

(* What a task holds of the lock: a writer is alone, and after a panic     *)
(* nobody is inside.                                                       *)
LockInv ==
  /\ \A g, h \in guards : g[2] \in Writes => h = g
  /\ poisoned => guards = {}

IdInv ==
  /\ \A t \in Tasks : Attempted(t) => id[t] \in Nat /\ id[t] < counter
  /\ \A s, t \in Tasks : Attempted(t) /\ id[s] = id[t] => s = t
  /\ \A o \in store : \E t \in Tasks : id[t] = o.of

(* What the section a task is in says about its counters.                  *)
PhaseInv(t) ==
  /\ phase[t] = "hold" => kind[t] = "held"
  /\ phase[t] \in {"begin", "hold", "decode"} => ~Attempted(t)
  /\ phase[t] \in {"kernel", "load", "fetch", "compile", "env", "export", "cancelled"}
                    \cup Linked => Attempted(t)
  /\ phase[t] \in {"begin", "hold", "decode", "kernel", "load", "env"} => left[t] = 0
  /\ phase[t] \in {"compile", "check", "memory", "wasi", "instance"} => left[t] > 0
  /\ phase[t] = "export" => left[t] \in 1..Len(user[t])

(* What the store holds for it ...                                         *)
Object(i, m, n) == [of |-> i, made |-> m, nth |-> n]

Exported(t, n) ==
  \A o \in store : o.of = id[t] /\ o.made = "export" => o.nth \in 1..n

StoreInv(t) ==
  /\ phase[t] \in {"kernel"} => \A o \in store : o.of # id[t]
  /\ phase[t] \in {"load", "fetch", "compile", "env", "unloaded", "cancelled"} /\ Attempted(t)
       => \A o \in store : o.of = id[t] => o.made = "kernel" /\ o.nth = 0
  /\ phase[t] \in {"load", "fetch", "compile", "env", "export"} \cup Linked
       => Object(id[t], "kernel", 0) \in store
  /\ phase[t] \in {"export"} \cup Linked
       => /\ Object(id[t], "env", 0) \in store
          /\ \A o \in store : o.of = id[t] /\ o.made \in {"kernel", "env"} => o.nth = 0
  /\ phase[t] = "export" =>
       /\ Exported(t, left[t] - 1)
       /\ \A n \in 1..(left[t] - 1) : Object(id[t], "export", n) \in store
  /\ phase[t] \in Linked =>
       /\ Exported(t, Len(user[t]))
       /\ \A n \in 1..Len(user[t]) : Object(id[t], "export", n) \in store

(* ... and what has been collected of its exports.                         *)
LastUpTo(t, k, n, j) ==
  /\ j \in 1..n /\ user[t][j] = k
  /\ \A i \in 1..n : user[t][i] = k => i <= j

Collects(t, f, n) ==
  /\ DOMAIN f = {user[t][j] : j \in 1..n}
  /\ \A k \in DOMAIN f :
       \E j \in 1..n : LastUpTo(t, k, n, j) /\ f[k] = Object(id[t], "export", j)

ExternInv(t) ==
  /\ phase[t] \in {"begin", "hold", "decode", "kernel", "load", "fetch", "compile", "env"}
       => DOMAIN externals[t] = {}
  /\ phase[t] = "export" => Collects(t, externals[t], left[t] - 1)
  /\ phase[t] \in Linked =>
       \E f : /\ Collects(t, f, Len(user[t]))
              /\ externals[t] = Chain(t, f)

TaskInv(t) == PhaseInv(t) /\ StoreInv(t) /\ ExternInv(t)

NewInv ==
  /\ TypeOK /\ LockInv /\ NothingHeldOver /\ IdInv
  /\ \A t \in Tasks : TaskInv(t)

-----------------------------------------------------------------------------
(* What every step of task t leaves alone.                                 *)
Local(t) ==
  /\ kind' = kind /\ user' = user
  /\ \A u \in Tasks \ {t} :
       /\ phase'[u] = phase[u] /\ left'[u] = left[u]
       /\ id'[u] = id[u] /\ externals'[u] = externals[u]
  /\ store \subseteq store'
  /\ \A o \in store' \ store : o.of = id'[t] /\ id'[t] # NoId

LEMMA Sets ==
  /\ Reads \subseteq Sections /\ Writes \subseteq Sections /\ Sections \subseteq Phases
  /\ Ended \subseteq Phases /\ "begin" \in Phases /\ "fetch" \in Phases /\ "link" \in Phases
  BY DEF Sections, Phases

(* A step of one task keeps what is known of the others.                   *)
LEMMA OthersKeep ==
  ASSUME TypeOK, NEW t \in Tasks, NEW u \in Tasks \ {t}, Local(t), IdInv', TaskInv(u)
  PROVE  TaskInv(u)'
<1>1. /\ phase'[u] = phase[u] /\ left'[u] = left[u] /\ id'[u] = id[u]
      /\ externals'[u] = externals[u] /\ kind'[u] = kind[u] /\ user'[u] = user[u]
      /\ user' = user
  BY DEF Local
<1>2. PhaseInv(u)'
  BY <1>1 DEF TaskInv, PhaseInv, Attempted
<1>3. \A o \in store' : o.of = id[u] => o \in store
  BY <1>1 DEF Local, IdInv, Attempted
<1>4. StoreInv(u)'
  <2>1. store \subseteq store'
    BY DEF Local
  <2>2. ASSUME NEW n, Exported(u, n)
        PROVE  \A o \in store' : o.of = id[u] /\ o.made = "export" => o.nth \in 1..n
    BY <1>3, <2>2 DEF Exported
  <2> QED
    BY <1>1, <1>3, <2>1, <2>2 DEF TaskInv, StoreInv, Attempted, Exported
<1>5. ExternInv(u)'
  <2>1. \A f, n : Collects(u, f, n)' <=> Collects(u, f, n)
    BY <1>1 DEF Collects, LastUpTo
  <2>2. \A f : Chain(u, f)' = Chain(u, f)
    BY <1>1 DEF Chain, EnvObject
  <2> QED
    BY <1>1, <2>1, <2>2 DEF TaskInv, ExternInv
<1> QED
  BY <1>2, <1>4, <1>5 DEF TaskInv

(* So a step preserves the invariant when it does for its own task.        *)
LEMMA Frame ==
  ASSUME NewInv, NEW t \in Tasks, Local(t),
         TypeOK', LockInv', NothingHeldOver', IdInv', TaskInv(t)'
  PROVE  NewInv'
  BY OthersKeep DEF NewInv

-----------------------------------------------------------------------------
(* The lock.  A task that leaves its section gives the guard back, and a   *)
(* panic poisons only the lock it had for itself.                          *)
LEMMA LeaveLock ==
  ASSUME TypeOK, LockInv, NothingHeldOver, NEW t \in Tasks, NEW q,
         Inside(t, phase[t]), phase[t] \in Sections, Goto(t, q), Leave(t), kind' = kind,
         poisoned' = poisoned \/ phase[t] \in Writes
  PROVE  LockInv' /\ NothingHeldOver' /\ guards' \subseteq Tasks \X Sections
<1>1. guards' = guards \ {<<t, phase[t]>>} /\ <<t, phase[t]>> \in guards
  BY DEF Leave, Inside
<1>2. LockInv'
  BY <1>1 DEF LockInv
<1>3. NothingHeldOver'
  <2> SUFFICES ASSUME NEW g \in guards', kind[g[1]] # "held" PROVE phase'[g[1]] = g[2]
    BY DEF NothingHeldOver
  <2>1. g \in guards /\ g \in Tasks \X Sections /\ phase[g[1]] = g[2]
    BY <1>1 DEF NothingHeldOver, TypeOK
  <2>2. g[1] # t
    BY <1>1, <2>1
  <2> QED
    BY <2>1, <2>2 DEF Goto, TypeOK
<1> QED
  BY <1>1, <1>2, <1>3 DEF TypeOK

(* A task that moves on without a guard, or may keep one, changes nothing. *)
LEMMA MoveLock ==
  ASSUME TypeOK, LockInv, NothingHeldOver, NEW t \in Tasks, NEW q,
         phase[t] \notin Sections \/ kind[t] = "held" \/ guards = {},
         Goto(t, q), guards' = guards, kind' = kind, poisoned' = poisoned
  PROVE  LockInv' /\ NothingHeldOver'
<1>1. LockInv'
  BY DEF LockInv
<1>2. NothingHeldOver'
  <2> SUFFICES ASSUME NEW g \in guards, kind[g[1]] # "held" PROVE phase'[g[1]] = g[2]
    BY DEF NothingHeldOver
  <2>1. g \in Tasks \X Sections /\ phase[g[1]] = g[2]
    BY DEF NothingHeldOver, TypeOK
  <2>2. g[1] # t
    BY <2>1
  <2> QED
    BY <2>1, <2>2 DEF Goto, TypeOK
<1> QED
  BY <1>1, <1>2

(* Ids.  What is put into the store belongs to a task that has one.        *)
LEMMA IdsKept ==
  ASSUME TypeOK, IdInv, NEW t \in Tasks, id' = id, counter' = counter,
         \/ store' = store
         \/ Attempted(t) /\ \E o : o.of = id[t] /\ store' = store \cup {o}
  PROVE  IdInv'
  BY DEF IdInv, Attempted

LEMMA IdsTaken ==
  ASSUME TypeOK, IdInv, NEW t \in Tasks, ~Attempted(t), TakeId(t)
  PROVE  IdInv' /\ id'[t] = counter /\ \A o \in store : o.of # id'[t]
<1>1. /\ id' = [id EXCEPT ![t] = counter] /\ counter' = counter + 1 /\ store' = store
      /\ id \in [Tasks -> Nat \cup {NoId}] /\ counter \in Nat /\ store \subseteq Objects
  BY DEF TakeId, TypeOK
<1>2. \A o \in store : o.of \in Nat
  BY <1>1 DEF Objects
<1>3. NoId \notin Nat
  BY DEF NoId
<1>4. \A u \in Tasks : Attempted(u) => id[u] < counter
  BY DEF IdInv
<1>5. \A u \in Tasks : id'[u] = IF u = t THEN counter ELSE id[u]
  BY <1>1
<1>6. \A o \in store : \E u \in Tasks \ {t} : id[u] = o.of
  BY <1>2, <1>3 DEF IdInv, Attempted
<1>7. \A u \in Tasks : Attempted(u)' => id'[u] \in Nat /\ id'[u] < counter'
  BY <1>1, <1>3, <1>4, <1>5 DEF Attempted
<1>8. \A s, u \in Tasks : Attempted(u)' /\ id'[s] = id'[u] => s = u
  BY <1>1, <1>3, <1>4, <1>5 DEF Attempted, IdInv
<1>9. \A o \in store' : \E u \in Tasks : id'[u] = o.of
  BY <1>1, <1>5, <1>6
<1>10. \A o \in store : o.of # id'[t]
  BY <1>2, <1>3, <1>4, <1>5, <1>6, <1>1 DEF Attempted
<1> QED
  BY <1>1, <1>5, <1>7, <1>8, <1>9, <1>10 DEF IdInv

-----------------------------------------------------------------------------
(* A step that only moves the task, and maybe counts.                      *)
Moves(t, q) ==
  /\ Goto(t, q) /\ q \in Phases
  /\ UNCHANGED <<kind, user, id, counter, store, externals>>
  /\ left' = left \/ \E n \in Nat : Count(t, n)

LEMMA MoveKeeps ==
  ASSUME NewInv, NEW t \in Tasks, NEW q, Moves(t, q),
         poisoned' \in BOOLEAN, guards' \subseteq Tasks \X Sections,
         LockInv', NothingHeldOver', PhaseInv(t)', StoreInv(t)', ExternInv(t)'
  PROVE  NewInv'
<1>1. TypeOK'
  BY DEF NewInv, TypeOK, Moves, Goto, Count
<1>2. IdInv'
  BY IdsKept DEF NewInv, Moves
<1>3. Local(t)
  BY DEF NewInv, TypeOK, Local, Moves, Goto, Count
<1> QED
  BY <1>1, <1>2, <1>3, Frame DEF TaskInv

(* Nothing that is known of its store and its externals changes, unless    *)
(* the section it enters says more than the one it left.                   *)
LEMMA MoveData ==
  ASSUME NewInv, NEW t \in Tasks, NEW q, Moves(t, q),
         \/ q \in {"load", "fetch", "compile", "env", "unloaded", "cancelled"}
              /\ phase[t] \in {"load", "fetch", "compile"}
         \/ q \in Linked /\ phase[t] \in Linked
         \/ q \in {"call", "called", "panicked"}
         \/ phase[t] \in {"begin", "hold", "decode"} /\ ~Attempted(t)
              /\ q \in {"hold", "decode", "unloaded"}
  PROVE  StoreInv(t)' /\ ExternInv(t)'
<1>1. /\ phase'[t] = q /\ id' = id /\ user' = user /\ store' = store
      /\ externals' = externals
  BY DEF NewInv, TypeOK, Moves, Goto
<1>2. StoreInv(t) /\ ExternInv(t)
  BY DEF NewInv, TaskInv
<1>3. StoreInv(t)'
  BY <1>1, <1>2 DEF StoreInv, Exported, Attempted, Linked
<1>4. /\ \A f, n : Collects(t, f, n)' <=> Collects(t, f, n)
      /\ \A f : Chain(t, f)' = Chain(t, f)
  BY <1>1 DEF Collects, LastUpTo, Chain, EnvObject
<1>5. ExternInv(t)'
  BY <1>1, <1>2, <1>4 DEF ExternInv, Linked
<1> QED
  BY <1>3, <1>5

(* A step that takes an id.                                                *)
LEMMA TakeIdKeeps ==
  ASSUME NewInv, NEW t \in Tasks, phase[t] \in {"begin", "hold", "decode"}, TakeId(t),
         guards' \subseteq Tasks \X Sections, LockInv', NothingHeldOver'
  PROVE  NewInv'
<1>1. /\ phase' = [phase EXCEPT ![t] = "kernel"] /\ id' = [id EXCEPT ![t] = counter]
      /\ counter' = counter + 1
      /\ UNCHANGED <<kind, user, left, poisoned, store, externals>>
  BY DEF TakeId, Goto
<1>2. TypeOK /\ IdInv /\ PhaseInv(t) /\ StoreInv(t) /\ ExternInv(t)
  BY DEF NewInv, TaskInv
<1>3. phase'[t] = "kernel" /\ id'[t] = counter /\ counter \in Nat
  BY <1>1, <1>2 DEF TypeOK
<1>4. IdInv' /\ \A o \in store : o.of # id'[t]
  BY <1>2, IdsTaken DEF PhaseInv
<1>5. TypeOK'
  BY <1>1, <1>2 DEF TypeOK, Phases, Sections, Writes
<1>6. Local(t)
  BY <1>1, <1>2 DEF Local, TypeOK
<1>7. PhaseInv(t)'
  BY <1>1, <1>2, <1>3 DEF PhaseInv, Linked, Attempted, NoId
<1>8. StoreInv(t)'
  BY <1>1, <1>3, <1>4 DEF StoreInv, Linked
<1>9. ExternInv(t)'
  BY <1>1, <1>2, <1>3 DEF ExternInv, Linked
<1> QED
  BY <1>4, <1>5, <1>6, <1>7, <1>8, <1>9, Frame DEF TaskInv

-----------------------------------------------------------------------------
(* The steps that only move.                                               *)
LEMMA EnterKeeps ==
  ASSUME NewInv, NEW t \in Tasks, Enter(t)
  PROVE  NewInv'
<1>1. phase[t] \in Sections /\ ~Inside(t, phase[t]) /\ Free(phase[t]) /\ OnlyMoves
  BY DEF Enter
<1>2. TypeOK /\ LockInv /\ NothingHeldOver /\ TaskInv(t)
  BY DEF NewInv
<1>3. CASE poisoned
  <2>1. Moves(t, "panicked") /\ guards' = guards /\ guards = {} /\ phase'[t] = "panicked"
    BY <1>1, <1>2, <1>3 DEF Enter, Moves, OnlyMoves, LockInv, Phases, Ended, Goto, TypeOK
  <2>2. LockInv' /\ NothingHeldOver' /\ poisoned' = poisoned
    BY <1>1, <1>2, <2>1, MoveLock DEF Moves, OnlyMoves
  <2>3. PhaseInv(t)'
    BY <2>1 DEF PhaseInv, Linked
  <2> QED
    BY <1>2, <2>1, <2>2, <2>3, MoveData, MoveKeeps DEF TypeOK
<1>4. CASE ~poisoned
  <2>1. guards' = guards \cup {<<t, phase[t]>>} /\ phase' = phase
        /\ UNCHANGED <<kind, user, left, id, counter, poisoned, store, externals>>
    BY <1>1, <1>4 DEF Enter, OnlyMoves
  <2>2. TypeOK' /\ Local(t) /\ IdInv'
    BY <1>1, <1>2, <2>1, IdsKept DEF TypeOK, Local, NewInv
  <2>3. LockInv'
    <3>1. ASSUME NEW g \in guards', NEW h \in guards', g[2] \in Writes PROVE h = g
      <4>1. CASE guards = {}
        BY <2>1, <4>1
      <4>2. CASE guards # {}
        <5>1. \A x \in guards : x[2] \in Reads /\ phase[t] \in Reads
          BY <1>1 DEF Free
        <5> QED
          BY <2>1, <3>1, <4>2, <5>1 DEF Reads, Writes
      <4> QED
        BY <4>1, <4>2
    <3> QED
      BY <1>4, <2>1, <3>1 DEF LockInv
  <2>4. NothingHeldOver'
    BY <1>2, <2>1 DEF NothingHeldOver
  <2>5. PhaseInv(t)' /\ StoreInv(t)'
    BY <1>2, <2>1 DEF TaskInv, PhaseInv, StoreInv, Exported, Attempted
  <2>6. ExternInv(t)'
    <3>1. /\ \A f, n : Collects(t, f, n)' <=> Collects(t, f, n)
          /\ \A f : Chain(t, f)' = Chain(t, f)
      BY <2>1 DEF Collects, LastUpTo, Chain, EnvObject
    <3> QED
      BY <1>2, <2>1, <3>1 DEF TaskInv, ExternInv
  <2> QED
    BY <2>2, <2>3, <2>4, <2>5, <2>6, Frame DEF TaskInv
<1> QED
  BY <1>3, <1>4

(* A section that ends without having changed anything: an error, a panic, *)
(* or a manifest's entry that is compiled.                                 *)
LEMMA EndSection ==
  ASSUME NewInv, NEW t \in Tasks, NEW q, Inside(t, phase[t]), phase[t] \in Sections,
         Moves(t, q), Leave(t), poisoned' = poisoned \/ (phase[t] \in Writes /\ poisoned'),
         poisoned' \in BOOLEAN, PhaseInv(t)', StoreInv(t)', ExternInv(t)'
  PROVE  NewInv'
<1>1. TypeOK /\ LockInv /\ NothingHeldOver
  BY DEF NewInv
<1>2. LockInv' /\ NothingHeldOver' /\ guards' \subseteq Tasks \X Sections
  BY <1>1, LeaveLock DEF Moves
<1> QED
  BY <1>2, MoveKeeps

LEMMA PanicsKeeps ==
  ASSUME NewInv, NEW t \in Tasks, Inside(t, phase[t]), phase[t] \in Writes, Panics(t)
  PROVE  NewInv'
<1>1. Moves(t, "panicked") /\ Leave(t) /\ poisoned' = TRUE /\ phase[t] \in Sections
  BY DEF Panics, Moves, Phases, Ended, Sections
<1>2. phase'[t] = "panicked"
  BY DEF Panics, Goto, NewInv, TypeOK
<1>3. PhaseInv(t)' /\ StoreInv(t)' /\ ExternInv(t)'
  BY <1>1, <1>2, MoveData DEF PhaseInv, Linked
<1> QED
  BY <1>1, <1>3, EndSection

LEMMA FailsKeeps ==
  ASSUME NewInv, NEW t \in Tasks, NEW q, Inside(t, phase[t]), Fails(t, q),
         \/ phase[t] = "call" /\ q = "called"
         \/ phase[t] = "decode" /\ q = "unloaded"
         \/ phase[t] = "load" /\ q \in {"env", "unloaded"}
         \/ phase[t] = "compile" /\ q = "unloaded"
         \/ phase[t] \in {"check", "memory", "wasi", "instance"} /\ q = "unlinked"
  PROVE  NewInv'
<1>1. Moves(t, q) /\ Leave(t) /\ poisoned' = poisoned /\ phase[t] \in Sections
  BY DEF Fails, OnlyMoves, Moves, Phases, Ended, Sections, Reads, Writes
<1>2. phase'[t] = q /\ left' = left /\ id' = id /\ user' = user /\ kind' = kind
  BY DEF Fails, Goto, NewInv, TypeOK, OnlyMoves
<1>3. PhaseInv(t) /\ poisoned \in BOOLEAN
  BY DEF NewInv, TaskInv, TypeOK
<1>4. PhaseInv(t)'
  BY <1>2, <1>3 DEF PhaseInv, Linked, Attempted
<1>5. StoreInv(t)' /\ ExternInv(t)'
  BY <1>1, <1>3, MoveData DEF Linked, PhaseInv
<1>6. poisoned' \in BOOLEAN
  BY <1>1, <1>3, Zenon
<1> QED
  BY <1>1, <1>4, <1>5, <1>6, EndSection, Zenon

(* A move from where the task has no guard, or may keep it.                *)
LEMMA MovesOut ==
  ASSUME NewInv, NEW t \in Tasks, NEW q, phase[t] \notin Sections \/ kind[t] = "held",
         Moves(t, q), guards' = guards, poisoned' = poisoned,
         PhaseInv(t)', StoreInv(t)', ExternInv(t)'
  PROVE  NewInv'
<1>1. TypeOK /\ LockInv /\ NothingHeldOver
  BY DEF NewInv
<1>2. LockInv' /\ NothingHeldOver'
  BY <1>1, MoveLock DEF Moves
<1>3. guards' \subseteq Tasks \X Sections
  BY <1>1 DEF TypeOK
<1>4. poisoned' \in BOOLEAN
  BY <1>1, Zenon DEF TypeOK
<1> QED
  BY <1>2, <1>3, <1>4, MoveKeeps

LEMMA NoSections ==
  \A p : p \in {"begin", "fetch", "link"} \cup Ended => p \notin Sections
  BY DEF Ended, Sections, Reads, Writes

LEMMA BeginKeeps ==
  ASSUME NewInv, NEW t \in Tasks, Begin(t)
  PROVE  NewInv'
<1>1. phase[t] = "begin" /\ phase[t] \notin Sections
  BY NoSections DEF Begin
<1>2. TypeOK /\ LockInv /\ NothingHeldOver /\ PhaseInv(t)
  BY DEF NewInv, TaskInv
<1>3. ASSUME NEW q \in {"call", "hold", "decode"}, Goto(t, q), guards' = guards, OnlyMoves,
             q = "hold" => kind[t] = "held"
      PROVE  NewInv'
  <2>1. Moves(t, q) /\ poisoned' = poisoned
    BY <1>3 DEF OnlyMoves, Moves, Phases, Sections, Reads, Writes
  <2>2. phase'[t] = q /\ left' = left /\ id' = id /\ user' = user /\ kind' = kind
    BY <1>2, <1>3 DEF Goto, TypeOK, OnlyMoves
  <2>3. PhaseInv(t)'
    BY <1>1, <1>2, <1>3, <2>2 DEF PhaseInv, Linked, Attempted
  <2>4. StoreInv(t)' /\ ExternInv(t)'
    BY <1>1, <1>2, <2>1, MoveData DEF PhaseInv
  <2> QED
    BY <1>1, <1>3, <2>1, <2>3, <2>4, MovesOut
<1>4. ASSUME TakeId(t), guards' = guards PROVE NewInv'
  <2>1. LockInv' /\ NothingHeldOver'
    BY <1>1, <1>2, <1>4, MoveLock DEF TakeId
  <2> QED
    BY <1>1, <1>2, <1>4, <2>1, TakeIdKeeps DEF TypeOK
<1> QED
  BY <1>3, <1>4 DEF Begin

LEMMA HoldKeeps ==
  ASSUME NewInv, NEW t \in Tasks, Hold(t)
  PROVE  NewInv'
<1>1. TypeOK /\ LockInv /\ NothingHeldOver /\ PhaseInv(t)
  BY DEF NewInv, TaskInv
<1>2. phase[t] = "hold" /\ kind[t] = "held" /\ TakeId(t) /\ guards' = guards
  BY <1>1 DEF Hold, Inside, PhaseInv
<1>3. LockInv' /\ NothingHeldOver'
  BY <1>1, <1>2, MoveLock DEF TakeId
<1> QED
  BY <1>1, <1>2, <1>3, TakeIdKeeps DEF TypeOK

LEMMA DecodeKeeps ==
  ASSUME NewInv, NEW t \in Tasks, Decode(t)
  PROVE  NewInv'
<1>1. phase[t] = "decode" /\ Inside(t, phase[t]) /\ phase[t] \in Sections
  BY DEF Decode, Inside, Sections, Reads
<1>2. ASSUME TakeId(t), Leave(t) PROVE NewInv'
  <2>1. TypeOK /\ LockInv /\ NothingHeldOver
    BY DEF NewInv
  <2>2. Goto(t, "kernel") /\ kind' = kind /\ poisoned' = poisoned
    BY <1>2 DEF TakeId
  <2>3. LockInv' /\ NothingHeldOver' /\ guards' \subseteq Tasks \X Sections
    BY <1>1, <1>2, <2>1, <2>2, LeaveLock
  <2> QED
    BY <1>1, <1>2, <2>3, TakeIdKeeps
<1>3. ASSUME Fails(t, "unloaded") PROVE NewInv'
  BY <1>1, <1>3, FailsKeeps
<1> QED
  BY <1>2, <1>3 DEF Decode

LEMMA CallKeeps ==
  ASSUME NewInv, NEW t \in Tasks, Call(t)
  PROVE  NewInv'
<1>1. phase[t] = "call" /\ Inside(t, phase[t]) /\ phase[t] \in Writes
  BY DEF Call, Inside, Writes
<1> QED
  BY <1>1, FailsKeeps, PanicsKeeps DEF Call

LEMMA LoadKeeps ==
  ASSUME NewInv, NEW t \in Tasks, Load(t)
  PROVE  NewInv'
<1>1. phase[t] = "load" /\ Inside(t, phase[t])
  BY DEF Load, Inside
<1> QED
  BY <1>1, FailsKeeps DEF Load

LEMMA FetchKeeps ==
  ASSUME NewInv, NEW t \in Tasks, Fetch(t) \/ Cancel(t)
  PROVE  NewInv'
<1>1. phase[t] = "fetch" /\ phase[t] \notin Sections /\ guards' = guards /\ OnlyMoves
  BY NoSections DEF Fetch, Cancel
<1>2. PICK q \in {"env", "compile", "unloaded", "cancelled"} :
        Goto(t, q) /\ (q = "env" => left[t] = 0) /\ (q = "compile" => left[t] > 0)
  BY DEF Fetch, Cancel
<1>3. Moves(t, q) /\ poisoned' = poisoned
  BY <1>1, <1>2 DEF OnlyMoves, Moves, Phases, Sections, Reads, Writes, Ended
<1>4. phase'[t] = q /\ left' = left /\ id' = id /\ user' = user /\ kind' = kind
  BY <1>1, <1>2 DEF Goto, NewInv, TypeOK, OnlyMoves
<1>5. PhaseInv(t)'
  BY <1>1, <1>2, <1>4 DEF NewInv, TaskInv, PhaseInv, Linked, Attempted
<1>6. StoreInv(t)' /\ ExternInv(t)'
  BY <1>1, <1>2, <1>3, MoveData
<1> QED
  BY <1>1, <1>3, <1>5, <1>6, MovesOut

LEMMA LinkOnKeeps ==
  ASSUME NewInv, NEW t \in Tasks, LinkOn(t)
  PROVE  NewInv'
<1>1. phase[t] = "link" /\ phase[t] \notin Sections /\ guards' = guards /\ OnlyMoves
  BY NoSections DEF LinkOn
<1>2. PICK q \in Linked : Goto(t, q) /\ (q \notin {"returned", "unlinked"} => left[t] > 0)
  BY DEF LinkOn, Linked
<1>3. Moves(t, q) /\ poisoned' = poisoned
  BY <1>1, <1>2 DEF OnlyMoves, Moves, Phases, Sections, Reads, Writes, Ended, Linked
<1>4. phase'[t] = q /\ left' = left /\ id' = id /\ user' = user /\ kind' = kind
  BY <1>1, <1>2 DEF Goto, NewInv, TypeOK, OnlyMoves
<1>5. PhaseInv(t)'
  BY <1>1, <1>2, <1>4 DEF NewInv, TaskInv, PhaseInv, Linked, Attempted
<1>6. StoreInv(t)' /\ ExternInv(t)'
  BY <1>1, <1>2, <1>3, MoveData DEF Linked
<1> QED
  BY <1>1, <1>3, <1>5, <1>6, MovesOut

(* A section of loading or of linking that is through counts one less.     *)
LEMMA CountsDown ==
  ASSUME NewInv, NEW t \in Tasks, NEW q, Inside(t, phase[t]), Goto(t, q), Leave(t),
         Count(t, left[t] - 1),
         UNCHANGED <<kind, user, id, counter, poisoned, store, externals>>,
         \/ phase[t] = "compile" /\ q = "fetch"
         \/ phase[t] = "check" /\ q = "link"
  PROVE  NewInv'
<1>1. TypeOK /\ PhaseInv(t) /\ phase[t] \in Sections
  BY DEF NewInv, TaskInv, Sections, Reads
<1>2. left[t] - 1 \in Nat
  BY <1>1 DEF TypeOK, PhaseInv
<1>3. Moves(t, q)
  BY <1>2 DEF Moves, Phases
<1>4. phase'[t] = q /\ left'[t] = left[t] - 1
  BY <1>1 DEF TypeOK, Goto, Count
<1>5. PhaseInv(t)'
  BY <1>1, <1>4 DEF PhaseInv, Linked, Attempted
<1>6. StoreInv(t)' /\ ExternInv(t)'
  BY <1>3, MoveData DEF Linked
<1>7. poisoned' \in BOOLEAN
  BY <1>1, Zenon DEF TypeOK
<1> QED
  BY <1>1, <1>3, <1>5, <1>6, <1>7, EndSection

LEMMA CompileCheckKeep ==
  ASSUME NewInv, NEW t \in Tasks, Compile(t) \/ Check(t)
  PROVE  NewInv'
  BY CountsDown, FailsKeeps DEF Compile, Check, Inside

-----------------------------------------------------------------------------
(* The steps that put something into the store.                            *)
LEMMA MakesKeeps ==
  ASSUME NewInv, NEW t \in Tasks, NEW q \in Phases, NEW n \in Nat, NEW f,
         Inside(t, phase[t]), phase[t] \in Writes, Attempted(t), Makes(t, q),
         left' = [left EXCEPT ![t] = n],
         DOMAIN externals' = Tasks, externals'[t] = f, Table(f, Keys, Objects),
         \A u \in Tasks \ {t} : externals'[u] = externals[u],
         PhaseInv(t)', StoreInv(t)', ExternInv(t)'
  PROVE  NewInv'
<1>1. TypeOK /\ LockInv /\ NothingHeldOver /\ IdInv /\ phase[t] \in Sections
  BY DEF NewInv, Sections
<1>2. /\ store' = store \cup {Put(t, phase[t])} /\ Goto(t, q) /\ Leave(t)
      /\ UNCHANGED <<kind, user, id, counter, poisoned>>
  BY DEF Makes
<1>3. LockInv' /\ NothingHeldOver' /\ guards' \subseteq Tasks \X Sections
  BY <1>1, <1>2, LeaveLock
<1>4. id[t] \in Nat /\ left[t] \in Nat
  BY <1>1 DEF IdInv, TypeOK
<1>5. Put(t, phase[t]) \in Objects /\ Put(t, phase[t]).of = id[t]
  BY <1>4 DEF Put, Objects
<1>6. TypeOK'
  <2>1. \A u \in Tasks : Table(externals'[u], Keys, Objects)
    BY <1>1 DEF TypeOK
  <2>2. poisoned' \in BOOLEAN
    BY <1>1, <1>2, Zenon DEF TypeOK
  <2> QED
    BY <1>1, <1>2, <1>3, <1>5, <2>1, <2>2 DEF TypeOK, Goto
<1>7. IdInv'
  BY <1>1, <1>2, <1>5, IdsKept
<1>8. Local(t)
  BY <1>1, <1>2, <1>5 DEF Local, TypeOK, Goto, Attempted
<1> QED
  BY <1>3, <1>6, <1>7, <1>8, Frame DEF TaskInv

LEMMA MakeKernelKeeps ==
  ASSUME NewInv, NEW t \in Tasks, MakeKernel(t)
  PROVE  NewInv'
<1>1. phase[t] = "kernel" /\ Inside(t, phase[t]) /\ phase[t] \in Writes
  BY DEF MakeKernel, Inside, Writes
<1>2. TypeOK /\ PhaseInv(t) /\ StoreInv(t) /\ ExternInv(t)
  BY DEF NewInv, TaskInv
<1>3. Attempted(t) /\ left[t] = 0 /\ \A o \in store : o.of # id[t]
  BY <1>1, <1>2 DEF PhaseInv, StoreInv
<1>4. ASSUME NEW q \in {"load", "fetch", "env"}, NEW n \in Nat, Makes(t, q),
             externals' = externals, left' = [left EXCEPT ![t] = n],
             q # "fetch" => n = 0
      PROVE  NewInv'
  <2>1. /\ phase'[t] = q /\ left'[t] = n /\ id' = id /\ user' = user /\ kind' = kind
        /\ store' = store \cup {Put(t, "kernel")}
    BY <1>1, <1>2, <1>4 DEF Makes, Goto, TypeOK
  <2>2. Put(t, "kernel") = Object(id[t], "kernel", 0)
    BY <1>3 DEF Put, Object
  <2>3. PhaseInv(t)'
    BY <1>3, <1>4, <2>1 DEF PhaseInv, Linked, Attempted
  <2>4. StoreInv(t)'
    <3>1. \A o \in store' : o.of = id[t] => o = Object(id[t], "kernel", 0)
      BY <1>3, <2>1, <2>2
    <3>2. Object(id[t], "kernel", 0) \in store'
      BY <2>1, <2>2
    <3> QED
      BY <1>4, <2>1, <3>1, <3>2 DEF StoreInv, Linked, Object
  <2>5. ExternInv(t)'
    BY <1>1, <1>2, <1>4, <2>1 DEF ExternInv, Linked
  <2>6. DOMAIN externals' = Tasks /\ externals'[t] = externals[t] /\ Table(externals[t], Keys, Objects)
    BY <1>2, <1>4 DEF TypeOK
  <2>7. q \in Phases
    BY DEF Phases, Sections, Reads, Writes
  <2> QED
    BY <1>1, <1>3, <1>4, <2>3, <2>4, <2>5, <2>6, <2>7, MakesKeeps
<1>5. left = [left EXCEPT ![t] = 0]
  BY <1>2, <1>3 DEF TypeOK
<1>6. 0..MaxEntries \subseteq Nat
  OBVIOUS
<1>7. CASE Panics(t)
  BY <1>1, <1>7, PanicsKeeps
<1>8. CASE ~Panics(t)
  BY <1>4, <1>5, <1>6, <1>8 DEF MakeKernel, Count
<1> QED
  BY <1>7, <1>8

(* Memory::new and Instance::new add what linking makes of no interest to  *)
(* what can be imported.                                                   *)
LEMMA MakeLinkedKeeps ==
  ASSUME NewInv, NEW t \in Tasks, MakeImport(t) \/ MakeInstance(t)
  PROVE  NewInv'
<1>1. phase[t] \in {"memory", "wasi", "instance"} /\ Inside(t, phase[t]) /\ phase[t] \in Writes
  BY DEF MakeImport, MakeInstance, Inside, Writes
<1>2. TypeOK /\ PhaseInv(t) /\ StoreInv(t) /\ ExternInv(t)
  BY DEF NewInv, TaskInv
<1>3. ASSUME Makes(t, "link"), Count(t, left[t] - 1), externals' = externals
      PROVE  NewInv'
  <2>1. left[t] - 1 \in Nat /\ Attempted(t)
    BY <1>1, <1>2 DEF TypeOK, PhaseInv, Linked
  <2>2. /\ phase'[t] = "link" /\ id' = id /\ user' = user /\ kind' = kind
        /\ store' = store \cup {Put(t, phase[t])}
    BY <1>2, <1>3 DEF Makes, Goto, TypeOK
  <2>3. PhaseInv(t)'
    BY <2>1, <2>2 DEF PhaseInv, Linked, Attempted
  <2>4. StoreInv(t)'
    <3>1. Put(t, phase[t]).made \notin {"kernel", "env", "export"}
      BY <1>1 DEF Put
    <3> QED
      BY <1>1, <1>2, <2>2, <3>1 DEF StoreInv, Linked, Exported
  <2>5. ExternInv(t)'
    <3>1. /\ \A f, n : Collects(t, f, n)' <=> Collects(t, f, n)
          /\ \A f : Chain(t, f)' = Chain(t, f)
      BY <2>2 DEF Collects, LastUpTo, Chain, EnvObject
    <3> QED
      BY <1>1, <1>2, <1>3, <2>2, <3>1 DEF ExternInv, Linked
  <2>6. DOMAIN externals' = Tasks /\ externals'[t] = externals[t] /\ Table(externals[t], Keys, Objects)
    BY <1>2, <1>3 DEF TypeOK
  <2>7. "link" \in Phases
    BY DEF Phases
  <2> QED
    BY <1>1, <1>3, <2>1, <2>3, <2>4, <2>5, <2>6, <2>7, MakesKeeps DEF Count
<1>4. ASSUME Fails(t, "unlinked") PROVE NewInv'
  BY <1>1, <1>4, FailsKeeps
<1>5. ASSUME Panics(t) PROVE NewInv'
  BY <1>1, <1>5, PanicsKeeps
<1> QED
  BY <1>3, <1>4, <1>5 DEF MakeImport, MakeInstance

-----------------------------------------------------------------------------
(* The map of the externals, one export at a time.                         *)
LEMMA CollectsNext ==
  ASSUME NEW t \in Tasks, NEW f, NEW n \in Nat, Collects(t, f, n)
  PROVE  Collects(t, Insert(f, user[t][n + 1], Object(id[t], "export", n + 1)), n + 1)
<1> DEFINE k == user[t][n + 1]
           o == Object(id[t], "export", n + 1)
           g == Insert(f, k, o)
<1>1. 1..(n + 1) = 1..n \cup {n + 1} /\ 1..n \subseteq Nat
  OBVIOUS
<1>2. DOMAIN g = DOMAIN f \cup {k} /\ g[k] = o /\ \A y \in DOMAIN f \ {k} : g[y] = f[y]
  BY DEF Insert
<1>3. DOMAIN g = {user[t][j] : j \in 1..(n + 1)}
  <2>1. {user[t][j] : j \in 1..n \cup {n + 1}} = {user[t][j] : j \in 1..n} \cup {user[t][n + 1]}
    OBVIOUS
  <2>2. DOMAIN g = {user[t][j] : j \in 1..n} \cup {k}
    BY <1>2 DEF Collects
  <2> QED
    BY <1>1, <2>1, <2>2
<1>4. LastUpTo(t, k, n + 1, n + 1)
  BY DEF LastUpTo
<1>5. ASSUME NEW y \in DOMAIN f \ {k}
      PROVE  \E j \in 1..(n + 1) : LastUpTo(t, y, n + 1, j) /\ g[y] = Object(id[t], "export", j)
  <2>1. PICK j \in 1..n : LastUpTo(t, y, n, j) /\ f[y] = Object(id[t], "export", j)
    BY DEF Collects
  <2>2. LastUpTo(t, y, n + 1, j)
    BY <1>1, <1>5, <2>1 DEF LastUpTo
  <2> QED
    BY <1>1, <1>2, <2>1, <2>2
<1>6. n + 1 \in 1..(n + 1)
  OBVIOUS
<1>7. \A y \in DOMAIN g :
        \E j \in 1..(n + 1) : LastUpTo(t, y, n + 1, j) /\ g[y] = Object(id[t], "export", j)
  BY <1>2, <1>4, <1>5, <1>6
<1> QED
  BY <1>3, <1>7 DEF Collects

LEMMA CollectsNone ==
  ASSUME NEW t \in Tasks, NEW f, DOMAIN f = {}
  PROVE  Collects(t, f, 0)
  BY DEF Collects

LEMMA ExternalTables ==
  ASSUME NEW t \in Tasks, NEW f, Table(f, Keys, Objects), id[t] \in Nat
  PROVE  /\ Table(Chain(t, f), Keys, Objects)
         /\ \A k \in Keys, o \in Objects : Table(Insert(f, k, o), Keys, Objects)
<1>1. EnvKeys \subseteq Keys
  BY NewAssumption DEF EnvKeys, Keys
<1>2. \A k \in EnvKeys : EnvObject(t, k) \in Objects
  BY DEF EnvObject, Objects, Writes
<1>3. Table(Chain(t, f), Keys, Objects)
  BY <1>1, <1>2 DEF Table, Chain
<1>4. ASSUME NEW k \in Keys, NEW o \in Objects PROVE Table(Insert(f, k, o), Keys, Objects)
  BY DEF Table, Insert
<1> QED
  BY <1>3, <1>4

(* Linking starts when all exports are collected and all is in the store.  *)
LEMMA StartsLinking ==
  ASSUME NewInv, NEW t \in Tasks, NEW f, Inside(t, phase[t]), phase[t] \in {"env", "export"},
         Makes(t, "link"), StartLinking(t, f), Table(f, Keys, Objects),
         Collects(t, f, Len(user[t])), Attempted(t),
         store' = store \cup {Put(t, phase[t])},
         Object(id[t], "kernel", 0) \in store', Object(id[t], "env", 0) \in store',
         \A o \in store' : o.of = id[t] /\ o.made \in {"kernel", "env"} => o.nth = 0,
         \A o \in store' : o.of = id[t] /\ o.made = "export" => o.nth \in 1..Len(user[t]),
         \A n \in 1..Len(user[t]) : Object(id[t], "export", n) \in store'
  PROVE  NewInv'
<1>1. TypeOK /\ IdInv /\ phase[t] \in Writes /\ "link" \in Phases
  BY DEF NewInv, Writes, Phases
<1>2. PICK n \in 0..MaxSections : Count(t, n)
  BY DEF StartLinking
<1>3. phase'[t] = "link" /\ id' = id /\ user' = user /\ kind' = kind
  BY <1>1 DEF Makes, Goto, TypeOK
<1>4. /\ DOMAIN externals' = Tasks /\ externals'[t] = Chain(t, f)
      /\ \A u \in Tasks \ {t} : externals'[u] = externals[u]
  BY <1>1 DEF StartLinking, TypeOK
<1>5. Table(Chain(t, f), Keys, Objects)
  BY <1>1, ExternalTables DEF IdInv
<1>6. PhaseInv(t)'
  BY <1>3 DEF PhaseInv, Linked, Attempted
<1>7. StoreInv(t)'
  BY <1>3 DEF StoreInv, Linked, Exported
<1>8. ExternInv(t)'
  <2> DEFINE N == Len(user[t])
  <2>1. N' = N
    BY <1>3
  <2>2. \A g, k : Collects(t, g, k)' <=> Collects(t, g, k)
    BY <1>3 DEF Collects, LastUpTo
  <2>3. \A g : Chain(t, g)' = Chain(t, g)
    BY <1>3 DEF Chain, EnvObject
  <2>4. Collects(t, f, N)' /\ externals'[t] = Chain(t, f)'
    BY <1>4, <2>1, <2>2, <2>3
  <2> QED
    BY <1>3, <2>4 DEF ExternInv, Linked
<1>9. left' = [left EXCEPT ![t] = n] /\ n \in Nat
  BY <1>2 DEF Count
<1> QED
  BY <1>1, <1>4, <1>5, <1>6, <1>7, <1>8, <1>9, MakesKeeps

LEMMA UserLists ==
  ASSUME TypeOK, NEW t \in Tasks
  PROVE  /\ Len(user[t]) \in Nat /\ DOMAIN user[t] = 1..Len(user[t])
         /\ \A j \in 1..Len(user[t]) : user[t][j] \in Keys
         /\ (user[t] # <<>> <=> Len(user[t]) > 0)
<1>1. user[t] \in Seq(Keys)
  BY NewAssumption DEF TypeOK
<1> QED
  BY <1>1

LEMMA MakeEnvKeeps ==
  ASSUME NewInv, NEW t \in Tasks, MakeEnv(t)
  PROVE  NewInv'
<1>1. phase[t] = "env" /\ Inside(t, phase[t]) /\ phase[t] \in Writes
  BY DEF MakeEnv, Inside, Writes
<1>2. TypeOK /\ IdInv /\ PhaseInv(t) /\ StoreInv(t) /\ ExternInv(t)
  BY DEF NewInv, TaskInv
<1>3. Attempted(t) /\ left[t] = 0 /\ DOMAIN externals[t] = {}
  BY <1>1, <1>2 DEF PhaseInv, ExternInv
<1>4. /\ Object(id[t], "kernel", 0) \in store
      /\ \A o \in store : o.of = id[t] => o.made = "kernel" /\ o.nth = 0
  BY <1>1, <1>2, <1>3 DEF StoreInv
<1>5. store' = store \cup {Object(id[t], "env", 0)}
  BY <1>1, <1>3 DEF MakeEnv, Makes, Put, Object
<1>6. /\ Object(id[t], "kernel", 0) \in store' /\ Object(id[t], "env", 0) \in store'
      /\ \A o \in store' : o.of = id[t] => o.made \in {"kernel", "env"} /\ o.nth = 0
  BY <1>4, <1>5 DEF Object
<1>7. CASE user[t] = <<>> /\ Makes(t, "link") /\ StartLinking(t, <<>>)
  <2>1. Len(user[t]) = 0 /\ DOMAIN <<>> = {}
    BY <1>7
  <2>2. Table(<<>>, Keys, Objects)
    BY <2>1 DEF Table
  <2>3. Collects(t, <<>>, Len(user[t]))
    BY <2>1, CollectsNone
  <2>4. store' = store \cup {Put(t, phase[t])}
    BY <1>7 DEF Makes
  <2>5. \A n \in 1..Len(user[t]) : Object(id[t], "export", n) \in store'
    BY <2>1
  <2> QED
    BY <1>1, <1>3, <1>6, <1>7, <2>2, <2>3, <2>4, <2>5, StartsLinking
<1>8. CASE user[t] # <<>> /\ Makes(t, "export") /\ Count(t, 1) /\ externals' = externals
  <2>1. phase'[t] = "export" /\ left'[t] = 1 /\ id' = id /\ user' = user /\ kind' = kind
    BY <1>2, <1>8 DEF Makes, Goto, Count, TypeOK
  <2>2. PhaseInv(t)'
    <3>1. 1 \in 1..Len(user[t])
      BY <1>2, <1>8, UserLists
    <3> QED
      BY <1>3, <2>1, <3>1 DEF PhaseInv, Linked, Attempted
  <2>3. StoreInv(t)'
    BY <1>6, <2>1 DEF StoreInv, Linked, Exported
  <2>4. ExternInv(t)'
    <3>1. Collects(t, externals[t], 0)
      BY <1>3, CollectsNone
    <3>2. left'[t] - 1 = 0
      BY <2>1
    <3>3. \A g, n : Collects(t, g, n)' <=> Collects(t, g, n)
      BY <2>1 DEF Collects, LastUpTo
    <3>4. Collects(t, externals[t], left[t] - 1)'
      BY <1>8, <3>1, <3>2, <3>3
    <3> QED
      BY <2>1, <3>4 DEF ExternInv, Linked
  <2>5. DOMAIN externals' = Tasks /\ externals'[t] = externals[t] /\ Table(externals[t], Keys, Objects)
    BY <1>2, <1>8 DEF TypeOK
  <2>6. "export" \in Phases
    BY DEF Phases, Sections, Writes
  <2> QED
    BY <1>1, <1>3, <1>8, <2>2, <2>3, <2>4, <2>5, <2>6, MakesKeeps DEF Count
<1> QED
  BY <1>7, <1>8 DEF MakeEnv

LEMMA MakeExportKeeps ==
  ASSUME NewInv, NEW t \in Tasks, MakeExport(t)
  PROVE  NewInv'
<1> DEFINE n == left[t]
           o == Object(id[t], "export", n)
           f == Insert(externals[t], user[t][n], o)
<1>1. phase[t] = "export" /\ Inside(t, phase[t]) /\ phase[t] \in Writes
  BY DEF MakeExport, Inside, Writes
<1>2. TypeOK /\ IdInv /\ PhaseInv(t) /\ StoreInv(t) /\ ExternInv(t)
  BY DEF NewInv, TaskInv
<1>3. Attempted(t) /\ id[t] \in Nat /\ n \in 1..Len(user[t]) /\ Len(user[t]) \in Nat
      /\ n \in Nat /\ n - 1 \in Nat /\ (n - 1) + 1 = n
  BY <1>1, <1>2, UserLists DEF PhaseInv, IdInv
<1>4. /\ store' = store \cup {o} /\ store' = store \cup {Put(t, phase[t])}
      /\ UNCHANGED <<kind, user, id>>
  BY <1>1 DEF MakeExport, Makes, Put, Object
<1>5. Collects(t, f, n)
  BY <1>1, <1>2, <1>3, CollectsNext DEF ExternInv
<1>6. Table(externals[t], Keys, Objects) /\ user[t][n] \in Keys /\ o \in Objects
  BY <1>2, <1>3, UserLists DEF TypeOK, Object, Objects, Writes
<1>7. Table(f, Keys, Objects)
  BY <1>3, <1>6, ExternalTables
<1>8. /\ Object(id[t], "kernel", 0) \in store' /\ Object(id[t], "env", 0) \in store'
      /\ \A x \in store' : x.of = id[t] /\ x.made \in {"kernel", "env"} => x.nth = 0
  BY <1>1, <1>2, <1>4 DEF StoreInv, Object
<1>9. \A x \in store' : x.of = id[t] /\ x.made = "export" => x.nth \in 1..n
  BY <1>1, <1>2, <1>3, <1>4 DEF StoreInv, Exported, Object
<1>10. \A j \in 1..n : Object(id[t], "export", j) \in store'
  <2>1. \A j \in 1..n : j \in 1..(n - 1) \/ j = n
    BY <1>3
  <2> QED
    BY <1>1, <1>2, <1>4, <2>1 DEF StoreInv
<1>11. f = Insert(externals[t], user[t][left[t]], Put(t, "export"))
  BY DEF Put, Object
<1> HIDE DEF n, o, f
<1>12. CASE n = Len(user[t]) /\ Makes(t, "link") /\ StartLinking(t, f)
  BY <1>1, <1>3, <1>4, <1>5, <1>7, <1>8, <1>9, <1>10, <1>12, StartsLinking
<1>13. CASE /\ n < Len(user[t]) /\ Makes(t, "export") /\ Count(t, n + 1)
            /\ externals' = [externals EXCEPT ![t] = f]
  <2>1. phase'[t] = "export" /\ left'[t] = n + 1 /\ id' = id /\ user' = user /\ kind' = kind
    BY <1>2, <1>13 DEF Makes, Goto, Count, TypeOK
  <2>2. n + 1 \in 1..Len(user[t]) /\ n + 1 \in Nat /\ (n + 1) - 1 = n
    BY <1>3, <1>13
  <2>3. PhaseInv(t)'
    BY <1>3, <2>1, <2>2 DEF PhaseInv, Linked, Attempted
  <2>4. StoreInv(t)'
    BY <1>8, <1>9, <1>10, <2>1, <2>2 DEF StoreInv, Linked, Exported
  <2>5. DOMAIN externals' = Tasks /\ externals'[t] = f
        /\ \A u \in Tasks \ {t} : externals'[u] = externals[u]
    BY <1>2, <1>13 DEF TypeOK
  <2>6. ExternInv(t)'
    <3>1. \A g, m : Collects(t, g, m)' <=> Collects(t, g, m)
      BY <2>1 DEF Collects, LastUpTo
    <3>2. Collects(t, externals[t], left[t] - 1)'
      BY <1>5, <2>1, <2>2, <2>5, <3>1
    <3> QED
      BY <2>1, <3>2 DEF ExternInv, Linked
  <2>7. "export" \in Phases
    BY DEF Phases, Sections, Writes
  <2> QED
    BY <1>1, <1>3, <1>7, <1>13, <2>2, <2>3, <2>4, <2>5, <2>6, <2>7, MakesKeeps DEF Count
<1> QED
  BY <1>11, <1>12, <1>13 DEF MakeExport, n

-----------------------------------------------------------------------------
LEMMA NewInit == Init => NewInv
<1> SUFFICES ASSUME Init PROVE NewInv
  OBVIOUS
<1>1. TypeOK
  <2>1. DOMAIN <<>> = {}
    OBVIOUS
  <2>2. Table(<<>>, Keys, Objects)
    BY <2>1 DEF Table
  <2>3. poisoned \in BOOLEAN
    BY Zenon DEF Init
  <2> QED
    BY <2>2, <2>3 DEF Init, TypeOK, Phases, NoId
<1>2. LockInv /\ NothingHeldOver /\ IdInv
  BY DEF Init, LockInv, NothingHeldOver, IdInv, Attempted
<1>3. ASSUME NEW t \in Tasks PROVE TaskInv(t)
  <2>1. phase[t] = "begin" /\ left[t] = 0 /\ id[t] = NoId /\ DOMAIN externals[t] = {}
    BY <1>3 DEF Init
  <2> QED
    BY <2>1 DEF TaskInv, PhaseInv, StoreInv, ExternInv, Attempted, Linked
<1> QED
  BY <1>1, <1>2, <1>3 DEF NewInv

LEMMA StepKeeps ==
  ASSUME NewInv, NEW t \in Tasks, Step(t) \/ Cancel(t)
  PROVE  NewInv'
  BY BeginKeeps, EnterKeeps, CallKeeps, HoldKeeps, DecodeKeeps, MakeKernelKeeps, LoadKeeps,
     FetchKeeps, CompileCheckKeep, MakeEnvKeeps, MakeExportKeeps, LinkOnKeeps,
     MakeLinkedKeeps
  DEF Step

LEMMA NewStutter == NewInv /\ UNCHANGED vars => NewInv'
<1> SUFFICES ASSUME NewInv, UNCHANGED vars PROVE NewInv'
  OBVIOUS
<1>1. UNCHANGED <<kind, user, phase, left, id, counter, guards, poisoned, store, externals>>
  BY DEF vars
<1>2. TypeOK' /\ LockInv' /\ NothingHeldOver' /\ IdInv'
  BY <1>1 DEF NewInv, TypeOK, LockInv, NothingHeldOver, IdInv, Attempted
<1>3. ASSUME NEW t \in Tasks PROVE TaskInv(t)'
  <2>1. PhaseInv(t)' /\ StoreInv(t)'
    BY <1>1 DEF NewInv, TaskInv, PhaseInv, StoreInv, Exported, Attempted
  <2>2. /\ \A f, n : Collects(t, f, n)' <=> Collects(t, f, n)
        /\ \A f : Chain(t, f)' = Chain(t, f)
    BY <1>1 DEF Collects, LastUpTo, Chain, EnvObject
  <2> QED
    BY <1>1, <2>1, <2>2 DEF NewInv, TaskInv, ExternInv
<1> QED
  BY <1>2, <1>3 DEF NewInv

LEMMA NewInvariant == Spec => []NewInv
<1>1. NewInv /\ [Next]_vars => NewInv'
  BY StepKeeps, NewStutter DEF Next, Finished
<1> QED
  BY <1>1, NewInit, PTL DEF Spec

-----------------------------------------------------------------------------
(* Every construction keeps its state in shape, in every interleaving.     *)
THEOREM NewTypeCorrect == Spec => []TypeOK
<1>1. NewInv => TypeOK
  BY DEF NewInv
<1> QED
  BY <1>1, NewInvariant, PTL

(* No guard of the store outlives the section that took it, whatever the   *)
(* sections of other constructions and calls between: Plugin::new and      *)
(* load_manifest never wait with a guard in their hands.                   *)
THEOREM NothingIsHeldOver == Spec => []NothingHeldOver
<1>1. NewInv => NothingHeldOver
  BY DEF NewInv
<1> QED
  BY <1>1, NewInvariant, PTL

(* new_plugin_id gives no id twice, and all that is in the store was made  *)
(* for one of the constructions.                                           *)
THEOREM IdsAreUnique == Spec => []Identities
<1>1. NewInv => Identities
  BY DEF NewInv, IdInv, Identities
<1> QED
  BY <1>1, NewInvariant, PTL

(* What a construction leaves in the store: its kernel if it ended while   *)
(* loading, and its kernel, its host environment and every export of the   *)
(* program if it ended while linking.                                      *)
THEOREM LeftoversAreKnown == Spec => []Leftovers
<1>1. NewInv => Leftovers
  <2> SUFFICES ASSUME NewInv, NEW t \in Tasks
               PROVE  /\ phase[t] \in {"unloaded", "cancelled"} => \A o \in Of(t) : o.made = "kernel"
                      /\ phase[t] \in {"unlinked", "returned"} =>
                           /\ Left(t, "kernel") = {0} /\ Left(t, "env") = {0}
                           /\ Left(t, "export") = 1..Len(user[t])
    BY DEF Leftovers
  <2>1. PhaseInv(t) /\ StoreInv(t)
    BY DEF NewInv, TaskInv
  <2>2. phase[t] \in {"unloaded", "cancelled"} => \A o \in Of(t) : o.made = "kernel"
    BY <2>1 DEF StoreInv, Of
  <2>3. ASSUME phase[t] \in {"unlinked", "returned"}
        PROVE  /\ Left(t, "kernel") = {0} /\ Left(t, "env") = {0}
               /\ Left(t, "export") = 1..Len(user[t])
    <3>1. Attempted(t)
      BY <2>1, <2>3 DEF PhaseInv, Linked
    <3>2. /\ Object(id[t], "kernel", 0) \in Of(t) /\ Object(id[t], "env", 0) \in Of(t)
          /\ \A o \in Of(t) : o.made \in {"kernel", "env"} => o.nth = 0
          /\ \A o \in Of(t) : o.made = "export" => o.nth \in 1..Len(user[t])
          /\ \A n \in 1..Len(user[t]) : Object(id[t], "export", n) \in Of(t)
      BY <2>1, <2>3, <3>1 DEF StoreInv, Linked, Of, Object, Exported
    <3>3. \A n, m : Object(id[t], m, n).made = m /\ Object(id[t], m, n).nth = n
      BY DEF Object
    <3>4. Left(t, "kernel") = {0} /\ Left(t, "env") = {0}
      BY <3>2, <3>3 DEF Left
    <3>5. Left(t, "export") = 1..Len(user[t])
      BY <3>2, <3>3 DEF Left
    <3> QED
      BY <3>4, <3>5
  <2> QED
    BY <2>2, <2>3
<1> QED
  BY <1>1, NewInvariant, PTL

(* The program's exports never hide the host environment from a plugin's   *)
(* modules, the last of equal names counts, and all that can be imported   *)
(* was made for this plugin.                                               *)
THEOREM ExternalsAreResolved == Spec => []ExternalsResolve
<1>1. NewInv => ExternalsResolve
  <2> SUFFICES ASSUME NewInv, NEW t \in Tasks, phase[t] \in Linked
               PROVE  /\ DOMAIN externals[t] = EnvKeys \cup UserKeys(t)
                      /\ \A k \in EnvKeys : externals[t][k] = EnvObject(t, k)
                      /\ \A k \in UserKeys(t) \ EnvKeys :
                           /\ externals[t][k].made = "export"
                           /\ externals[t][k].nth = LastOf(user[t], k)
                      /\ \A k \in DOMAIN externals[t] : externals[t][k] \in Of(t)
    BY DEF ExternalsResolve, Linking, Linked
  <2> DEFINE N == Len(user[t])
  <2>1. PICK f : Collects(t, f, N) /\ externals[t] = Chain(t, f)
    BY DEF NewInv, TaskInv, ExternInv
  <2>2. DOMAIN f = UserKeys(t)
    BY <2>1 DEF Collects, UserKeys
  <2>3. /\ DOMAIN externals[t] = EnvKeys \cup UserKeys(t)
        /\ \A k \in EnvKeys : externals[t][k] = EnvObject(t, k)
        /\ \A k \in UserKeys(t) \ EnvKeys : externals[t][k] = f[k]
    BY <2>1, <2>2 DEF Chain
  <2>4. /\ Attempted(t) /\ Object(id[t], "kernel", 0) \in Of(t)
        /\ Object(id[t], "env", 0) \in Of(t)
        /\ \A n \in 1..N : Object(id[t], "export", n) \in Of(t)
    BY DEF NewInv, TaskInv, PhaseInv, StoreInv, Of, Object, Linked
  <2>5. ASSUME NEW k \in UserKeys(t) \ EnvKeys
        PROVE  /\ externals[t][k] \in Of(t) /\ externals[t][k].made = "export"
               /\ externals[t][k].nth = LastOf(user[t], k)
    <3>1. PICK j \in 1..N : LastUpTo(t, k, N, j) /\ f[k] = Object(id[t], "export", j)
      BY <2>1, <2>2 DEF Collects
    <3>2. \A i \in 1..N : (user[t][i] = k /\ \A h \in 1..N : user[t][h] = k => h <= i) => i = j
      BY <3>1 DEF LastUpTo
    <3>3. LastOf(user[t], k) = j
      BY <3>1, <3>2 DEF LastOf, LastUpTo
    <3> QED
      BY <2>3, <2>4, <3>1, <3>3 DEF Object
  <2>6. \A k \in EnvKeys : EnvObject(t, k) \in Of(t)
    BY <2>4 DEF EnvObject, Object
  <2> QED
    BY <2>3, <2>5, <2>6
<1> QED
  BY <1>1, NewInvariant, PTL

(* A panic under the write guard ends the context for good: poisoned, the  *)
(* lock is free and stays so, and nothing gets into the store any more.    *)
THEOREM PoisonStays == Spec => PoisonIsFinal
<1>1. NewInv /\ [Next]_vars => [poisoned => poisoned' /\ store' = store]_vars
  <2> SUFFICES ASSUME NewInv, Next, poisoned PROVE poisoned' /\ store' = store
    BY DEF vars
  <2>1. guards = {}
    BY DEF NewInv, LockInv
  <2>2. ASSUME NEW t \in Tasks, Step(t) \/ Cancel(t) PROVE poisoned' /\ store' = store
    <3>1. \A p : ~Inside(t, p)
      BY <2>1 DEF Inside
    <3>2. Begin(t) \/ Enter(t) \/ Fetch(t) \/ Cancel(t) \/ LinkOn(t)
      BY <2>2, <3>1 DEF Step, Call, Hold, Decode, MakeKernel, Load, Compile, MakeEnv,
                        MakeExport, Check, MakeImport, MakeInstance
    <3> QED
      BY <3>2 DEF Begin, Enter, Fetch, Cancel, LinkOn, TakeId, OnlyMoves
  <2> QED
    BY <2>2 DEF Next, Finished, vars
<1> QED
  BY <1>1, NewInvariant, PTL DEF Spec, PoisonIsFinal

-----------------------------------------------------------------------------
(* Everyone ends because somebody can always go on, unless a caller waits  *)
(* for itself, and because no step of a task is ever repeated: it comes to *)
(* a later part of Plugin::new, or to the next entry, export or section of *)
(* the same part, or from waiting for the lock to having it.               *)
Part(p) ==
  CASE p = "begin" -> 8 [] p \in {"decode", "hold"} -> 7 [] p = "kernel" -> 6
    [] p \in {"load", "fetch", "compile"} -> 5 [] p = "env" -> 4 [] p = "export" -> 3
    [] p \in {"link", "check", "memory", "wasi", "instance"} -> 2
    [] p = "call" -> 1 [] OTHER -> 0

Ahead(t) == IF phase[t] = "export" THEN Len(user[t]) - left[t] ELSE left[t]

Nearing(t) == IF phase[t] \in {"fetch", "link"} THEN 2
              ELSE IF Inside(t, phase[t]) THEN 0 ELSE 1

Advances(t) ==
  \/ Part(phase'[t]) < Part(phase[t])
  \/ /\ Part(phase'[t]) = Part(phase[t])
     /\ \/ Ahead(t)' < Ahead(t)
        \/ Ahead(t)' = Ahead(t) /\ Nearing(t)' < Nearing(t)

Stays(t) == phase'[t] = phase[t] /\ Ahead(t)' = Ahead(t) /\ Nearing(t)' = Nearing(t)

SomeoneAdvances ==
  \E t \in Tasks : Advances(t) /\ \A s \in Tasks \ {t} : Stays(s)

(* The guards of a task's steps.                                           *)
CanStep(t) ==
  \/ phase[t] \in {"begin", "fetch", "link"}
  \/ /\ phase[t] \in Sections /\ (Inside(t, phase[t]) \/ Free(phase[t]))
     /\ phase[t] = "export" => left[t] <= Len(user[t])

NobodyStuck ==
  \/ \A t \in Tasks : phase[t] \in Ended
  \/ \E t \in Tasks : CanStep(t)
  \/ \E h \in Tasks : BlockedOnItself(h)

(* The one guard that outlives its section is that of a caller that keeps  *)
(* the store, and it waits at the next section for ever.                   *)
KeptInv ==
  \A g \in guards : \/ phase[g[1]] = g[2]
                    \/ phase[g[1]] = "kernel" /\ g[2] = "hold"

LEMMA Alone ==
  ASSUME NewInv, KeptInv, NEW t \in Tasks, NEW g \in guards, g[1] = t,
         \/ phase[t] \notin Sections
         \/ Inside(t, phase[t]) /\ phase[t] \in Sections
  PROVE  g = <<t, phase[t]>>
<1>1. g = <<g[1], g[2]>> /\ g[2] \in Sections
  BY DEF NewInv, TypeOK
<1>2. CASE phase[t] = g[2]
  BY <1>1, <1>2
<1>3. CASE phase[t] = "kernel" /\ g[2] = "hold"
  <2>1. <<t, "kernel">> \in guards
    BY <1>3 DEF Inside, Sections, Writes
  <2> QED
    BY <1>1, <1>3, <2>1 DEF NewInv, LockInv, Writes
<1> QED
  BY <1>2, <1>3 DEF KeptInv

(* The kinds of step.                                                      *)
Leaves(t)  == phase[t] \in Sections /\ Inside(t, phase[t]) /\ Leave(t)
Wanders(t) == phase[t] \in {"begin", "fetch", "link"} /\ guards' = guards

LEMMA StepKinds ==
  ASSUME NewInv, NEW t \in Tasks, Step(t) \/ Cancel(t)
  PROVE  /\ Enter(t) \/ Hold(t) \/ Leaves(t) \/ Wanders(t)
         /\ \E q \in Phases : Goto(t, q) \/ (q = phase[t] /\ phase' = phase)
<1> USE DEF Leaves, Wanders, Sections, Reads, Writes, Ended, Phases
<1>1. CASE Enter(t)
  BY <1>1 DEF Enter, NewInv, TypeOK
<1>2. CASE Hold(t)
  BY <1>2 DEF Hold, TakeId
<1>3. CASE Begin(t) \/ Fetch(t) \/ Cancel(t) \/ LinkOn(t)
  BY <1>3 DEF Begin, Fetch, Cancel, LinkOn, TakeId
<1>4. CASE Call(t) \/ Load(t)
  BY <1>4 DEF Call, Load, Fails, Panics, Inside
<1>5. CASE Decode(t)
  BY <1>5 DEF Decode, TakeId, Fails, Inside
<1>6. CASE Compile(t) \/ Check(t)
  BY <1>6 DEF Compile, Check, Fails, Inside
<1>7. CASE MakeKernel(t)
  BY <1>7 DEF MakeKernel, Makes, Panics, Inside
<1>8. CASE MakeEnv(t)
  BY <1>8 DEF MakeEnv, Makes, Inside
<1>9. CASE MakeExport(t)
  BY <1>9 DEF MakeExport, Makes, Inside
<1>10. CASE MakeImport(t)
  BY <1>10 DEF MakeImport, Makes, Fails, Inside
<1>11. CASE MakeInstance(t)
  BY <1>11 DEF MakeInstance, Makes, Fails, Panics, Inside
<1> QED
  BY <1>1, <1>2, <1>3, <1>4, <1>5, <1>6, <1>7, <1>8, <1>9, <1>10, <1>11 DEF Step

LEMMA OtherPhases ==
  ASSUME NewInv, NEW t \in Tasks, Step(t) \/ Cancel(t)
  PROVE  \A u \in Tasks \ {t} : phase'[u] = phase[u]
<1>1. PICK q \in Phases : Goto(t, q) \/ (q = phase[t] /\ phase' = phase)
  BY StepKinds
<1> QED
  BY <1>1 DEF Goto, NewInv, TypeOK

LEMMA KeptStep ==
  ASSUME NewInv, KeptInv, NEW t \in Tasks, Step(t) \/ Cancel(t)
  PROVE  KeptInv'
<1> SUFFICES ASSUME NEW g \in guards'
             PROVE  \/ phase'[g[1]] = g[2]
                    \/ phase'[g[1]] = "kernel" /\ g[2] = "hold"
  BY DEF KeptInv
<1>1. /\ phase \in [Tasks -> Phases] /\ guards \subseteq Tasks \X Sections
      /\ \A u \in Tasks \ {t} : phase'[u] = phase[u]
  BY OtherPhases DEF NewInv, TypeOK
<1>2. CASE Enter(t)
  <2>1. CASE poisoned
    <3>1. guards' = {}
      BY <1>2, <2>1 DEF Enter, NewInv, LockInv
    <3> QED
      BY <3>1
  <2>2. CASE ~poisoned
    BY <1>2, <2>2 DEF Enter, KeptInv
  <2> QED
    BY <2>1, <2>2
<1>3. CASE Hold(t)
  <2>1. <<t, "hold">> \in guards /\ guards' = guards /\ phase'[t] = "kernel"
    BY <1>1, <1>3 DEF Hold, Inside, TakeId, Goto
  <2>2. g = <<t, "hold">>
    BY <2>1 DEF NewInv, LockInv, Writes
  <2> QED
    BY <2>1, <2>2
<1>4. CASE Leaves(t)
  <2>1. g \in guards /\ g # <<t, phase[t]>>
    BY <1>4 DEF Leaves, Leave
  <2>2. g[1] # t
    BY <1>4, <2>1, Alone DEF Leaves
  <2> QED
    BY <1>1, <2>1, <2>2 DEF KeptInv
<1>5. CASE Wanders(t)
  <2>1. phase[t] \notin Sections /\ g \in guards /\ g[2] \in Sections
    BY <1>1, <1>5 DEF Wanders, Sections, Reads, Writes
  <2>2. g[1] # t
    BY <2>1, Alone
  <2> QED
    BY <1>1, <2>1, <2>2 DEF KeptInv
<1> QED
  BY <1>2, <1>3, <1>4, <1>5, StepKinds

LEMMA KeptInvariant == Spec => []KeptInv
<1>1. Init => KeptInv
  BY DEF Init, KeptInv
<1>2. NewInv /\ KeptInv /\ [Next]_vars => KeptInv'
  <2>1. UNCHANGED vars /\ KeptInv => KeptInv'
    BY DEF vars, KeptInv
  <2> QED
    BY <2>1, KeptStep DEF Next, Finished
<1> QED
  BY <1>1, <1>2, NewInvariant, PTL DEF Spec

LEMMA NotStuck ==
  ASSUME NewInv, KeptInv
  PROVE  NobodyStuck
<1>0. \A t \in Tasks : phase[t] = "export" => left[t] <= Len(user[t])
  <2> SUFFICES ASSUME NEW t \in Tasks, phase[t] = "export"
               PROVE  left[t] <= Len(user[t])
    OBVIOUS
  <2> QED
    BY UserLists DEF NewInv, TaskInv, PhaseInv
<1>1. ASSUME NEW g \in guards
      PROVE  NobodyStuck
  <2>1. g = <<g[1], g[2]>> /\ g[1] \in Tasks /\ g[2] \in Sections
    BY DEF NewInv, TypeOK
  <2>2. CASE phase[g[1]] = g[2]
    BY <1>0, <2>1, <2>2 DEF NobodyStuck, CanStep, Inside
  <2>3. CASE phase[g[1]] = "kernel" /\ g[2] = "hold"
    <3>1. <<g[1], "kernel">> # g /\ g[2] \in Writes
      BY <2>1, <2>3 DEF Writes
    <3>2. BlockedOnItself(g[1])
      BY <2>1, <2>3, <3>1 DEF BlockedOnItself, NewInv, LockInv
    <3> QED
      BY <2>1, <3>2 DEF NobodyStuck
  <2> QED
    BY <2>2, <2>3 DEF KeptInv
<1>2. CASE guards = {}
  <2>1. \A p : Free(p)
    BY <1>2 DEF Free
  <2>2. \A t \in Tasks : phase[t] \in Ended \/ CanStep(t)
    BY <1>0, <2>1 DEF CanStep, NewInv, TypeOK, Phases
  <2> QED
    BY <2>2 DEF NobodyStuck
<1> QED
  BY <1>1, <1>2

-----------------------------------------------------------------------------
(* What a step leaves alone of the other tasks.                            *)
LEMMA OthersStay ==
  ASSUME NewInv, NEW t \in Tasks, Step(t) \/ Cancel(t), NEW s \in Tasks \ {t}
  PROVE  Stays(s)
<1>1. phase'[s] = phase[s]
  BY OtherPhases
<1>2. user' = user /\ \E n : left' = [left EXCEPT ![t] = n] \/ left' = left
  BY DEF Step, Cancel, Begin, Enter, Call, Hold, Decode, MakeKernel, Load, Fetch,
         Compile, MakeEnv, MakeExport, LinkOn, Check, MakeImport, MakeInstance, Fails,
         Panics, TakeId, Makes, StartLinking, Count, OnlyMoves
<1>3. left'[s] = left[s]
  BY <1>2 DEF NewInv, TypeOK
<1>4. \A p : <<s, p>> \in guards' <=> <<s, p>> \in guards
  BY StepKinds DEF Enter, Hold, Leaves, Leave, Wanders
<1> QED
  BY <1>1, <1>2, <1>3, <1>4 DEF Stays, Ahead, Nearing, Inside

LEMMA PartType == \A p : Part(p) \in 0..8
  BY DEF Part

(* The ways a task advances.                                               *)
LEMMA NextPart ==
  ASSUME NewInv, NEW t \in Tasks, NEW q, Goto(t, q), Part(q) < Part(phase[t])
  PROVE  Advances(t)
  BY DEF Advances, Goto, NewInv, TypeOK

LEMMA Finishes ==
  ASSUME NewInv, NEW t \in Tasks, NEW q \in Ended, Goto(t, q), phase[t] \notin Ended
  PROVE  Advances(t)
<1>1. Part(q) = 0 /\ Part(phase[t]) > 0
  BY DEF Part, Ended, NewInv, TypeOK, Phases, Sections, Reads, Writes
<1> QED
  BY <1>1, NextPart

LEMMA NextEntry ==
  ASSUME NewInv, NEW t \in Tasks, NEW q, Goto(t, q), Count(t, left[t] - 1),
         Part(q) = Part(phase[t]), phase[t] # "export", q # "export"
  PROVE  Advances(t)
<1>1. phase'[t] = q /\ left'[t] = left[t] - 1 /\ left[t] \in Nat
  BY DEF Goto, Count, NewInv, TypeOK
<1>2. Ahead(t) = left[t] /\ Ahead(t)' = left[t] - 1
  BY <1>1 DEF Ahead
<1> QED
  BY <1>1, <1>2 DEF Advances

LEMMA NextSection ==
  ASSUME NewInv, NEW t \in Tasks, NEW q, Goto(t, q), left' = left,
         Part(q) = Part(phase[t]), phase[t] \in {"fetch", "link"},
         q \notin {"fetch", "link", "export"}
  PROVE  Advances(t)
<1>1. phase'[t] = q
  BY DEF Goto, NewInv, TypeOK
<1>2. Ahead(t)' = Ahead(t)
  BY <1>1 DEF Ahead
<1>3. Nearing(t) = 2 /\ Nearing(t)' < 2
  BY <1>1 DEF Nearing
<1> QED
  BY <1>1, <1>2, <1>3 DEF Advances

LEMMA EnterAdvances ==
  ASSUME NewInv, NEW t \in Tasks, Enter(t)
  PROVE  Advances(t)
<1>1. phase[t] \in Sections /\ ~Inside(t, phase[t])
  BY DEF Enter
<1>2. phase[t] \notin Ended \cup {"fetch", "link"}
  BY <1>1 DEF Ended, Sections, Reads, Writes
<1>3. CASE poisoned
  BY <1>2, <1>3, Finishes DEF Enter, Ended
<1>4. CASE ~poisoned
  <2>1. /\ phase' = phase /\ left' = left /\ user' = user
        /\ <<t, phase[t]>> \in guards'
    BY <1>4 DEF Enter, OnlyMoves
  <2>2. Ahead(t)' = Ahead(t)
    BY <2>1 DEF Ahead
  <2>3. Nearing(t) = 1 /\ Nearing(t)' = 0
    BY <1>1, <1>2, <2>1 DEF Nearing, Inside
  <2> QED
    BY <2>1, <2>2, <2>3 DEF Advances
<1> QED
  BY <1>3, <1>4

LEMMA MakeExportAdvances ==
  ASSUME NewInv, NEW t \in Tasks, MakeExport(t)
  PROVE  Advances(t)
<1>1. phase[t] = "export" /\ Len(user[t]) \in Nat /\ left[t] \in Nat
  BY UserLists DEF MakeExport, Inside, NewInv, TypeOK
<1>2. CASE Goto(t, "link")
  BY <1>1, <1>2, NextPart DEF Part
<1>3. CASE Goto(t, "export") /\ Count(t, left[t] + 1) /\ user' = user
  <2>1. phase'[t] = "export" /\ left'[t] = left[t] + 1
    BY <1>3 DEF Goto, Count, NewInv, TypeOK
  <2>2. Ahead(t) = Len(user[t]) - left[t] /\ Ahead(t)' = Len(user[t]) - (left[t] + 1)
    BY <1>1, <1>3, <2>1 DEF Ahead
  <2> QED
    BY <1>1, <2>1, <2>2 DEF Advances
<1> QED
  BY <1>2, <1>3 DEF MakeExport, Makes

LEMMA StepAdvances ==
  ASSUME NewInv, NEW t \in Tasks, Step(t) \/ Cancel(t)
  PROVE  Advances(t)
<1> DEFINE p == phase[t]
<1>1. CASE Begin(t) \/ Hold(t)
  BY <1>1, NextPart DEF Begin, Hold, TakeId, Inside, Part
<1>2. CASE Enter(t)
  BY <1>2, EnterAdvances
<1>3. CASE Call(t) \/ Cancel(t)
  BY <1>3, Finishes DEF Call, Cancel, Fails, Panics, Inside, Ended
<1>4. CASE Decode(t)
  <2>1. p = "decode" /\ p \notin Ended
    BY <1>4 DEF Decode, Inside, Ended
  <2>2. Goto(t, "kernel") \/ Goto(t, "unloaded")
    BY <1>4 DEF Decode, TakeId, Fails
  <2> QED
    BY <2>1, <2>2, NextPart DEF Part
<1>5. CASE Load(t)
  <2>1. p = "load" /\ (Goto(t, "env") \/ Goto(t, "unloaded"))
    BY <1>5 DEF Load, Inside, Fails
  <2> QED
    BY <2>1, NextPart DEF Part
<1>6. CASE MakeKernel(t)
  <2>1. /\ p = "kernel"
        /\ \E q \in {"load", "fetch", "env", "panicked"} : Goto(t, q)
    BY <1>6 DEF MakeKernel, Makes, Panics, Inside
  <2> QED
    BY <2>1, NextPart DEF Part
<1>7. CASE Fetch(t)
  <2>1. p = "fetch" /\ left' = left
    BY <1>7 DEF Fetch, OnlyMoves
  <2>2. Goto(t, "env") \/ Goto(t, "unloaded") \/ Goto(t, "compile")
    BY <1>7 DEF Fetch
  <2>3. CASE Goto(t, "compile")
    BY <2>1, <2>3, NextSection DEF Part
  <2>4. CASE Goto(t, "env") \/ Goto(t, "unloaded")
    BY <2>1, <2>4, NextPart DEF Part
  <2> QED
    BY <2>2, <2>3, <2>4
<1>8. CASE Compile(t) \/ Check(t)
  <2>1. CASE Goto(t, "unloaded") \/ Goto(t, "unlinked")
    BY <1>8, <2>1, Finishes DEF Compile, Check, Inside, Ended
  <2>2. CASE p = "compile" /\ Goto(t, "fetch") /\ Count(t, left[t] - 1)
    BY <2>2, NextEntry DEF Part
  <2>3. CASE p = "check" /\ Goto(t, "link") /\ Count(t, left[t] - 1)
    BY <2>3, NextEntry DEF Part
  <2> QED
    BY <1>8, <2>1, <2>2, <2>3 DEF Compile, Check, Inside, Fails
<1>9. CASE MakeEnv(t)
  <2>1. p = "env" /\ (Goto(t, "link") \/ Goto(t, "export"))
    BY <1>9 DEF MakeEnv, Makes, Inside
  <2> QED
    BY <2>1, NextPart DEF Part
<1>10. CASE MakeExport(t)
  BY <1>10, MakeExportAdvances
<1>11. CASE LinkOn(t)
  <2>1. p = "link" /\ left' = left
    BY <1>11 DEF LinkOn, OnlyMoves
  <2>2. \E q \in {"returned", "unlinked", "check", "memory", "wasi", "instance"} :
          Goto(t, q)
    BY <1>11 DEF LinkOn
  <2>3. ASSUME NEW q \in {"check", "memory", "wasi", "instance"}, Goto(t, q)
        PROVE  Advances(t)
    BY <2>1, <2>3, NextSection DEF Part
  <2>4. ASSUME NEW q \in {"returned", "unlinked"}, Goto(t, q)
        PROVE  Advances(t)
    BY <2>1, <2>4, NextPart DEF Part
  <2> QED
    BY <2>2, <2>3, <2>4
<1>12. CASE MakeImport(t) \/ MakeInstance(t)
  <2>1. p \in {"memory", "wasi", "instance"}
    BY <1>12 DEF MakeImport, MakeInstance, Inside
  <2>2. \/ Goto(t, "link") /\ Count(t, left[t] - 1)
        \/ Goto(t, "unlinked") \/ Goto(t, "panicked")
    BY <1>12 DEF MakeImport, MakeInstance, Makes, Fails, Panics
  <2>3. CASE Goto(t, "link") /\ Count(t, left[t] - 1)
    BY <2>1, <2>3, NextEntry DEF Part
  <2>4. CASE Goto(t, "unlinked") \/ Goto(t, "panicked")
    BY <2>1, <2>4, NextPart DEF Part
  <2> QED
    BY <2>2, <2>3, <2>4
<1> QED
  BY <1>1, <1>2, <1>3, <1>4, <1>5, <1>6, <1>7, <1>8, <1>9, <1>10, <1>11, <1>12 DEF Step

(* Every step of a construction or a call brings its task forward in an    *)
(* order that has no infinite descent, and no other task back: whatever    *)
(* others do to the lock, nobody starts anything over.                     *)
THEOREM TasksAdvance ==
  Spec => [](\A t \in Tasks : Ahead(t) \in Nat) /\ [][SomeoneAdvances]_vars
<1>1. NewInv => \A t \in Tasks : Ahead(t) \in Nat
  <2> SUFFICES ASSUME NewInv, NEW t \in Tasks PROVE Ahead(t) \in Nat
    OBVIOUS
  <2>1. left[t] \in Nat /\ Len(user[t]) \in Nat
    BY UserLists DEF NewInv, TypeOK
  <2>2. phase[t] = "export" => left[t] \in 1..Len(user[t])
    BY DEF NewInv, TaskInv, PhaseInv
  <2> QED
    BY <2>1, <2>2 DEF Ahead
<1>2. NewInv /\ [Next]_vars => [SomeoneAdvances]_vars
  BY StepAdvances, OthersStay DEF Next, Finished, SomeoneAdvances
<1> QED
  BY <1>1, <1>2, NewInvariant, PTL DEF Spec

(* Constructions and calls never wait for each other in a circle: while    *)
(* anyone has not ended somebody can go on, unless a caller keeps the      *)
(* store and waits for a construction that waits for it.                   *)
THEOREM NobodyWaitsForEver == Spec => []NobodyStuck
  BY NotStuck, NewInvariant, KeptInvariant, PTL
=============================================================================
