---------------------------- MODULE LinkerProofs ----------------------------
(***************************************************************************)
(* Linker links what can be linked, for every set of plugins: proofs of    *)
(* its type invariant, of its safety properties, and that every step       *)
(* brings it nearer to its end.                                            *)
(***************************************************************************)
EXTENDS Linker, SequenceTheorems, FiniteSetTheorems, TLAPS

Height == Len(frames)

(* The ways Link changes the stack, apart from leaving it as it is.        *)
Push(m) ==
  frames' = Append([frames EXCEPT ![Height] = Waiting(@)], Entry(m))
Pop == frames' = SubSeq(frames, 1, Height - 1)
Resolve(bound) ==
  frames' = [frames EXCEPT ![Height] = Advanced(@, bound)]

-----------------------------------------------------------------------------
(* What the running activation is at.                                      *)
LEMMA Running ==
  ASSUME TypeOK, frames # <<>>
  PROVE  /\ Height \in Nat \ {0}
         /\ Top = frames[Height] /\ Top \in Frames
         /\ Top.name \in Modules /\ Top.name \in Namespaces
         /\ imports[Top.name] \in Seq(Import)
         /\ Top.next \in Nat \ {0} /\ Top.next <= Len(imports[Top.name]) + 1
         /\ Top.back \in BOOLEAN
<1>1. Height \in Nat \ {0}
  BY DEF TypeOK, Height
<1>2. Top \in Frames /\ Top = frames[Height]
  BY <1>1 DEF TypeOK, Top, Height
<1>3. Top.name \in Modules /\ Top.next <= Len(imports[Top.name]) + 1
  BY <1>1, <1>2 DEF TypeOK, Top, Height
<1> QED
  BY <1>1, <1>2, <1>3 DEF TypeOK, Frames

LEMMA AtOneImport ==
  ASSUME TypeOK, AtImport
  PROVE  /\ frames # <<>> /\ result = "running"
         /\ Top.next \in 1..Len(imports[Top.name])
         /\ Current \in Import /\ Current = imports[Top.name][Top.next]
         /\ Current \in ImportsOf(Top.name)
<1>1. frames # <<>> /\ Top.next <= Len(imports[Top.name])
  BY DEF AtImport
<1>2. Top.next \in 1..Len(imports[Top.name]) /\ imports[Top.name] \in Seq(Import)
  BY <1>1, Running
<1> QED
  BY <1>1, <1>2 DEF AtImport, Current, ImportsOf

(* The stack after each change, frame by frame.                            *)
LEMMA Pushed ==
  ASSUME TypeOK, frames # <<>>, NEW m \in Namespaces, Push(m)
  PROVE  /\ frames' \in Seq(Frames) /\ Len(frames') = Height + 1
         /\ \A j \in 1..(Height - 1) : frames'[j] = frames[j]
         /\ \A j \in 1..Height :
              /\ frames'[j].name = frames[j].name
              /\ frames'[j].next = frames[j].next
              /\ frames'[j].defined = frames[j].defined
         /\ frames'[Height].back = TRUE
         /\ frames'[Height + 1] = Entry(m)
<1> DEFINE g == [frames EXCEPT ![Height] = Waiting(@)]
<1>1. Height \in Nat \ {0} /\ frames \in Seq(Frames)
  BY Running DEF TypeOK
<1>2. frames[Height] \in Frames
  BY <1>1, Running
<1>3. Waiting(frames[Height]) \in Frames
  BY <1>2 DEF Frames, Waiting
<1>4. g \in Seq(Frames) /\ Len(g) = Height
  BY <1>1, <1>3 DEF Height
<1>5. \A j \in 1..Height :
        /\ j < Height => g[j] = frames[j]
        /\ g[j].name = frames[j].name /\ g[j].next = frames[j].next
        /\ g[j].defined = frames[j].defined
  BY <1>1, <1>2 DEF Waiting, Height
<1>6. g[Height].back = TRUE
  BY <1>1, <1>2 DEF Waiting, Height
<1>7. Entry(m) \in Frames
  BY DEF Entry, Frames
<1>8. frames' = Append(g, Entry(m))
  BY DEF Push
<1> HIDE DEF g
<1> QED
  BY <1>1, <1>4, <1>5, <1>6, <1>7, <1>8

LEMMA Popped ==
  ASSUME TypeOK, frames # <<>>, Pop
  PROVE  /\ frames' \in Seq(Frames) /\ Len(frames') = Height - 1
         /\ \A j \in 1..(Height - 1) : frames'[j] = frames[j]
<1>1. Height \in Nat \ {0} /\ frames \in Seq(Frames)
  BY Running DEF TypeOK
<1> DEFINE n == Height - 1
<1>2. n \in Nat /\ \A j \in 1..n : frames[j] \in Frames
  BY <1>1 DEF Height
<1>3. frames' = SubSeq(frames, 1, n)
  BY DEF Pop
<1> HIDE DEF n
<1>4. /\ frames' \in Seq(Frames) /\ Len(frames') = n
      /\ \A j \in 1..n : frames'[j] = frames[j]
  BY <1>2, <1>3, SubSeqProperties
<1> QED
  BY <1>4 DEF n

LEMMA ResolvedFrame ==
  ASSUME TypeOK, frames # <<>>, NEW bound \in SUBSET Nat, Resolve(bound)
  PROVE  /\ frames' \in Seq(Frames) /\ Len(frames') = Height
         /\ \A j \in 1..(Height - 1) : frames'[j] = frames[j]
         /\ frames'[Height].name = Top.name
         /\ frames'[Height].next = Top.next + 1
         /\ frames'[Height].back = FALSE
         /\ frames'[Height].defined = Top.defined \cup bound
<1>1. Height \in Nat \ {0} /\ frames \in Seq(Frames) /\ Top = frames[Height]
  BY Running DEF TypeOK
<1>2. Top \in Frames /\ Top.next \in Nat
  BY Running
<1>3. /\ Advanced(Top, bound).name = Top.name
      /\ Advanced(Top, bound).next = Top.next + 1
      /\ Advanced(Top, bound).back = FALSE
      /\ Advanced(Top, bound).defined = Top.defined \cup bound
  BY DEF Advanced
<1>5. Top.name \in Namespaces /\ Top.defined \cup bound \in SUBSET Nat
  BY <1>2 DEF Frames
<1>6. Advanced(Top, bound) \in Frames
  BY <1>2, <1>5 DEF Advanced, Frames
<1>4. frames' = [frames EXCEPT ![Height] = Advanced(Top, bound)]
  BY <1>1 DEF Resolve
<1> QED
  BY <1>1, <1>3, <1>6, <1>4 DEF Height

-----------------------------------------------------------------------------
(* The inductive invariant.  A failure leaves all of the first four as is. *)
Linked(i)   == /\ Provided(i) /\ ~OthersMemory(i)
               /\ Dependency(i) => i.from \in loaded
Resolved(i) == Lacking(i) \/ Linked(i)

(* The activation has resolved the imports it is past.                     *)
Settled(f) ==
  /\ f.name \notin loaded
  /\ f.defined = {k \in 1..(f.next - 1) : ~Lacking(imports[f.name][k])}
  /\ \A k \in 1..(f.next - 1) : Resolved(imports[f.name][k])

(* The activation is at an import from m, which it has visited.            *)
WaitsFor(f, m) ==
  /\ f.back = TRUE
  /\ f.next \in 1..Len(imports[f.name])
  /\ Dependency(imports[f.name][f.next])
  /\ imports[f.name][f.next].from = m

FramesOK ==
  /\ NoRevisit
  /\ \A j \in 1..Height : Settled(frames[j])
  /\ \A j \in 1..(Height - 1) : WaitsFor(frames[j], frames[j + 1].name)
  /\ frames # <<>> /\ Top.back => Current.from \in loaded

LoadedOK ==
  /\ \A m \in loaded : \A i \in ImportsOf(m) : Linked(i)
  /\ \A S \in SUBSET loaded : ~Cycle(S)
  /\ WasiOfOutermost

Covered ==
  \A m \in Modules : \/ m \in todo \cup loaded
                     \/ \E j \in 1..Height : frames[j].name = m

Structure == FramesOK /\ LoadedOK /\ Covered

LinkInv == TypeOK /\ Structure /\ VerdictRight /\ CyclicIsReal

-----------------------------------------------------------------------------
(* What depends on the plugin only.                                        *)
LEMMA Rigid ==
  ASSUME imports' = imports
  PROVE  /\ Modules' = Modules
         /\ \A i : Provided(i)' <=> Provided(i)
         /\ \A m : ImportsOf(m)' = ImportsOf(m)
         /\ \A m, n : Uses(m, n)' <=> Uses(m, n)
         /\ \A m : UsesWasi(m)' <=> UsesWasi(m)
         /\ \A S : Cycle(S)' <=> Cycle(S)
         /\ Linkable' <=> Linkable
<1>1. Modules' = Modules
  BY DEF Modules
<1>2. \A i : Provided(i)' <=> Provided(i)
  BY <1>1 DEF Provided
<1>3. \A m : ImportsOf(m)' = ImportsOf(m)
  BY DEF ImportsOf
<1>4. \A m, n : Uses(m, n)' <=> Uses(m, n)
  BY <1>3 DEF Uses
<1>5. \A S : Cycle(S)' <=> Cycle(S)
  BY <1>4 DEF Cycle
<1>6. \A m : UsesWasi(m)' <=> UsesWasi(m)
  BY <1>3 DEF UsesWasi
<1> QED
  BY <1>1, <1>2, <1>3, <1>4, <1>5, <1>6 DEF Linkable

LEMMA StillResolved ==
  ASSUME imports' = imports, loaded \subseteq loaded'
  PROVE  /\ \A i : Linked(i) => Linked(i)'
         /\ \A i : Resolved(i) => Resolved(i)'
  BY Rigid DEF Resolved, Linked

LEMMA LoadedKept ==
  ASSUME LoadedOK, UNCHANGED <<imports, loaded, wasi>>
  PROVE  LoadedOK'
<1>1. WasiOfOutermost'
  BY Rigid DEF LoadedOK, WasiOfOutermost
<1> QED
  BY <1>1, Rigid, StillResolved DEF LoadedOK

LEMMA StillSettled ==
  ASSUME imports' = imports, loaded' = loaded,
         NEW f, NEW g, Settled(f),
         g.name = f.name, g.next = f.next, g.defined = f.defined
  PROVE  Settled(g)'
  BY StillResolved DEF Settled

LEMMA StillWaiting ==
  ASSUME imports' = imports, NEW f, NEW m, WaitsFor(f, m)
  PROVE  WaitsFor(f, m)'
  BY DEF WaitsFor

LEMMA NewSettled ==
  ASSUME imports' = imports, loaded' = loaded, NEW m, m \notin loaded
  PROVE  Settled(Entry(m))'
  BY DEF Settled, Entry

(* A step that leaves the stack and the instances alone.                   *)
LEMMA Unmoved ==
  ASSUME Structure, UNCHANGED <<imports, todo, frames, loaded, wasi>>
  PROVE  Structure'
<1>1. FramesOK'
  BY StillSettled DEF Structure, FramesOK, NoRevisit, WaitsFor, Height, Top, Current
<1>2. LoadedOK'
  BY LoadedKept DEF Structure
<1>3. Covered'
  BY DEF Structure, Covered, Height, Modules
<1> QED
  BY <1>1, <1>2, <1>3 DEF Structure

(* The stack keeps its names: so it does what is said of them.             *)
LEMMA SameNames ==
  ASSUME Structure, UNCHANGED <<imports, todo, loaded, wasi>>,
         Len(frames') = Height,
         \A j \in 1..Height : frames'[j].name = frames[j].name
  PROVE  NoRevisit' /\ Covered' /\ LoadedOK'
<1>1. NoRevisit'
  BY DEF Structure, FramesOK, NoRevisit, Height
<1>2. LoadedOK'
  BY LoadedKept DEF Structure
<1>3. Covered'
  BY DEF Structure, Covered, Height, Modules
<1> QED
  BY <1>1, <1>2, <1>3

(* An import is resolved.                                                  *)
LEMMA MoveOn ==
  ASSUME TypeOK, Structure, AtImport, Resolved(Current),
         NEW bound, bound = IF Lacking(Current) THEN {} ELSE {Top.next},
         Resolve(bound), UNCHANGED <<imports, todo, loaded, wasi, result>>
  PROVE  Structure'
<1>1. /\ frames # <<>> /\ Height \in Nat \ {0} /\ Top = frames[Height]
      /\ Top.next \in Nat \ {0} /\ Current = imports[Top.name][Top.next]
  BY Running, AtOneImport
<1>2. /\ Len(frames') = Height
      /\ \A j \in 1..(Height - 1) : frames'[j] = frames[j]
      /\ frames'[Height].name = Top.name
      /\ frames'[Height].next = Top.next + 1
      /\ frames'[Height].back = FALSE
      /\ frames'[Height].defined = Top.defined \cup bound
  <2>1. bound \in SUBSET Nat
    BY <1>1
  <2> QED
    BY <1>1, <2>1, ResolvedFrame
<1>3. \A j \in 1..Height : frames'[j].name = frames[j].name
  BY <1>1, <1>2
<1>4. NoRevisit' /\ Covered' /\ LoadedOK'
  BY <1>2, <1>3, SameNames
<1>5. \A j \in 1..(Height - 1) : Settled(frames[j])'
  <2>1. ASSUME NEW j \in 1..(Height - 1)
        PROVE  Settled(frames[j])'
    <3>1. Settled(frames[j])
      BY <1>1 DEF Structure, FramesOK
    <3> QED
      BY <1>2, <3>1, StillSettled
  <2> QED
    BY <2>1
<1>6. \A j \in {Height} : Settled(frames[j])'
  <2>1. PICK f : f = Top
    OBVIOUS
  <2>2. PICK g : g = frames'[Height]
    OBVIOUS
  <2>3. Settled(f)
    BY <2>1, <1>1 DEF Structure, FramesOK
  <2>4. \A k \in 1..f.next : Resolved(imports[f.name][k])
    BY <2>1, <2>3, <1>1 DEF Settled
  <2>5. \A k \in 1..f.next : Resolved(imports[f.name][k])'
    BY <2>4, StillResolved
  <2>6. /\ g.name = f.name /\ g.next = f.next + 1
        /\ g.defined = f.defined \cup bound
    BY <2>1, <2>2, <1>2
  <2>7. f.next \in Nat \ {0} /\ 1..(g.next - 1) = 1..f.next
    BY <2>1, <2>6, <1>1
  <2>8. g.defined = {k \in 1..(g.next - 1) : ~Lacking(imports[g.name][k])}
    <3>1. f.defined = {k \in 1..(f.next - 1) : ~Lacking(imports[f.name][k])}
      BY <2>3 DEF Settled
    <3>2. bound = IF Lacking(imports[f.name][f.next]) THEN {} ELSE {f.next}
      BY <1>1, <2>1
    <3>3. g.defined = {k \in 1..f.next : ~Lacking(imports[f.name][k])}
      <4> DEFINE L(k) == Lacking(imports[f.name][k])
                 n == f.next
      <4>1. n \in Nat \ {0} /\ 1..n = 1..(n - 1) \cup {n}
        BY <2>7
      <4>2. /\ g.defined = {k \in 1..(n - 1) : ~L(k)} \cup bound
            /\ bound = IF L(n) THEN {} ELSE {n}
        BY <2>6, <3>1, <3>2
      <4> HIDE DEF L, n
      <4>3. g.defined = {k \in 1..n : ~L(k)}
        BY <4>1, <4>2
      <4> QED
        BY <4>3 DEF L, n
    <3> QED
      BY <2>6, <2>7, <3>3
  <2>9. Settled(g)'
    BY <2>3, <2>5, <2>6, <2>7, <2>8 DEF Settled
  <2> QED
    BY <2>2, <2>9
<1>7. \A j \in 1..(Height - 1) : WaitsFor(frames[j], frames[j + 1].name)'
  <2>1. ASSUME NEW j \in 1..(Height - 1)
        PROVE  WaitsFor(frames[j], frames[j + 1].name)'
    <3>1. WaitsFor(frames[j], frames[j + 1].name)
      BY DEF Structure, FramesOK
    <3>2. frames'[j] = frames[j] /\ frames'[j + 1].name = frames[j + 1].name
      BY <1>1, <1>2, <1>3
    <3> QED
      BY <3>1, <3>2, StillWaiting
  <2> QED
    BY <2>1
<1>8. ~Top'.back
  BY <1>2 DEF Top
<1>9. Height' = Height /\ Height \in Nat \ {0}
  BY <1>1, <1>2 DEF Height
<1>10. \A j \in 1..Height' : Settled(frames[j])'
  BY <1>5, <1>6, <1>9
<1>11. \A j \in 1..(Height' - 1) : WaitsFor(frames[j], frames[j + 1].name)'
  BY <1>7, <1>9
<1>12. FramesOK'
  BY <1>4, <1>8, <1>10, <1>11 DEF FramesOK
<1> QED
  BY <1>4, <1>12 DEF Structure

(* The loop starts an activation.                                          *)
LEMMA Starts ==
  ASSUME TypeOK, Structure, frames = <<>>, NEW m \in todo, m \notin loaded,
         frames' = <<Entry(m)>>, todo' = todo \ {m},
         UNCHANGED <<imports, loaded, wasi, result>>
  PROVE  Structure'
<1>1. Len(frames') = 1 /\ frames'[1] = Entry(m) /\ Height = 0
  BY DEF Height
<1>2. \A j \in {1} : Settled(frames[j])'
  <2>1. Settled(Entry(m))'
    BY NewSettled
  <2> QED
    BY <1>1, <2>1
<1>3. NoRevisit' /\ Height' = 1
  BY <1>1 DEF NoRevisit, Height
<1>4. ~Top'.back
  BY <1>1 DEF Top, Entry
<1>5. FramesOK'
  BY <1>2, <1>3, <1>4 DEF FramesOK
<1>6. LoadedOK'
  BY LoadedKept DEF Structure
<1>7. Covered'
  BY <1>1 DEF Structure, Covered, Height, Modules, Entry
<1> QED
  BY <1>6, <1>7, <1>5 DEF Structure

(* A dependency is visited first.                                          *)
LEMMA Deeper ==
  ASSUME TypeOK, Structure, AtImport, Dependency(Current),
         Current.from \in Modules \ loaded, ~OnPath(Current.from),
         Push(Current.from), UNCHANGED <<imports, todo, loaded, wasi, result>>
  PROVE  Structure'
<1>0. PICK m : m = Current.from
  OBVIOUS
<1>1. /\ frames # <<>> /\ Height \in Nat \ {0} /\ Top = frames[Height]
      /\ Top.next \in 1..Len(imports[Top.name])
      /\ Current = imports[Top.name][Top.next]
  BY Running, AtOneImport
<1>2. /\ Len(frames') = Height + 1
      /\ \A j \in 1..(Height - 1) : frames'[j] = frames[j]
      /\ \A j \in 1..Height :
           /\ frames'[j].name = frames[j].name
           /\ frames'[j].next = frames[j].next
           /\ frames'[j].defined = frames[j].defined
      /\ frames'[Height].back = TRUE
      /\ frames'[Height + 1] = Entry(m)
  <2>1. m \in Namespaces
    BY <1>0 DEF TypeOK
  <2> QED
    BY <2>1, <1>0, <1>1, Pushed
<1>h. Height \in Nat \ {0}
  BY <1>1
<1>3. NoRevisit'
  <2>1. \A j \in 1..Height : frames[j].name # m
    BY <1>0 DEF OnPath, Height
  <2>2. Len(frames') = Height + 1 /\ frames'[Height + 1].name = m
    BY <1>2 DEF Entry
  <2>3. \A i, j \in 1..Height : frames[i].name = frames[j].name => i = j
    BY DEF Structure, FramesOK, NoRevisit, Height
  <2>4. \A j \in 1..(Height + 1) : j \in 1..Height \/ j = Height + 1
    BY <1>h
  <2> QED
    BY <1>2, <2>1, <2>2, <2>3, <2>4 DEF NoRevisit
<1>4. \A j \in 1..Height : Settled(frames[j])'
  <2>1. ASSUME NEW j \in 1..Height
        PROVE  Settled(frames[j])'
    <3>1. Settled(frames[j])
      BY DEF Structure, FramesOK
    <3> QED
      BY <1>2, <3>1, StillSettled
  <2> QED
    BY <2>1
<1>5. \A j \in {Height + 1} : Settled(frames[j])'
  <2>1. Settled(Entry(m))'
    BY <1>0, NewSettled
  <2> QED
    BY <1>2, <2>1
<1>6. \A j \in 1..(Height - 1) : WaitsFor(frames[j], frames[j + 1].name)'
  <2>1. ASSUME NEW j \in 1..(Height - 1)
        PROVE  WaitsFor(frames[j], frames[j + 1].name)'
    <3>1. WaitsFor(frames[j], frames[j + 1].name)
      BY DEF Structure, FramesOK
    <3>2. frames'[j] = frames[j] /\ frames'[j + 1].name = frames[j + 1].name
      <4>1. j + 1 \in 1..Height
        BY <1>h
      <4> QED
        BY <1>2, <4>1
    <3> QED
      BY <3>1, <3>2, StillWaiting
  <2> QED
    BY <2>1
<1>7. \A j \in {Height} : WaitsFor(frames[j], frames[j + 1].name)'
  <2>1. PICK g : g = frames'[Height]
    OBVIOUS
  <2>2. g.back = TRUE /\ g.name = Top.name /\ g.next = Top.next
    <3>1. Height \in 1..Height
      BY <1>h
    <3> QED
      BY <2>1, <1>1, <1>2, <3>1
  <2>3. WaitsFor(g, m)
    BY <2>2, <1>0, <1>1 DEF WaitsFor
  <2>4. WaitsFor(g, m)'
    BY <2>3, StillWaiting
  <2>5. frames'[Height + 1].name = m
    BY <1>2 DEF Entry
  <2> QED
    BY <2>1, <2>4, <2>5
<1>8. ~Top'.back
  <2>1. Top' = Entry(m)
    BY <1>1, <1>2 DEF Top
  <2> QED
    BY <2>1 DEF Entry
<1>9. Height' = Height + 1
  BY <1>2 DEF Height
<1>10. \A j \in 1..Height' : Settled(frames[j])'
  <2>1. \A j \in 1..Height' : j \in 1..Height \/ j \in {Height + 1}
    BY <1>h, <1>9
  <2> QED
    BY <1>4, <1>5, <2>1
<1>11. \A j \in 1..(Height' - 1) : WaitsFor(frames[j], frames[j + 1].name)'
  <2>1. \A j \in 1..(Height' - 1) : j \in 1..(Height - 1) \/ j \in {Height}
    BY <1>h, <1>9
  <2> QED
    BY <1>6, <1>7, <2>1
<1>12. FramesOK'
  BY <1>3, <1>8, <1>10, <1>11 DEF FramesOK
<1>13. LoadedOK'
  BY LoadedKept DEF Structure
<1>14. Covered'
  <2>1. \A j \in 1..Height : j \in 1..Height'
    BY <1>h, <1>9
  <2> QED
    BY <1>2, <2>1, Rigid DEF Structure, Covered
<1> QED
  BY <1>12, <1>13, <1>14 DEF Structure

(* The modules made so far do not use each other in a circle, and the next *)
(* one uses only them.                                                     *)
LEMMA NoCycleAdded ==
  ASSUME LoadedOK, NEW n, n \notin loaded,
         \A i \in ImportsOf(n) : Linked(i),
         NEW S \in SUBSET (loaded \cup {n}), Cycle(S)
  PROVE  FALSE
<1>1. \A y \in S, z \in S : Uses(y, z) => z \in loaded
  BY DEF LoadedOK, Uses, Linked
<1>2. \A y \in S : \E z \in S \ {n} : Uses(y, z)
  BY <1>1 DEF Cycle
<1>3. Cycle(S \ {n})
  BY <1>2 DEF Cycle
<1>4. S \ {n} \in SUBSET loaded
  OBVIOUS
<1> QED
  BY <1>3, <1>4 DEF LoadedOK

(* A module is instantiated.                                               *)
LEMMA Returns ==
  ASSUME TypeOK, Structure, AtEnd, Pop, loaded' = loaded \cup {Top.name},
         Top.defined = 1..Len(imports[Top.name]),
         wasi' = IF UsesWasi(Top.name) THEN {Top.name} ELSE wasi,
         UNCHANGED <<imports, todo, result>>
  PROVE  Structure'
<1>1. /\ frames # <<>> /\ Height \in Nat \ {0} /\ Top = frames[Height]
      /\ Top.next = Len(imports[Top.name]) + 1
      /\ imports[Top.name] \in Seq(Import)
  BY Running DEF AtEnd
<1>2. /\ Len(frames') = Height - 1
      /\ \A j \in 1..(Height - 1) : frames'[j] = frames[j]
  BY <1>1, Popped
<1>3. Settled(Top)
  BY <1>1 DEF Structure, FramesOK
<1>4. \A i \in ImportsOf(Top.name) : Linked(i)
  <2>1. Top.next - 1 = Len(imports[Top.name])
    BY <1>1
  <2>2. \A k \in 1..Len(imports[Top.name]) :
          Resolved(imports[Top.name][k]) /\ ~Lacking(imports[Top.name][k])
    BY <1>3, <2>1 DEF Settled
  <2> QED
    BY <2>2 DEF Resolved, ImportsOf
<1>5. LoadedOK'
  <2>1. \A m \in loaded' : \A i \in ImportsOf(m) : Linked(i)
    BY <1>4 DEF Structure, LoadedOK
  <2>2. \A m \in loaded' : \A i \in ImportsOf(m) : Linked(i)'
    BY <2>1, StillResolved
  <2>3. \A S \in SUBSET loaded' : ~Cycle(S)
    BY <1>3, <1>4, NoCycleAdded DEF Structure, Settled
  <2>4. WasiOfOutermost'
    <3>1. \A m \in loaded' : ~Uses(m, Top.name)
      BY <1>3, <2>1, <2>3 DEF Settled, Linked, Uses, Cycle
    <3>2. WasiOfOutermost
      BY DEF Structure, LoadedOK
    <3>3. CASE UsesWasi(Top.name)
      BY <3>1, <3>3, Rigid DEF WasiOfOutermost
    <3>4. CASE ~UsesWasi(Top.name)
      BY <3>2, <3>4, Rigid DEF WasiOfOutermost
    <3> QED
      BY <3>3, <3>4
  <2> QED
    BY <2>2, <2>3, <2>4, Rigid DEF LoadedOK
<1>6. Height' = Height - 1
  BY <1>2 DEF Height
<1>7. NoRevisit'
  BY <1>1, <1>2, <1>6 DEF Structure, FramesOK, NoRevisit, Height
<1>8. \A j \in 1..(Height - 1) : Settled(frames[j])'
  <2>1. ASSUME NEW j \in 1..(Height - 1)
        PROVE  Settled(frames[j])'
    <3>1. PICK f : f = frames[j]
      OBVIOUS
    <3>2. Settled(f)
      BY <1>1, <3>1 DEF Structure, FramesOK
    <3>3. f.name # Top.name
      BY <1>1, <3>1 DEF Structure, FramesOK, NoRevisit, Height
    <3>4. Settled(f)'
      BY <3>2, <3>3, StillResolved DEF Settled
    <3> QED
      BY <1>2, <3>1, <3>4
  <2> QED
    BY <2>1
<1>9. \A j \in 1..(Height' - 1) : WaitsFor(frames[j], frames[j + 1].name)'
  <2>1. ASSUME NEW j \in 1..(Height' - 1)
        PROVE  WaitsFor(frames[j], frames[j + 1].name)'
    <3>1. j \in 1..(Height - 1)
      BY <1>1, <1>6
    <3>2. WaitsFor(frames[j], frames[j + 1].name)
      BY <3>1 DEF Structure, FramesOK
    <3>3. frames'[j] = frames[j] /\ frames'[j + 1] = frames[j + 1]
      BY <1>1, <1>2, <1>6
    <3> QED
      BY <3>2, <3>3, StillWaiting
  <2> QED
    BY <2>1
<1>10. ASSUME frames' # <<>>
       PROVE  Current'.from \in loaded'
  <2>1. Height - 1 \in 1..(Height - 1)
    BY <1>1, <1>2, <1>10
  <2>2. WaitsFor(frames[Height - 1], Top.name)
    BY <2>1, <1>1 DEF Structure, FramesOK
  <2>3. Top' = frames[Height - 1]
    BY <2>1, <1>2 DEF Top
  <2> QED
    BY <2>2, <2>3 DEF WaitsFor, Current
<1>11. FramesOK'
  BY <1>6, <1>7, <1>8, <1>9, <1>10 DEF FramesOK
<1>12. Covered'
  BY <1>1, <1>2, <1>6 DEF Structure, Covered, Modules
<1> QED
  BY <1>5, <1>11, <1>12 DEF Structure

-----------------------------------------------------------------------------
(* Why linking fails.                                                      *)
LEMMA ImportRefused ==
  ASSUME TypeOK, AtImport, ~Provided(Current)
  PROVE  ~Linkable
  BY AtOneImport, Running DEF Linkable

LEMMA PathIsCycle ==
  ASSUME TypeOK, FramesOK, AtImport, Dependency(Current), OnPath(Current.from)
  PROVE  \E S \in SUBSET Modules : Cycle(S)
<1>1. /\ Height \in Nat \ {0} /\ Top = frames[Height]
      /\ Current \in ImportsOf(Top.name)
  BY Running, AtOneImport
<1>2. PICK b \in 1..Height : frames[b].name = Current.from
  BY DEF OnPath, Height
<1> DEFINE S == {frames[j].name : j \in b..Height}
<1>3. ASSUME NEW j \in b..Height
      PROVE  \E n \in S : Uses(frames[j].name, n)
  <2>1. CASE j = Height
    <3>1. Uses(frames[j].name, frames[b].name)
      BY <1>1, <1>2, <2>1 DEF Uses
    <3>2. frames[b].name \in S
      BY <1>1, <1>2
    <3> QED
      BY <3>1, <3>2
  <2>2. CASE j < Height
    <3>1. j \in 1..(Height - 1) /\ j + 1 \in b..Height
      BY <1>1, <2>2
    <3>2. WaitsFor(frames[j], frames[j + 1].name)
      BY <3>1 DEF FramesOK
    <3>3. Uses(frames[j].name, frames[j + 1].name)
      BY <3>2 DEF WaitsFor, Uses, ImportsOf
    <3>4. frames[j + 1].name \in S
      BY <3>1
    <3> QED
      BY <3>3, <3>4
  <2> QED
    BY <1>1, <2>1, <2>2
<1>4. S # {}
  BY <1>1, <1>2
<1>5. S \in SUBSET Modules
  BY <1>1, <1>2 DEF TypeOK, Height
<1>6. \A m \in S : \E n \in S : Uses(m, n)
  BY <1>3
<1> HIDE DEF S
<1> QED
  BY <1>4, <1>5, <1>6 DEF Cycle

(* A failure keeps the invariant if its reason is right.                   *)
Justified(why) ==
  /\ why \in Failures
  /\ why \notin {"Memory", "Wasmer", "Wasix"} /\ Top.next <= Len(imports[Top.name])
       => ~Linkable \/ Unsupported(Current)
  /\ why = "CyclicDependency" => \E S \in SUBSET Modules : Cycle(S)

LEMMA FailKeeps ==
  ASSUME LinkInv, NEW why, Justified(why), Fail(why)
  PROVE  LinkInv'
<1>1. UNCHANGED <<imports, todo, frames, loaded, wasi>> /\ result' = why
  BY DEF Fail
<1>2. TypeOK'
  BY <1>1 DEF LinkInv, TypeOK, Modules, Justified
<1>3. Structure'
  BY <1>1, Unmoved DEF LinkInv
<1>4. why # "ok"
  BY DEF Justified, Failures
<1>5. VerdictRight'
  <2>1. Top' = Top /\ Current' = Current
    BY <1>1 DEF Top, Current
  <2>2. RefusedImport' => ~Linkable \/ Unsupported(Current)
    BY <1>1, <2>1 DEF RefusedImport, Justified
  <2> QED
    BY <1>1, <1>4, <2>1, <2>2, Rigid DEF VerdictRight
<1>6. CyclicIsReal'
  BY <1>1, Rigid DEF CyclicIsReal, Justified
<1> QED
  BY <1>2, <1>3, <1>5, <1>6 DEF LinkInv

(* So does a step that goes on.                                            *)
LEMMA GoesOn ==
  ASSUME TypeOK', Structure', result' = "running"
  PROVE  LinkInv'
  BY DEF LinkInv, VerdictRight, RefusedImport, CyclicIsReal, Failures

-----------------------------------------------------------------------------
(* One lemma per action of Link.                                           *)
LEMMA VisitKeeps ==
  ASSUME LinkInv, NEW m \in Modules, Visit(m)
  PROVE  LinkInv'
<1> USE DEF LinkInv
<1>1. frames = <<>> /\ m \in todo /\ todo' = todo \ {m} /\ result' = "running"
      /\ UNCHANGED <<imports, loaded, wasi, result>>
  BY DEF Visit
<1>2. CASE m \in loaded
  <2>1. frames' = <<>>
    BY <1>2 DEF Visit
  <2>2. TypeOK'
    BY <1>1, <2>1 DEF TypeOK, Modules
  <2>3. FramesOK'
    BY <2>1 DEF FramesOK, NoRevisit, Height
  <2>4. LoadedOK'
    BY <1>1, LoadedKept DEF Structure
  <2>5. Covered'
    BY <1>1, <1>2, <2>1 DEF Structure, Covered, Height, Modules
  <2> QED
    BY <1>1, <2>2, <2>3, <2>4, <2>5, GoesOn DEF Structure
<1>3. CASE m \notin loaded
  <2>1. frames' = <<Entry(m)>>
    BY <1>3 DEF Visit
  <2>2. Entry(m) \in Frames
    BY DEF Entry, Frames, TypeOK
  <2>3. TypeOK'
    BY <1>1, <2>1, <2>2 DEF TypeOK, Modules, Entry
  <2> QED
    BY <1>1, <1>3, <2>1, <2>3, Starts, GoesOn
<1> QED
  BY <1>2, <1>3

LEMMA FinishKeeps ==
  ASSUME LinkInv, Finish
  PROVE  LinkInv'
<1> USE DEF LinkInv
<1>1. /\ UNCHANGED <<imports, todo, frames, loaded, wasi>> /\ result' = "ok"
      /\ frames = <<>> /\ todo = {}
  BY DEF Finish
<1>2. TypeOK' /\ Structure'
  BY <1>1, Unmoved DEF TypeOK, Modules
<1>3. loaded = Modules
  <2>1. 1..Height = {}
    BY <1>1 DEF Height
  <2>2. \A m \in Modules : m \in loaded
    BY <1>1, <2>1 DEF Structure, Covered
  <2> QED
    BY <2>2 DEF TypeOK
<1>4. Linkable
  BY <1>3 DEF Linkable, Structure, LoadedOK, Linked
<1> QED
  BY <1>1, <1>2, <1>3, <1>4, Rigid
     DEF VerdictRight, RefusedImport, CyclicIsReal, Failures

(* The import is resolved: it is defined, or WASIX does not offer it.      *)
LEMMA AdvanceKeeps ==
  ASSUME LinkInv, AtImport, Resolved(Current),
         NEW bound, bound = IF Lacking(Current) THEN {} ELSE {Top.next},
         frames' = [frames EXCEPT ![Len(frames)] = Advanced(@, bound)],
         UNCHANGED <<imports, todo, loaded, wasi, result>>
  PROVE  LinkInv'
<1> USE DEF LinkInv
<1>1. /\ frames # <<>> /\ Height \in Nat \ {0} /\ Top = frames[Height]
      /\ Top.next \in 1..Len(imports[Top.name]) /\ Top.name \in Modules
      /\ result = "running"
  BY Running, AtOneImport
<1>2. Resolve(bound)
  BY DEF Resolve, Height
<1>3. Structure'
  BY <1>2, MoveOn
<1>4. TypeOK'
  <2>1. /\ frames' \in Seq(Frames) /\ Len(frames') = Height
        /\ \A j \in 1..(Height - 1) : frames'[j] = frames[j]
        /\ frames'[Height].name = Top.name
        /\ frames'[Height].next = Top.next + 1
    <3>1. bound \in SUBSET Nat
      BY <1>1, Running
    <3> QED
      BY <1>1, <1>2, <3>1, ResolvedFrame
  <2>2. Modules' = Modules
    BY DEF Modules
  <2>3. \A j \in 1..(Height - 1) : /\ frames[j].name \in Modules
                                   /\ frames[j].next <= Len(imports[frames[j].name]) + 1
    BY <1>1 DEF TypeOK, Height
  <2>4. Top.next + 1 <= Len(imports[Top.name]) + 1
    BY <1>1, Running
  <2>5. \A j \in 1..Height : /\ frames'[j].name \in Modules
                             /\ frames'[j].next <= Len(imports[frames'[j].name]) + 1
    <3>1. ASSUME NEW j \in 1..Height, j # Height
          PROVE  j \in 1..(Height - 1)
      BY <1>1, <3>1
    <3>2. ASSUME NEW j \in 1..Height, j # Height
          PROVE  /\ frames'[j].name \in Modules
                 /\ frames'[j].next <= Len(imports[frames'[j].name]) + 1
      BY <3>1, <3>2, <2>1, <2>3
    <3>3. /\ frames'[Height].name \in Modules
          /\ frames'[Height].next <= Len(imports[frames'[Height].name]) + 1
      BY <1>1, <2>1, <2>4
    <3> QED
      BY <3>2, <3>3
  <2> QED
    BY <1>2, <2>1, <2>2, <2>5 DEF TypeOK
<1> QED
  BY <1>1, <1>2, <1>3, <1>4, GoesOn

LEMMA DefineKeeps ==
  ASSUME LinkInv, AtImport, Provided(Current), ~Lacking(Current),
         ~OthersMemory(Current), Define,
         Dependency(Current) => Current.from \in loaded
  PROVE  LinkInv'
<1>1. frames # <<>> /\ Top = frames[Height] /\ Height = Len(frames)
      /\ Height \in Nat \ {0}
  BY Running, AtOneImport DEF LinkInv, Height
<1>2. frames' = [frames EXCEPT ![Len(frames)] = Advanced(@, {Top.next})]
  BY <1>1 DEF Define
<1> QED
  BY <1>2, AdvanceKeeps DEF Define, Resolved, Linked

LEMMA SkipWasiKeeps ==
  ASSUME LinkInv, SkipWasi
  PROVE  LinkInv'
<1>1. AtImport /\ Wasi(Current) /\ ~Dependency(Current) /\ ~OthersMemory(Current)
  BY DEF SkipWasi, Dependency, OthersMemory, Memory
<1>2. CASE Offered(Current)
  BY <1>1, <1>2, DefineKeeps DEF SkipWasi, Wasi, Provided, Lacking
<1>3. CASE ~Offered(Current)
  <2>1. Lacking(Current)
    BY <1>1, <1>3 DEF Lacking
  <2>2. /\ frames' = [frames EXCEPT ![Len(frames)] = Advanced(@, {})]
        /\ UNCHANGED <<imports, todo, loaded, wasi, result>>
    BY <1>3 DEF SkipWasi
  <2> QED
    BY <1>1, <2>1, <2>2, AdvanceKeeps DEF Resolved
<1> QED
  BY <1>2, <1>3

LEMMA ImportObjectFailsKeeps ==
  ASSUME LinkInv, ImportObjectFails
  PROVE  LinkInv'
  BY FailKeeps DEF ImportObjectFails, Justified, Failures

LEMMA RefuseKernelDataKeeps ==
  ASSUME LinkInv, RefuseKernelData
  PROVE  LinkInv'
<1>1. AtImport /\ ~Provided(Current) /\ Fail("NonFunctionKernelAccess")
  BY DEF RefuseKernelData, Provided
<1> QED
  BY <1>1, ImportRefused, FailKeeps DEF Justified, Failures, LinkInv

LEMMA LinkMemoryKeeps ==
  ASSUME LinkInv, LinkMemory
  PROVE  LinkInv'
<1>1. /\ AtImport /\ Memory(Current) /\ ~Dependency(Current) /\ ~External(Current)
      /\ ~Wasi(Current) /\ ~Lacking(Current)
  BY DEF LinkMemory, Memory, Dependency, External, Lacking
<1>2. CASE Current.from = Env /\ Define
  BY <1>1, <1>2, DefineKeeps DEF Provided, OthersMemory, Memory
<1>3. CASE Fail("Memory")
  BY <1>3, FailKeeps DEF Justified, Failures
<1>4. CASE Current.from # Env /\ Fail("MissingExport")
  <2>1. Unsupported(Current)
    BY <1>1, <1>4 DEF Unsupported, OthersMemory
  <2> QED
    BY <1>4, <2>1, FailKeeps DEF Justified, Failures
<1> QED
  BY <1>2, <1>3, <1>4 DEF LinkMemory

LEMMA LinkExternalKeeps ==
  ASSUME LinkInv, LinkExternal
  PROVE  LinkInv'
<1> DEFINE Fits == Has(Externals, <<Current.from, Current.item>>, Current.type)
<1>1. /\ AtImport /\ External(Current) /\ ~Dependency(Current)
      /\ ~OthersMemory(Current) /\ ~Lacking(Current)
  BY DEF LinkExternal, Memory, Dependency, External, Lacking, OthersMemory
<1>2. Fits => Provided(Current)
  BY <1>1 DEF Provided, External
<1>3. ~Fits => Unsupported(Current)
  BY <1>1 DEF Unsupported
<1>4. IF Fits THEN Define ELSE Fail("IncompatibleType")
  BY <1>1 DEF LinkExternal, External, Has
<1> HIDE DEF Fits
<1>5. CASE Fits
  BY <1>1, <1>2, <1>4, <1>5, DefineKeeps
<1>6. CASE ~Fits
  BY <1>3, <1>4, <1>6, FailKeeps DEF Justified, Failures
<1> QED
  BY <1>5, <1>6

(* What only a module of the plugin could provide.                         *)
LEMMA DependencyProvided ==
  ASSUME NEW i, Dependency(i), Provided(i), ~Unsupported(i)
  PROVE  i.from \in Modules /\ Has(Exports[i.from], i.item, i.type)
  BY DEF Provided, Unsupported, Dependency, Has

LEMMA DescendKeeps ==
  ASSUME LinkInv, Descend
  PROVE  LinkInv'
<1> USE DEF LinkInv
<1> DEFINE m == Current.from
<1>1. /\ AtImport /\ Dependency(Current) /\ m \notin loaded
      /\ ~Memory(Current) /\ ~External(Current) /\ ~Wasi(Current)
      /\ result = "running"
  BY DEF Descend, Dependency, Memory, External, AtImport
<1>2. CASE m \notin Modules /\ Fail("Export")
  <2>1. ~Provided(Current) \/ Unsupported(Current)
    BY <1>1, <1>2, DependencyProvided
  <2> QED
    BY <1>1, <1>2, <2>1, ImportRefused, FailKeeps DEF Justified, Failures
<1>3. CASE OnPath(m) /\ Fail("CyclicDependency")
  <2>1. \E S \in SUBSET Modules : Cycle(S)
    BY <1>1, <1>3, PathIsCycle DEF Structure
  <2>2. ~Linkable
    BY <2>1 DEF Linkable
  <2> QED
    BY <1>3, <2>1, <2>2, FailKeeps DEF Justified, Failures
<1>4. CASE /\ m \in Modules /\ ~OnPath(m) /\ Push(m)
           /\ UNCHANGED <<imports, todo, loaded, wasi, result>>
  <2>1. frames # <<>> /\ Height \in Nat \ {0} /\ m \in Namespaces
    BY <1>1, <1>4, Running DEF AtImport, TypeOK
  <2>2. /\ frames' \in Seq(Frames) /\ Len(frames') = Height + 1
        /\ \A j \in 1..Height : /\ frames'[j].name = frames[j].name
                                /\ frames'[j].next = frames[j].next
        /\ frames'[Height + 1] = Entry(m)
    BY <1>4, <2>1, Pushed
  <2>3. \A j \in 1..Height : /\ frames[j].name \in Modules
                             /\ frames[j].next <= Len(imports[frames[j].name]) + 1
    BY DEF TypeOK, Height
  <2>4. Entry(m).name \in Modules /\ Entry(m).next <= Len(imports[m]) + 1
    BY <1>4 DEF Entry, TypeOK
  <2>5. \A j \in 1..(Height + 1) :
          /\ frames'[j].name \in Modules
          /\ frames'[j].next <= Len(imports[frames'[j].name]) + 1
    <3>1. \A j \in 1..(Height + 1) : j \in 1..Height \/ j = Height + 1
      BY <2>1
    <3>2. Entry(m).name = m
      BY DEF Entry
    <3> QED
      BY <2>2, <2>3, <2>4, <3>1, <3>2
  <2>6. Modules' = Modules
    BY <1>4 DEF Modules
  <2>7. TypeOK'
    BY <1>4, <2>2, <2>5, <2>6 DEF TypeOK
  <2> QED
    BY <1>1, <1>4, <2>7, Deeper, GoesOn
<1> QED
  BY <1>2, <1>3, <1>4 DEF Descend, Push, Height

LEMMA LinkDependencyKeeps ==
  ASSUME LinkInv, LinkDependency
  PROVE  LinkInv'
<1> DEFINE Fits == Has(Exports[Current.from], Current.item, Current.type)
<1>1. /\ AtImport /\ Dependency(Current) /\ ~OthersMemory(Current)
      /\ ~Lacking(Current)
  BY DEF LinkDependency, Dependency, Memory, Lacking, OthersMemory
<1>2. Current.from \in loaded /\ Current.from \in Modules
  BY DEF LinkDependency, AtImport, LinkInv, Structure, FramesOK, TypeOK
<1>3. Fits => Provided(Current)
  BY <1>1, <1>2 DEF Provided, Dependency
<1>4. ~Fits => ~Provided(Current) \/ Unsupported(Current)
  BY <1>1, DependencyProvided
<1>5. IF Fits THEN Define
      ELSE Fail("MissingExport") \/ Fail("IncompatibleType")
  BY <1>2 DEF LinkDependency, Has
<1> HIDE DEF Fits
<1>6. CASE Fits
  BY <1>1, <1>2, <1>3, <1>5, <1>6, DefineKeeps
<1>7. CASE ~Fits
  BY <1>1, <1>4, <1>5, <1>7, ImportRefused, FailKeeps
     DEF Justified, Failures, LinkInv
<1> QED
  BY <1>6, <1>7

LEMMA InstantiateKeeps ==
  ASSUME LinkInv, Instantiate
  PROVE  LinkInv'
<1> USE DEF LinkInv
<1>1. CASE Fail("Wasmer") \/ Fail("Export")
  <2>1. ~(Top.next <= Len(imports[Top.name]))
    BY Running DEF Instantiate, AtEnd
  <2> QED
    BY <1>1, <2>1, FailKeeps DEF Justified, Failures
<1>2. CASE /\ loaded' = loaded \cup {Top.name} /\ Pop
           /\ Top.defined = 1..Len(imports[Top.name])
           /\ wasi' = IF UsesWasi(Top.name) THEN {Top.name} ELSE wasi
           /\ UNCHANGED <<imports, todo, result>>
  <2>1. AtEnd /\ frames # <<>> /\ result = "running"
    BY DEF Instantiate, AtEnd
  <2>2. Height \in Nat \ {0} /\ Top.name \in Modules
    BY <2>1, Running
  <2>3. /\ frames' \in Seq(Frames) /\ Len(frames') = Height - 1
        /\ \A j \in 1..(Height - 1) : j \in 1..Height /\ frames'[j] = frames[j]
    BY <1>2, <2>1, <2>2, Popped
  <2>4. Modules' = Modules
    BY <1>2 DEF Modules
  <2>5. TypeOK'
    BY <1>2, <2>2, <2>3, <2>4 DEF TypeOK, Height
  <2> QED
    BY <1>2, <2>1, <2>5, Returns, GoesOn
<1> QED
  BY <1>1, <1>2 DEF Instantiate, Pop, Height

-----------------------------------------------------------------------------
LEMMA LinkInvInit == Init => LinkInv
<1> SUFFICES ASSUME Init
             PROVE  LinkInv
  OBVIOUS
<1>1. /\ imports \in Plugins /\ todo = Modules /\ frames = <<>> /\ loaded = {}
      /\ wasi = {} /\ result = "running" /\ Height = 0
  BY DEF Init, Modules, Height
<1>2. TypeOK
  BY <1>1, LinkerAssumption DEF TypeOK, Modules
<1>3. FramesOK
  BY <1>1 DEF FramesOK, NoRevisit, Height
<1>4. LoadedOK
  BY <1>1 DEF LoadedOK, Cycle, WasiOfOutermost
<1>5. Covered
  BY <1>1 DEF Covered
<1> QED
  BY <1>1, <1>2, <1>3, <1>4, <1>5
     DEF LinkInv, Structure, VerdictRight, RefusedImport, CyclicIsReal, Failures

LEMMA LinkInvariant == Spec => []LinkInv
<1>1. LinkInv /\ [Next]_vars => LinkInv'
  <2> SUFFICES ASSUME LinkInv, [Next]_vars
               PROVE  LinkInv'
    OBVIOUS
  <2>1. CASE Link
    BY <2>1, VisitKeeps, FinishKeeps, RefuseKernelDataKeeps, LinkMemoryKeeps,
       ImportObjectFailsKeeps, SkipWasiKeeps, LinkExternalKeeps, DescendKeeps, LinkDependencyKeeps, InstantiateKeeps
       DEF Link
  <2>2. CASE UNCHANGED vars
    <3>1. UNCHANGED <<imports, todo, frames, loaded, wasi, result>>
      BY <2>2 DEF vars
    <3>2. TypeOK'
      BY <3>1 DEF LinkInv, TypeOK, Modules
    <3> QED
      BY <3>1, <3>2, Unmoved, Rigid
         DEF LinkInv, VerdictRight, RefusedImport, Top, Current, CyclicIsReal
  <2> QED
    BY <2>1, <2>2 DEF Next, Ended
<1> QED
  BY <1>1, LinkInvInit, PTL DEF Spec

(* The linker's state stays well typed, whatever the modules import.       *)
THEOREM LinkTypeCorrect == Spec => []TypeOK
  BY LinkInvariant, PTL DEF LinkInv

(* instantiate_module never runs twice for one module at a time, so the    *)
(* recursion is no deeper than the plugin has modules.                     *)
THEOREM NeverRevisits == Spec => []NoRevisit
<1>1. LinkInv => NoRevisit
  BY DEF LinkInv, Structure, FramesOK
<1> QED
  BY <1>1, LinkInvariant, PTL

(* No import is passed over: the lookup in loaded after the recursion      *)
(* always finds the instance.                                              *)
THEOREM NoImportIsSkipped == Spec => []NothingSkipped
<1>1. LinkInv => NothingSkipped
  BY DEF LinkInv, Structure, FramesOK, NothingSkipped, Settled, Height
<1> QED
  BY <1>1, LinkInvariant, PTL

(* A module is instantiated after everything it imports from, with every   *)
(* import provided.                                                        *)
THEOREM DependenciesAreFirst == Spec => []DependenciesFirst
<1>1. LinkInv => DependenciesFirst
  BY DEF LinkInv, Structure, LoadedOK, DependenciesFirst, Linked, Uses
<1> QED
  BY <1>1, LinkInvariant, PTL

(* Plugin::new accepts only plugins that can be linked, and links all of   *)
(* them; it refuses a plugin at an import only if the plugin cannot be     *)
(* linked or the import is of one of the kinds that are not supported.     *)
THEOREM VerdictIsRight == Spec => []VerdictRight
  BY LinkInvariant, PTL DEF LinkInv

(* CyclicDependency is reported only if modules use each other in a circle. *)
THEOREM CyclesAreReal == Spec => []CyclicIsReal
  BY LinkInvariant, PTL DEF LinkInv

(* The environment of WASIX ends up with a module no other WASI module of  *)
(* the plugin imports from.                                                *)
THEOREM WasiIsOfOutermost == Spec => []WasiOfOutermost
<1>1. LinkInv => WasiOfOutermost
  BY DEF LinkInv, Structure, LoadedOK
<1> QED
  BY <1>1, LinkInvariant, PTL

-----------------------------------------------------------------------------
(* Linking ends because every step takes something away that is not put    *)
(* back.  Of a module its visit as position 0, its imports and its         *)
(* instance, as the position after the last, are ahead until an activation *)
(* is past them or it is loaded.                                           *)
Past(m, k) ==
  \/ m \in loaded
  \/ \E j \in 1..Height : frames[j].name = m /\ k < frames[j].next

Ahead == {p \in Modules \X Nat : /\ p[2] <= Len(imports[p[1]]) + 1
                                 /\ ~Past(p[1], p[2])}

Nearer ==
  result' = "running" =>
    /\ todo' \subseteq todo /\ Ahead' \subseteq Ahead
    /\ todo' # todo \/ Ahead' # Ahead

LEMMA AheadFinite ==
  ASSUME TypeOK, imports \in Plugins
  PROVE  IsFiniteSet(todo) /\ IsFiniteSet(Ahead)
<1> DEFINE Of == [m \in Modules |-> {m} \X (0..(Len(imports[m]) + 1))]
           Ofs == {Of[m] : m \in Modules}
<1>1. IsFiniteSet(Modules)
  BY LinkerAssumption DEF Modules
<1>2. Of \in Surjection(Modules, Ofs)
  BY DEF Surjection
<1>3. IsFiniteSet(Ofs)
  BY <1>1, <1>2, FS_Surjection
<1>4. ASSUME NEW m \in Modules
      PROVE  IsFiniteSet(Of[m])
  <2>1. Len(imports[m]) + 1 \in Nat
    BY DEF TypeOK
  <2>2. IsFiniteSet(0..(Len(imports[m]) + 1))
    BY <2>1, FS_Interval
  <2> QED
    BY <2>2, FS_Singleton, FS_Product
<1>5. IsFiniteSet(UNION Ofs)
  <2>1. \A T \in Ofs : IsFiniteSet(T)
    BY <1>4
  <2> QED
    BY <1>3, <2>1, FS_UNION
<1>6. Ahead \subseteq UNION Ofs
  <2> SUFFICES ASSUME NEW p \in Ahead PROVE p \in UNION Ofs
    OBVIOUS
  <2>1. /\ p[1] \in Modules /\ p[2] \in Nat /\ p = <<p[1], p[2]>>
        /\ p[2] <= Len(imports[p[1]]) + 1 /\ Len(imports[p[1]]) \in Nat
    BY DEF Ahead, TypeOK
  <2>2. p \in Of[p[1]]
    BY <2>1
  <2> QED
    BY <2>1, <2>2
<1> HIDE DEF Ofs
<1> QED
  BY <1>1, <1>5, <1>6, FS_Subset DEF TypeOK

(* What is past stays past.                                                *)
LEMMA AheadShrinks ==
  ASSUME imports' = imports,
         \A m \in Modules : \A k \in Nat : Past(m, k) => Past(m, k)'
  PROVE  Ahead' \subseteq Ahead
  BY DEF Ahead, Modules

(* An import is resolved.                                                  *)
LEMMA AdvanceNearer ==
  ASSUME LinkInv, AtImport, NEW bound \in SUBSET Nat,
         frames' = [frames EXCEPT ![Len(frames)] = Advanced(@, bound)],
         UNCHANGED <<imports, todo, loaded, wasi, result>>
  PROVE  Nearer
<1> USE DEF LinkInv
<1>1. /\ frames # <<>> /\ Height \in Nat \ {0} /\ Top = frames[Height]
      /\ Top.next \in 1..Len(imports[Top.name]) /\ Top.name \in Modules
      /\ Top.next \in Nat /\ Len(imports[Top.name]) \in Nat
  BY Running, AtOneImport
<1>2. /\ Len(frames') = Height
      /\ \A j \in 1..(Height - 1) : frames'[j] = frames[j]
      /\ frames'[Height].name = Top.name
      /\ frames'[Height].next = Top.next + 1
  BY <1>1, ResolvedFrame DEF Resolve, Height
<1>3. ASSUME NEW m \in Modules, NEW k \in Nat, Past(m, k)
      PROVE  Past(m, k)'
  <2>1. CASE m \in loaded
    BY <2>1 DEF Past
  <2>2. ASSUME NEW j \in 1..Height, frames[j].name = m, k < frames[j].next
        PROVE  Past(m, k)'
    <3>1. j \in 1..Len(frames') /\ frames'[j].name = m
      BY <1>1, <1>2, <2>2
    <3>2. k < frames'[j].next
      BY <1>1, <1>2, <2>2
    <3> QED
      BY <3>1, <3>2 DEF Past, Height
  <2> QED
    BY <1>3, <2>1, <2>2 DEF Past
<1>4. <<Top.name, Top.next>> \in Ahead
  <2>1. Top.name \notin loaded
    BY <1>1 DEF Structure, FramesOK, Settled
  <2>2. \A j \in 1..Height : frames[j].name = Top.name => j = Height
    BY <1>1 DEF Structure, FramesOK, NoRevisit, Height
  <2>3. ~Past(Top.name, Top.next)
    BY <1>1, <2>1, <2>2 DEF Past
  <2> QED
    BY <1>1, <2>3 DEF Ahead
<1>5. <<Top.name, Top.next>> \notin Ahead'
  <2>1. Height \in 1..Len(frames') /\ frames'[Height].name = Top.name
        /\ Top.next < frames'[Height].next
    BY <1>1, <1>2
  <2> HIDE DEF LinkInv
  <2>2. \E j \in 1..Len(frames') : /\ frames'[j].name = Top.name
                                   /\ Top.next < frames'[j].next
    BY <2>1
  <2> DEFINE m == Top.name
             k == Top.next
  <2>3. \E j \in 1..Len(frames') : frames'[j].name = m /\ k < frames'[j].next
    BY <2>2
  <2> HIDE DEF m, k
  <2>4. <<m, k>> \notin Ahead'
    BY <2>3 DEF Ahead, Past, Height
  <2> QED
    BY <2>4 DEF m, k
<1> QED
  BY <1>3, <1>4, <1>5, AheadShrinks DEF Nearer

(* A dependency is visited.                                                *)
LEMMA DescendNearer ==
  ASSUME LinkInv, AtImport, NEW m \in Modules, m \notin loaded, ~OnPath(m), Push(m),
         UNCHANGED <<imports, todo, loaded, wasi, result>>
  PROVE  Nearer
<1> USE DEF LinkInv
<1>1. frames # <<>> /\ Height \in Nat \ {0} /\ m \in Namespaces
      /\ Len(imports[m]) \in Nat
  BY Running DEF AtImport, TypeOK
<1>2. /\ Len(frames') = Height + 1
      /\ \A j \in 1..Height : /\ frames'[j].name = frames[j].name
                              /\ frames'[j].next = frames[j].next
      /\ frames'[Height + 1] = Entry(m)
  BY <1>1, Pushed
<1>3. ASSUME NEW n \in Modules, NEW k \in Nat, Past(n, k)
      PROVE  Past(n, k)'
  BY <1>1, <1>2, <1>3 DEF Past, Height
<1>4. <<m, 0>> \in Ahead
  BY <1>1 DEF Ahead, Past, OnPath, Height
<1>5. Past(m, 0)'
  <2>1. frames'[Height + 1].name = m /\ frames'[Height + 1].next = 1
    BY <1>2 DEF Entry
  <2>2. Height + 1 \in 1..Len(frames')
    BY <1>1, <1>2
  <2> QED
    BY <2>1, <2>2 DEF Past, Height
<1>6. <<m, 0>> \notin Ahead'
  BY <1>5 DEF Ahead
<1> QED
  BY <1>3, <1>4, <1>6, AheadShrinks DEF Nearer

(* A module is instantiated.                                               *)
LEMMA InstantiateNearer ==
  ASSUME LinkInv, AtEnd, loaded' = loaded \cup {Top.name}, Pop,
         UNCHANGED <<imports, todo, result>>
  PROVE  Nearer
<1> USE DEF LinkInv
<1> DEFINE m == Top.name
           e == Len(imports[m]) + 1
<1>1. /\ frames # <<>> /\ Height \in Nat \ {0} /\ Top = frames[Height]
      /\ m \in Modules /\ Top.next \in Nat /\ Top.next <= e /\ e \in Nat
  BY Running DEF AtEnd
<1>2. /\ Len(frames') = Height - 1
      /\ \A j \in 1..(Height - 1) : frames'[j] = frames[j]
  BY <1>1, Popped
<1>3. ASSUME NEW n \in Modules, NEW k \in Nat, Past(n, k)
      PROVE  Past(n, k)'
  <2>1. CASE n \in loaded \cup {m}
    BY <2>1 DEF Past
  <2>2. ASSUME NEW j \in 1..Height, n # m, frames[j].name = n, k < frames[j].next
        PROVE  Past(n, k)'
    <3>1. j \in 1..(Height - 1)
      BY <1>1, <2>2
    <3>2. j \in 1..Len(frames') /\ frames'[j] = frames[j]
      BY <1>2, <3>1
    <3> QED
      BY <2>2, <3>2 DEF Past, Height
  <2> QED
    BY <1>3, <2>1, <2>2 DEF Past
<1>4. <<m, e>> \in Ahead
  <2>1. m \notin loaded
    BY <1>1 DEF Structure, FramesOK, Settled
  <2>2. \A j \in 1..Height : frames[j].name = m => j = Height
    BY <1>1 DEF Structure, FramesOK, NoRevisit, Height
  <2>3. ~Past(m, e)
    BY <1>1, <2>1, <2>2 DEF Past
  <2> QED
    BY <1>1, <2>3 DEF Ahead
<1>5. <<m, e>> \notin Ahead'
  <2> HIDE DEF m, e
  <2>1. m \in loaded'
    BY DEF m
  <2> QED
    BY <2>1 DEF Ahead, Past
<1> QED
  BY <1>3, <1>4, <1>5, AheadShrinks DEF Nearer

(* A module of the plugin is visited.                                      *)
LEMMA VisitNearer ==
  ASSUME LinkInv, NEW m \in Modules, Visit(m)
  PROVE  Nearer
<1>1. 1..Height = {} /\ UNCHANGED <<imports, loaded>> /\ m \in todo
      /\ todo' = todo \ {m}
  BY DEF Visit, Height
<1>2. \A n \in Modules : \A k \in Nat : Past(n, k) => Past(n, k)'
  BY <1>1 DEF Past
<1> QED
  BY <1>1, <1>2, AheadShrinks DEF Nearer

LEMMA LinkNearer ==
  ASSUME LinkInv, Link
  PROVE  Nearer
<1>1. ASSUME NEW why \in Failures, Fail(why)
      PROVE  Nearer
  BY <1>1 DEF Fail, Failures, Nearer
<1>2. CASE \E m \in Modules : Visit(m)
  BY <1>2, VisitNearer
<1>3. CASE Finish
  BY <1>3 DEF Finish, Nearer
<1>4. ASSUME AtImport, Define
      PROVE  Nearer
  <2>1. {Top.next} \in SUBSET Nat /\ Top = frames[Len(frames)]
    BY <1>4, Running DEF AtImport, LinkInv, Height
  <2>2. frames' = [frames EXCEPT ![Len(frames)] = Advanced(@, {Top.next})]
    BY <1>4, <2>1 DEF Define
  <2> QED
    BY <1>4, <2>1, <2>2, AdvanceNearer DEF Define
<1>5. ASSUME AtImport,
             frames' = [frames EXCEPT ![Len(frames)] = Advanced(@, {})],
             UNCHANGED <<imports, todo, loaded, wasi, result>>
      PROVE  Nearer
  <2> DEFINE none == {}
  <2>1. none \in SUBSET Nat
    OBVIOUS
  <2>2. frames' = [frames EXCEPT ![Len(frames)] = Advanced(@, none)]
    BY <1>5
  <2> HIDE DEF none
  <2> QED
    BY <1>5, <2>1, <2>2, AdvanceNearer
<1>6. CASE RefuseKernelData \/ ImportObjectFails
  BY <1>1, <1>6 DEF RefuseKernelData, ImportObjectFails, Failures
<1>7. CASE SkipWasi
  BY <1>4, <1>5, <1>7 DEF SkipWasi
<1>8. CASE LinkMemory
  BY <1>1, <1>4, <1>8 DEF LinkMemory, Failures
<1>9. CASE LinkExternal
  <2>1. AtImport /\ (Define \/ Fail("IncompatibleType"))
    BY <1>9 DEF LinkExternal
  <2> QED
    BY <1>1, <1>4, <2>1 DEF Failures
<1>10. CASE Descend
  <2>1. \/ Fail("Export") \/ Fail("CyclicDependency")
        \/ /\ AtImport /\ Current.from \in Modules /\ Current.from \notin loaded
           /\ ~OnPath(Current.from) /\ Push(Current.from)
           /\ UNCHANGED <<imports, todo, loaded, wasi, result>>
    BY <1>10 DEF Descend, Push, Height
  <2> QED
    BY <1>1, <2>1, DescendNearer DEF Failures
<1>11. CASE LinkDependency
  <2>1. /\ AtImport
        /\ \/ Fail("MissingExport") \/ Fail("IncompatibleType") \/ Define
           \/ /\ frames' = [frames EXCEPT ![Len(frames)] = Advanced(@, {})]
              /\ UNCHANGED <<imports, todo, loaded, wasi, result>>
    BY <1>11 DEF LinkDependency
  <2> QED
    BY <1>1, <1>4, <1>5, <2>1 DEF Failures
<1>12. CASE Instantiate
  <2>1. /\ AtEnd
        /\ \/ Fail("Wasmer") \/ Fail("Export")
           \/ /\ loaded' = loaded \cup {Top.name} /\ Pop
              /\ UNCHANGED <<imports, todo, result>>
    BY <1>12 DEF Instantiate, Pop, Height
  <2> QED
    BY <1>1, <2>1, InstantiateNearer DEF Failures
<1> QED
  BY <1>2, <1>3, <1>6, <1>7, <1>8, <1>9, <1>10, <1>11, <1>12 DEF Link

(* Every step of the loop and of the recursion either ends linking or      *)
(* takes something away from two finite sets and adds nothing: with cycles *)
(* and with any number of modules there are only finitely many steps.      *)
THEOREM LinkingGetsOn ==
  Spec => [](IsFiniteSet(todo) /\ IsFiniteSet(Ahead)) /\ [][Nearer]_vars
<1>1. Init => imports \in Plugins
  BY DEF Init
<1>2. imports \in Plugins /\ [Next]_vars => (imports \in Plugins)'
  BY DEF Next, Link, Ended, vars, Visit, Finish, RefuseKernelData, ImportObjectFails,
         SkipWasi, LinkMemory, LinkExternal, Descend, LinkDependency, Instantiate,
         Fail, Define
<1>3. LinkInv /\ imports \in Plugins => IsFiniteSet(todo) /\ IsFiniteSet(Ahead)
  BY AheadFinite DEF LinkInv
<1>4. LinkInv /\ [Next]_vars => [Nearer]_vars
  BY LinkNearer DEF Next, Ended
<1> QED
  BY <1>1, <1>2, <1>3, <1>4, LinkInvariant, PTL DEF Spec
=============================================================================
