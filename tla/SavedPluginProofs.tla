------------------------- MODULE SavedPluginProofs -------------------------
(***************************************************************************)
(* Proofs about SavedPlugin, for any names and modules and maps of any     *)
(* size.  Each of the three loops has its invariant: what it has moved so  *)
(* far is in the map it fills, under the right key and with the right      *)
(* value.                                                                  *)
(***************************************************************************)
EXTENDS SavedPlugin, TLAPS

(* The n entries of s read so far are collected in m: every key has an     *)
(* entry, the value is that of the last.                                   *)
Collected(m, s, n) ==
  /\ \A j \in 1..n : s[j][1] \in DOMAIN m
  /\ \A k \in DOMAIN m : \E j \in 1..n :
       s[j][1] = k /\ s[j][2] = m[k] /\ \A i \in 1..n : s[i][1] = k => i <= j

(* The entries of s are those of m, for the keys in D.                     *)
Lists(s, m, D) ==
  /\ \A k \in D : \E j \in 1..Len(s) : s[j][1] = k
  /\ \A j \in 1..Len(s) : s[j][1] \in D /\ s[j][2] = m[s[j][1]]

Fresh == phase \in {"idle", "reading"} => plugin = NoMap
Unread == phase = "idle" => at = 0 /\ given = NoMap

Reading ==
  phase \in {"reading", "loading"} =>
    /\ at <= Len(file) /\ (phase = "loading" => at = Len(file))
    /\ Collected(given, file, at)

(* The plugin has the modules taken so far; None is taken first, so a      *)
(* module called "main" comes later and wins.                              *)
Named(taken) ==
  /\ DOMAIN plugin = {NameOf(k) : k \in taken}
  /\ \A k \in taken \cap Names : plugin[k] = given[k]
  /\ Unnamed \in taken /\ Main \notin taken => plugin[Main] = given[Unnamed]

Naming ==
  phase \in {"loading", "making"} =>
    /\ todo \subseteq DOMAIN given
    /\ Unnamed \in todo => todo = DOMAIN given
    /\ Named(DOMAIN given \ todo)

Writing ==
  phase = "saving" =>
    todo \subseteq DOMAIN plugin /\ Lists(out, plugin, DOMAIN plugin \ todo)

Intact == \A m \in saved : Lists(file, m, DOMAIN m)

SavedInv ==
  /\ TypeOK /\ Fresh /\ Unread /\ Reading /\ Naming
  /\ phase \in {"running", "saving"} => Named(DOMAIN given)
  /\ Writing /\ Intact

-----------------------------------------------------------------------------
(* Maps.                                                                   *)
LEMMA MapIs ==
  ASSUME NEW K, NEW m \in Map(K)
  PROVE  DOMAIN m \subseteq K /\ m \in [DOMAIN m -> Code]
  BY DEF Map

LEMMA IsMap ==
  ASSUME NEW K, NEW D \in SUBSET K, NEW m \in [D -> Code]
  PROVE  m \in Map(K)
  BY DEF Map

LEMMA NoMapIsMap == DOMAIN NoMap = {} /\ \A K : NoMap \in Map(K)
<1>1. DOMAIN NoMap = {} /\ NoMap \in [{} -> Code]
  BY DEF NoMap
<1> QED
  BY <1>1, IsMap

LEMMA InsertedIsMap ==
  ASSUME NEW K, NEW m \in Map(K), NEW k \in K, NEW c \in Code
  PROVE  Insert(m, k, c) \in Map(K)
<1>1. DOMAIN m \subseteq K /\ m \in [DOMAIN m -> Code]
  BY MapIs
<1>2. Insert(m, k, c) \in [DOMAIN m \cup {k} -> Code]
  BY <1>1 DEF Insert
<1> QED
  BY <1>1, <1>2, IsMap

LEMMA NameType ==
  ASSUME NEW k \in Keys
  PROVE  NameOf(k) \in Names
  BY SavedAssumption DEF NameOf, Keys

-----------------------------------------------------------------------------
(* The invariant, action by action.                                        *)
LEMMA InitInv == Init => SavedInv
<1> SUFFICES ASSUME Init PROVE SavedInv
  OBVIOUS
<1>1. TypeOK
  BY NoMapIsMap DEF Init, TypeOK, Phases
<1> QED
  BY <1>1 DEF Init, SavedInv, Fresh, Unread, Reading, Naming, Writing, Intact

LEMMA NewInv ==
  ASSUME SavedInv, New
  PROVE  SavedInv'
<1> USE DEF SavedInv
<1>1. CASE \E c \in Native :
             /\ phase' = "running"
             /\ given' = [k \in {Main} |-> c] /\ plugin' = given' /\ todo' = {}
  <2>1. PICK c \in Native :
             /\ phase' = "running"
             /\ given' = [k \in {Main} |-> c] /\ plugin' = given' /\ todo' = {}
    BY <1>1
  <2>2. given' \in [{Main} -> Code] /\ {Main} \subseteq Keys /\ {Main} \subseteq Names
    BY <2>1, SavedAssumption DEF Keys
  <2>3. given' \in Map(Keys) /\ plugin' \in Map(Names)
    BY <2>1, <2>2, IsMap
  <2>4. TypeOK'
    BY <2>1, <2>3 DEF New, TypeOK, Phases
  <2>5. Named(DOMAIN given)'
    BY <2>1, SavedAssumption DEF Named, NameOf
  <2>6. Intact'
    BY DEF New, Intact, Lists
  <2> QED
    BY <2>1, <2>4, <2>5, <2>6 DEF Fresh, Unread, Reading, Naming, Writing
<1>2. ASSUME NEW D \in SUBSET Keys, NEW m \in [D -> Native],
             phase' = "making", given' = m, todo' = D, plugin' = plugin
      PROVE  SavedInv'
  <2>1. m \in [D -> Code]
    BY SavedAssumption
  <2>2. m \in Map(Keys)
    BY <2>1, IsMap
  <2>3. TypeOK'
    BY <1>2, <2>2 DEF New, TypeOK, Phases
  <2>4. DOMAIN plugin = {}
    BY NoMapIsMap DEF New, Fresh
  <2>5. Naming'
    BY <1>2, <2>4 DEF Naming, Named
  <2>6. Intact'
    BY DEF New, Intact, Lists
  <2> QED
    BY <1>2, <2>3, <2>5, <2>6 DEF Fresh, Unread, Reading, Writing, New
<1> QED
  BY <1>1, <1>2 DEF New

(* The match: None, if it is there, is taken before any name.              *)
LEMMA TakeInv ==
  ASSUME SavedInv, NEW k \in Keys, Take(k)
  PROVE  SavedInv'
<1> USE DEF SavedInv
<1> DEFINE taken == DOMAIN given \ todo
<1>1. /\ phase \in {"loading", "making"}
      /\ k \in todo /\ k \in DOMAIN given /\ todo \subseteq DOMAIN given
      /\ k = Unnamed \/ Unnamed \notin todo
      /\ Unnamed \in todo => todo = DOMAIN given
      /\ Named(taken)
  BY DEF Take, First, Naming
<1>2. given[k] \in Code /\ DOMAIN given \subseteq Keys
  BY <1>1, MapIs DEF TypeOK
<1>3. /\ plugin' \in Map(Names)
      /\ DOMAIN plugin' = DOMAIN plugin \cup {NameOf(k)}
      /\ plugin'[NameOf(k)] = given[k]
      /\ \A x \in DOMAIN plugin : x # NameOf(k) => plugin'[x] = plugin[x]
  <2>1. plugin' = Insert(plugin, NameOf(k), given[k])
    BY DEF Take
  <2>2. plugin \in Map(Names) /\ NameOf(k) \in Names
    BY NameType DEF TypeOK
  <2>3. plugin' \in Map(Names)
    BY <1>2, <2>1, <2>2, InsertedIsMap
  <2> QED
    BY <2>1, <2>3 DEF Insert
<1>4. DOMAIN given' \ todo' = taken \cup {k} /\ given' = given
  BY <1>1 DEF Take
<1>5. TypeOK'
  BY <1>3 DEF Take, TypeOK
<1>6. DOMAIN plugin' = {NameOf(x) : x \in taken \cup {k}}
  BY <1>1, <1>3 DEF Named
<1>7. ASSUME NEW x \in (taken \cup {k}) \cap Names
      PROVE  plugin'[x] = given[x]
  <2>1. NameOf(x) = x
    BY <1>7, SavedAssumption DEF NameOf
  <2>2. CASE x = k
    BY <1>3, <2>1, <2>2
  <2>3. CASE x # k
    <3>1. x \in taken /\ x \in DOMAIN plugin /\ plugin[x] = given[x]
      BY <1>1, <1>7, <2>1, <2>3 DEF Named
    <3>2. k # Unnamed
      BY <1>1, <3>1
    <3> QED
      BY <1>3, <2>3, <3>1, <3>2 DEF NameOf
  <2> QED
    BY <2>2, <2>3
<1>8. ASSUME Unnamed \in taken \cup {k}, Main \notin taken \cup {k}
      PROVE  plugin'[Main] = given[Unnamed]
  <2>1. CASE k = Unnamed
    BY <1>3, <2>1 DEF NameOf
  <2>2. CASE k # Unnamed
    <3>1. Unnamed \in taken /\ Main \notin taken /\ k # Main
      BY <1>8, <2>2
    <3>2. plugin[Main] = given[Unnamed]
      BY <1>1, <3>1 DEF Named
    <3>3. Main \in DOMAIN plugin
      BY <1>1, <3>1 DEF Named, NameOf
    <3> QED
      BY <1>3, <2>2, <3>1, <3>2, <3>3 DEF NameOf
  <2> QED
    BY <2>1, <2>2
<1>9. Naming'
  <2>1. Named(DOMAIN given \ todo)'
    BY <1>4, <1>6, <1>7, <1>8 DEF Named
  <2>2. Unnamed \notin todo'
    BY <1>1 DEF Take
  <2> QED
    BY <1>1, <1>4, <2>1, <2>2 DEF Naming, Take
<1>10. Reading' /\ Intact'
  <2>1. UNCHANGED <<phase, given, at, file, saved>>
    BY DEF Take
  <2>2. Intact'
    BY <2>1 DEF Intact, Lists
  <2>3. CASE phase' = "loading"
    <3>1. at <= Len(file) /\ at = Len(file) /\ Collected(given, file, at)
      BY <2>1, <2>3 DEF Reading
    <3> QED
      BY <2>1, <2>2, <3>1 DEF Reading, Collected
  <2>4. CASE phase' # "loading"
    BY <1>1, <2>1, <2>2, <2>4 DEF Reading
  <2> QED
    BY <2>3, <2>4
<1>11. Fresh' /\ Unread' /\ Writing'
  BY <1>1 DEF Take, Fresh, Unread, Writing
<1> QED
  BY <1>1, <1>5, <1>9, <1>10, <1>11 DEF Take

LEMMA MadeInv ==
  ASSUME SavedInv, Made
  PROVE  SavedInv'
<1>1. TypeOK'
  BY DEF SavedInv, Made, TypeOK, Phases
<1>2. Named(DOMAIN given)'
  <2>1. DOMAIN given \ todo = DOMAIN given
    BY DEF Made
  <2> QED
    BY <2>1 DEF SavedInv, Made, Naming, Named
<1> QED
  BY <1>1, <1>2 DEF SavedInv, Made, Fresh, Unread, Reading, Naming, Writing,
     Intact, Lists

LEMMA SaveInv ==
  ASSUME SavedInv, Save
  PROVE  SavedInv'
<1>1. TypeOK'
  <2>1. DOMAIN plugin \subseteq Keys
    BY MapIs DEF SavedInv, TypeOK, Keys
  <2> QED
    BY <2>1 DEF SavedInv, Save, TypeOK, Phases
<1>2. Writing'
  BY DEF Save, Writing, Lists
<1> QED
  BY <1>1, <1>2 DEF SavedInv, Save, Fresh, Unread, Reading, Naming, Named, Intact, Lists

(* Serialize: what is written so far is listed.                            *)
LEMMA WriteInv ==
  ASSUME SavedInv, NEW k \in Keys, Write(k)
  PROVE  SavedInv'
<1> USE DEF SavedInv
<1>1. /\ phase = "saving" /\ k \in todo /\ todo \subseteq DOMAIN plugin
      /\ Lists(out, plugin, DOMAIN plugin \ todo)
      /\ out \in Seq(Keys \X Code)
  BY DEF Write, Writing, TypeOK
<1>2. <<k, plugin[k]>> \in Keys \X Code
  BY <1>1, MapIs DEF TypeOK
<1>3. /\ out' \in Seq(Keys \X Code)
      /\ Len(out) \in Nat /\ Len(out') = Len(out) + 1
      /\ out'[Len(out) + 1] = <<k, plugin[k]>>
      /\ \A j \in 1..Len(out) : out'[j] = out[j]
  BY <1>1, <1>2 DEF Write
<1>4. TypeOK'
  BY <1>3 DEF Write, TypeOK
<1>5. Lists(out', plugin, (DOMAIN plugin \ todo) \cup {k})
  <2>1. \A j \in 1..Len(out') : j \in 1..Len(out) \/ j = Len(out) + 1
    BY <1>3
  <2>2. Len(out) + 1 \in 1..Len(out') /\ \A j \in 1..Len(out) : j \in 1..Len(out')
    BY <1>3
  <2>3. \A x \in (DOMAIN plugin \ todo) \cup {k} : \E j \in 1..Len(out') : out'[j][1] = x
    BY <1>1, <1>3, <2>2 DEF Lists
  <2>4. \A j \in 1..Len(out') : /\ out'[j][1] \in (DOMAIN plugin \ todo) \cup {k}
                               /\ out'[j][2] = plugin[out'[j][1]]
    BY <1>1, <1>3, <2>1 DEF Lists
  <2> QED
    BY <2>3, <2>4 DEF Lists
<1>6. Writing'
  <2>1. DOMAIN plugin' \ todo' = (DOMAIN plugin \ todo) \cup {k} /\ plugin' = plugin
    BY <1>1 DEF Write
  <2> QED
    BY <1>1, <1>5, <2>1 DEF Writing, Write
<1> QED
  BY <1>1, <1>4, <1>6
     DEF Write, Fresh, Unread, Reading, Naming, Named, Intact, Lists

LEMMA SaveFailsInv ==
  ASSUME SavedInv, SaveFails
  PROVE  SavedInv'
<1>1. TypeOK'
  BY DEF SavedInv, SaveFails, TypeOK, Phases
<1> QED
  BY <1>1 DEF SavedInv, SaveFails, Fresh, Unread, Reading, Naming, Named, Writing,
     Intact, Lists

(* Only the whole list becomes the file.                                   *)
LEMMA SavedStepInv ==
  ASSUME SavedInv, Saved
  PROVE  SavedInv'
<1> USE DEF SavedInv
<1>1. TypeOK'
  BY DEF Saved, TypeOK, Phases
<1>2. Lists(out, plugin, DOMAIN plugin)
  <2>1. DOMAIN plugin \ todo = DOMAIN plugin
    BY DEF Saved
  <2> QED
    BY <2>1 DEF Saved, Writing
<1>3. Intact'
  BY <1>2 DEF Saved, Intact
<1> QED
  BY <1>1, <1>3 DEF Saved, Fresh, Unread, Reading, Naming, Named, Writing

LEMMA EndInv ==
  ASSUME SavedInv, End
  PROVE  SavedInv'
<1>1. TypeOK'
  BY NoMapIsMap DEF SavedInv, End, TypeOK, Phases
<1> QED
  BY <1>1 DEF SavedInv, End, Fresh, Unread, Reading, Naming, Named, Writing,
     Intact, Lists

LEMMA EditInv ==
  ASSUME SavedInv, NEW k \in Keys, NEW c \in Code, Edit(k, c)
  PROVE  SavedInv'
<1>1. TypeOK'
  BY DEF SavedInv, Edit, TypeOK
<1> QED
  BY <1>1 DEF SavedInv, Edit, Fresh, Unread, Reading, Naming, Named, Writing,
     Intact, Lists

LEMMA LoadInv ==
  ASSUME SavedInv, Load
  PROVE  SavedInv'
<1> USE DEF SavedInv
<1>1. TypeOK'
  BY DEF Load, TypeOK, Phases
<1>2. Reading'
  <2>1. at = 0 /\ DOMAIN given = {} /\ Len(file) \in Nat
    BY NoMapIsMap DEF Load, Unread, TypeOK
  <2> QED
    BY <2>1 DEF Load, Reading, Collected
<1> QED
  BY <1>1, <1>2 DEF Load, Fresh, Unread, Naming, Named, Writing, Intact, Lists

(* visit_map: the entry just read is the last of its key so far.           *)
LEMMA ReadInv ==
  ASSUME SavedInv, Read
  PROVE  SavedInv'
<1> USE DEF SavedInv
<1> DEFINE n == at + 1
           k == file[n][1]
           c == file[n][2]
<1>1. /\ phase = "reading" /\ at < Len(file) /\ at \in Nat /\ Len(file) \in Nat
      /\ n \in 1..Len(file) /\ k \in Keys /\ c \in Code
      /\ Collected(given, file, at)
  <2>1. /\ phase = "reading" /\ at < Len(file) /\ at \in Nat /\ Len(file) \in Nat
        /\ file \in Seq(Keys \X Code)
    BY DEF Read, TypeOK
  <2>2. n \in 1..Len(file)
    BY <2>1
  <2>3. file[n] \in Keys \X Code
    BY <2>1, <2>2
  <2> QED
    BY <2>1, <2>2, <2>3 DEF Reading
<1>2. Intact'
  BY DEF Read, Intact, Lists
<1>3. CASE c \in Native /\ given' = Insert(given, k, c) /\ at' = n /\ phase' = phase
  <2>1. /\ given' \in Map(Keys) /\ DOMAIN given' = DOMAIN given \cup {k}
        /\ given'[k] = c
        /\ \A x \in DOMAIN given : x # k => given'[x] = given[x]
    <3>1. given \in Map(Keys)
      BY DEF TypeOK
    <3> HIDE DEF k, c
    <3>2. given' \in Map(Keys)
      BY <1>1, <1>3, <3>1, InsertedIsMap
    <3> QED
      BY <1>3, <3>2 DEF Insert
  <2>2. TypeOK'
    BY <1>1, <1>3, <2>1 DEF Read, TypeOK
  <2>3. /\ \A j \in 1..n : j \in 1..at \/ j = n
        /\ \A j \in 1..at : j \in 1..n
        /\ n \in 1..n /\ \A j \in 1..n : j <= n
    BY <1>1
  <2>4. Collected(given', file, n)
    <3>1. \A j \in 1..n : file[j][1] \in DOMAIN given'
      BY <1>1, <2>1, <2>3 DEF Collected
    <3>2. ASSUME NEW x \in DOMAIN given'
          PROVE  \E j \in 1..n : /\ file[j][1] = x /\ file[j][2] = given'[x]
                                 /\ \A i \in 1..n : file[i][1] = x => i <= j
      <4>1. CASE x = k
        BY <2>1, <2>3, <4>1
      <4>2. CASE x # k
        <5>1. PICK j \in 1..at :
                   /\ file[j][1] = x /\ file[j][2] = given[x]
                   /\ \A i \in 1..at : file[i][1] = x => i <= j
          BY <1>1, <2>1, <4>2 DEF Collected
        <5>2. \A i \in 1..n : file[i][1] = x => i <= j
          BY <2>3, <4>2, <5>1
        <5> QED
          BY <2>1, <2>3, <4>2, <5>1, <5>2
      <4> QED
        BY <4>1, <4>2
    <3> QED
      BY <3>1, <3>2 DEF Collected
  <2>5. Reading'
    <3>1. n <= Len(file) /\ file' = file
      BY <1>1 DEF Read
    <3> HIDE DEF n
    <3> QED
      BY <1>1, <1>3, <2>4, <3>1 DEF Reading
  <2> QED
    BY <1>1, <1>2, <1>3, <2>2, <2>5 DEF Read, Fresh, Unread, Naming, Writing
<1>4. CASE phase' = "idle" /\ given' = NoMap /\ at' = 0
  <2>1. TypeOK'
    BY <1>4, NoMapIsMap DEF Read, TypeOK, Phases
  <2> QED
    BY <1>1, <1>2, <1>4, <2>1 DEF Read, Fresh, Unread, Reading, Naming, Writing
<1> QED
  BY <1>3, <1>4 DEF Read

LEMMA LoadedInv ==
  ASSUME SavedInv, Loaded
  PROVE  SavedInv'
<1> USE DEF SavedInv
<1>1. TypeOK'
  <2>1. DOMAIN given \subseteq Keys
    BY MapIs DEF TypeOK
  <2> QED
    BY <2>1 DEF Loaded, TypeOK, Phases
<1>2. Reading'
  BY DEF Loaded, Reading, Collected, TypeOK
<1>3. Naming'
  <2>1. DOMAIN plugin = {} /\ DOMAIN given \ DOMAIN given = {}
    BY NoMapIsMap DEF Loaded, Fresh
  <2> QED
    BY <2>1 DEF Loaded, Naming, Named
<1> QED
  BY <1>1, <1>2, <1>3 DEF Loaded, Fresh, Unread, Writing, Intact, Lists

LEMMA SavedInvariant == Spec => []SavedInv
<1>1. SavedInv /\ [Next]_vars => SavedInv'
  <2> SUFFICES ASSUME SavedInv, [Next]_vars PROVE SavedInv'
    OBVIOUS
  <2>1. CASE New \/ Made \/ Load \/ Read \/ Loaded
    BY <2>1, NewInv, MadeInv, LoadInv, ReadInv, LoadedInv
  <2>2. CASE Save \/ SaveFails \/ Saved \/ End
    BY <2>2, SaveInv, SaveFailsInv, SavedStepInv, EndInv
  <2>3. ASSUME NEW k \in Keys, Take(k) \/ Write(k)
        PROVE  SavedInv'
    BY <2>3, TakeInv, WriteInv
  <2>4. ASSUME NEW k \in Keys, NEW c \in Code, Edit(k, c)
        PROVE  SavedInv'
    BY <2>4, EditInv
  <2>5. CASE UNCHANGED vars
    BY <2>5 DEF vars, SavedInv, TypeOK, Fresh, Unread, Reading, Collected,
       Naming, Named, Writing, Intact, Lists
  <2> QED
    BY <2>1, <2>2, <2>3, <2>4, <2>5 DEF Next
<1> QED
  BY <1>1, InitInv, PTL DEF Spec

-----------------------------------------------------------------------------
(* A plugin has named modules only, and what is saved of it as well.       *)
THEOREM SavedTypeCorrect == Spec => []TypeOK
  BY SavedInvariant, PTL DEF SavedInv

(* Of the map a plugin is made from, the plugin has every module under its *)
(* name; only one without a name gives way to one called "main".           *)
THEOREM NamesAreKept == Spec => []NamesKept
<1>1. SavedInv => NamesKept
  BY SavedAssumption DEF SavedInv, NamesKept, Named, NameOf
<1> QED
  BY <1>1, SavedInvariant, PTL

(* Loading a saved plugin gives the plugin that was saved, and loading an  *)
(* edited map gives the last entry of every name, or an error.             *)
THEOREM WhatIsSavedIsLoaded == Spec => SavedIsLoaded
<1>1. SavedInv /\ [Next]_vars => [RightlyLoaded]_vars
  <2> SUFFICES ASSUME SavedInv, Next, phase = "loading", phase' = "running"
               PROVE  RightlyLoaded
    BY DEF RightlyLoaded
  <2>1. Made
    BY DEF Next, New, Take, Write, Save, SaveFails, Saved, End, Edit, Load, Read,
       Loaded
  <2>2. /\ plugin' = plugin /\ DOMAIN given \ todo = DOMAIN given
        /\ Collected(given, file, Len(file)) /\ Len(file) \in Nat
        /\ Named(DOMAIN given) /\ given \in Map(Keys) /\ plugin \in Map(Names)
    BY <2>1 DEF Made, SavedInv, Reading, Naming, TypeOK
  <2>3. ASSUME NEW j \in 1..Len(file), file[j][1] \in Names, LastIn(file, j)
        PROVE  file[j][1] \in DOMAIN plugin /\ plugin[file[j][1]] = file[j][2]
    <3> DEFINE k == file[j][1]
    <3>1. k \in DOMAIN given
      BY <2>2 DEF Collected
    <3>2. given[k] = file[j][2]
      <4>1. PICK l \in 1..Len(file) :
                 /\ file[l][1] = k /\ file[l][2] = given[k]
                 /\ \A i \in 1..Len(file) : file[i][1] = k => i <= l
        BY <2>2, <3>1 DEF Collected
      <4>2. j <= l
        BY <4>1
      <4>3. DOMAIN file = 1..Len(file)
        BY DEF SavedInv, TypeOK
      <4>4. l <= j
        BY <2>3, <4>1, <4>3 DEF LastIn
      <4>5. l = j
        BY <2>2, <4>2, <4>4
      <4> QED
        BY <4>1, <4>5
    <3>3. k \in DOMAIN plugin /\ plugin[k] = given[k]
      BY <2>2, <2>3, <3>1, SavedAssumption DEF Named, NameOf
    <3> QED
      BY <3>2, <3>3
  <2>4. ASSUME NEW m \in saved
        PROVE  plugin = m
    <3>1. m \in Map(Names) /\ Lists(file, m, DOMAIN m)
      BY <2>4 DEF SavedInv, TypeOK, Intact
    <3>2. DOMAIN m \subseteq Names /\ m \in [DOMAIN m -> Code]
      BY <3>1, MapIs
    <3>3. DOMAIN given = DOMAIN m /\ \A k \in DOMAIN m : given[k] = m[k]
      <4>1. DOMAIN m \subseteq DOMAIN given
        BY <2>2, <3>1 DEF Lists, Collected
      <4>2. ASSUME NEW k \in DOMAIN given
            PROVE  k \in DOMAIN m /\ given[k] = m[k]
        <5>1. PICK j \in 1..Len(file) : file[j][1] = k /\ file[j][2] = given[k]
          BY <2>2 DEF Collected
        <5> QED
          BY <3>1, <5>1 DEF Lists
      <4> QED
        BY <4>1, <4>2
    <3>4. DOMAIN plugin = DOMAIN m
      <4>1. \A k \in DOMAIN m : NameOf(k) = k
        BY <3>2, SavedAssumption DEF NameOf
      <4> QED
        BY <2>2, <3>3, <4>1 DEF Named
    <3>5. \A k \in DOMAIN m : plugin[k] = m[k]
      BY <2>2, <3>2, <3>3 DEF Named
    <3>6. plugin \in [DOMAIN m -> Code]
      BY <2>2, <3>4, MapIs
    <3> QED
      BY <3>2, <3>5, <3>6
  <2>5. saved # {} => plugin \in saved
    BY <2>4
  <2>6. DOMAIN file = 1..Len(file)
    BY DEF SavedInv, TypeOK
  <2> QED
    BY <2>2, <2>3, <2>5, <2>6 DEF RightlyLoaded
<1> QED
  BY <1>1, SavedInvariant, PTL DEF Spec, SavedIsLoaded
=============================================================================
