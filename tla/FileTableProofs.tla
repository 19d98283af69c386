--------------------------- MODULE FileTableProofs ---------------------------
(***************************************************************************)
(* The counters of FileTable are right, for any processes, objects and size *)
(* of a table: the facts about finite sets that FileSteps rests on, and the *)
(* theorem.                                                                 *)
(***************************************************************************)
EXTENDS FileSteps, FiniteSetTheorems

\* Here the last two ends of a pipe race, unless one CPU runs them all.
LEMMA FreePipeKeeps ==
    ASSUME Counting, Typed, \A q \in Procs : Sound(q), Fresh, Alone, FilesCounted, Typed', NEW p \in Procs, Step(p), FreePipe(p)
    PROVE  Fresh' /\ FilesCounted'
<1> DEFINE i == slot[p]
           o == Fd(p, i).obj
<1>2. /\ pc[p] = "check"
      /\ freed' = IF readers[o] <= 0 /\ writers[o] <= 0 THEN [freed EXCEPT ![o] = @ + 1] ELSE freed
      /\ fds' = [fds EXCEPT ![p][i] = Empty] /\ pc' = [pc EXCEPT ![p] = "closed"]
      /\ UNCHANGED <<refs, readers, writers, used, slot>>
  BY DEF FreePipe, At, Unused, Kfree
<1>3. i \in Slots /\ o \in Pipes /\ o \in used
  <2>1. i \in Slots /\ Fd(p, i) = fds[p][i] /\ fds[p][i].kind \in {"read", "write"}
    BY <1>2, DropTyped, Zenon DEF Sound
  <2>2. o \in Pipes /\ fds[p][i] # Empty
    BY <2>1, DropTyped, OpenFacts, Zenon DEF Kinds
  <2> QED
    BY <2>1, <2>2 DEF Fresh
<1>4. Held' = Held /\ Held \in Views
  BY HeldFacts, HeldFree
<1>5. Counted(Held, refs, readers, writers) /\ Freed(Held, freed, used, Shut, Once)
  BY Restated
<1>6. ASSUME NEW q \in Procs, q # p
      PROVE  /\ pc'[q] = pc[q] /\ slot'[q] = slot[q]
             /\ pc[q] = "check" => fds'[q] = fds[q]
             /\ OneCpu => pc[q] # "check"
  <2>1. fds'[q] = fds[q] /\ pc'[q] = pc[q]
    BY <1>2, <1>6 DEF Typed
  <2>2. OneCpu => pc[q] # "check"
    BY <1>2, <1>6 DEF Alone, Outside
  <2> QED
    BY <1>2, <2>1, <2>2
<1>7. pc'[p] = "closed"
  BY <1>2 DEF Typed
<1>8. o \in Shut /\ Shut' \subseteq Shut /\ Shut \subseteq Shut' \cup {o} /\ (OneCpu => Shut' = {})
  <2>1. \A x : Closing(x)' => Closing(x)
    BY <1>6, <1>7 DEF Closing, Fd
  <2>2. \A x : Closing(x) => Closing(x)' \/ x = o
    BY <1>6, <1>7 DEF Closing, Fd
  <2>3. Closing(o)
    BY <1>2 DEF Closing
  <2>4. OneCpu => \A x : ~Closing(x)'
    BY <1>6, <1>7 DEF Closing
  <2> QED
    BY <1>3, <2>1, <2>2, <2>3, <2>4 DEF Shut
<1> HIDE DEF i, o
<1>9. o \in Once => o \notin Shut'
  BY <1>3, <1>8, FileTableAssumption DEF Once
<1>10. Once' = Once
  BY OnceKept
<1>11. Freed(Held', freed', used', Shut', Once')
  <2>1. freed \in [Files \cup Pipes -> Int]
    BY DEF Typed
  <2>2. Freed(Held, IF readers[o] <= 0 /\ writers[o] <= 0 THEN [freed EXCEPT ![o] = @ + 1] ELSE freed,
              used, Shut', Once)
    BY <1>3, <1>4, <1>5, <1>8, <1>9, <2>1, FreedFree, ZenonT(40)
  <2> QED
    BY <1>2, <1>4, <1>10, <2>2
<1>12. FilesCounted'
  BY <1>2, <1>4, <1>5, <1>11, RestatedAfter
<1>13. Fresh'
  <2>1. \A q \in Procs, x \in Slots : fds'[q][x] \in {Empty, fds[q][x]}
    BY <1>2, <1>3 DEF Typed, Tables
  <2>2. \A x \in (Files \cup Pipes) \ used' : freed'[x] = freed[x]
    BY <1>2, <1>3 DEF Typed
  <2> QED
    BY <1>2, <2>1, <2>2 DEF Fresh
<1> QED
  BY <1>12, <1>13

LEMMA QuietKeeps ==
    ASSUME Typed, \A q \in Procs : Sound(q), Fresh, FilesCounted, Typed', NEW p \in Procs, Step(p), Quiet(p)
    PROVE  Fresh' /\ FilesCounted'
<1>2. Held' = Held /\ Shut' = Shut /\ Once' = Once /\ UNCHANGED <<fds, refs, readers, writers, freed, used>>
  BY HeldQuiet, ShutKept, OnceKept DEF Quiet
<1>3. Counted(Held, refs, readers, writers) /\ Freed(Held, freed, used, Shut, Once)
  BY Restated
<1>4. FilesCounted'
  BY <1>2, <1>3, RestatedAfter
<1> QED
  BY <1>2, <1>4 DEF Fresh

\* The child of a fork, or of a spawn, with or without a terminal of its own.
LEMMA NewProcessKeeps ==
    ASSUME Counting, Typed, \A q \in Procs : Sound(q), Fresh, FilesCounted, Typed', NEW p \in Procs, Step(p), NEW c \in Procs, Fork(p, c) \/ Spawn(p, c)
    PROVE  Fresh' /\ FilesCounted'
<1>2. pc[p] = "user" /\ c \notin alive /\ UNCHANGED <<pc, slot, freed>>
  BY DEF Fork, Spawn, User, call
<1>3. ASSUME NEW i \in Slots, fds[p][i] # Empty
      PROVE  freed[fds[p][i].obj] = 0 /\ fds[p][i].obj \in used
  <2>1. fds[p][i] \in Ends
    BY <1>3, TableFacts
  <2>2. fds[p][i].obj \in Files \cup Pipes /\ fds[p][i].kind # "none"
    BY <2>1, EndCases DEF Kinds
  <2>3. Held[<<p, i>>] = fds[p][i] /\ <<p, i>> \in Places
    BY <1>2, HeldFacts, PlaceFacts
  <2>4. Named(Held, fds[p][i].obj)
    BY <2>2, <2>3 DEF Named
  <2> QED
    BY <1>3, <2>2, <2>4 DEF Fresh, FilesCounted, DescriptorsCounted
<1>4. CASE Fork(p, c)
  <2>1. fds' = [fds EXCEPT ![c] = fds[p]] /\ AddRefs(fds[p]) /\ UNCHANGED used /\ fds[p] \in Tables
    BY <1>4 DEF Fork, Typed
  <2> QED
    BY <1>2, <1>3, <2>1, GiveKeeps, Zenon
<1>5. ASSUME NEW table \in {Inherited(p), NoFds}, NEW i \in Slots, table[i] # Empty
      PROVE  table[i] = fds[p][i]
  BY <1>5 DEF Inherited, NoFds, Fd
<1>6. ASSUME NEW table \in {Inherited(p), NoFds},
             fds' = [fds EXCEPT ![c] = table], AddRefs(table), UNCHANGED used
      PROVE  Fresh' /\ FilesCounted'
  <2>1. table \in Tables
    BY TablesOfSpawn
  <2>2. \A i \in Slots : table[i] # Empty => freed[table[i].obj] = 0 /\ table[i].obj \in used'
    BY <1>3, <1>5, <1>6
  <2> QED
    BY <1>2, <1>6, <2>1, <2>2, GiveKeeps, ZenonT(40)
<1>7. ASSUME NEW table \in {Inherited(p), NoFds}, NEW f \in Files \ used, Missing(table) # {},
             used' = used \cup {f}, fds' = [fds EXCEPT ![c] = WithConsole(table, f)],
             AddRefs(WithConsole(table, f))
      PROVE  Fresh' /\ FilesCounted'
  <2> DEFINE t == WithConsole(table, f)
  <2>1. End("file", f) # Empty /\ End("file", f).obj = f /\ freed[f] = 0
    BY EndFacts DEF Kinds, Fresh
  <2>2. \A i \in Slots : t[i] = End("file", f) \/ t[i] = table[i]
    BY DEF WithConsole
  <2>3. PICK m \in Slots : t[m] = End("file", f)
    BY <1>7 DEF WithConsole, Missing
  <2>4. t \in Tables
    BY TablesOfSpawn
  <2> HIDE DEF t
  <2>5. ASSUME NEW i \in Slots, t[i] # Empty
        PROVE  freed[t[i].obj] = 0 /\ t[i].obj \in used'
    BY <1>3, <1>5, <1>7, <2>1, <2>2, <2>5
  <2>6. \A x \in used' : x \in used \/ \E i \in Slots : t[i] # Empty /\ t[i].obj = x
    BY <1>7, <2>1, <2>3
  <2>7. fds' = [fds EXCEPT ![c] = t] /\ AddRefs(t)
    BY <1>7 DEF t
  <2> QED
    BY <1>2, <1>7, <2>4, <2>5, <2>6, <2>7, GiveKeeps, ZenonT(40)
<1> QED
  BY <1>4, <1>6, <1>7 DEF Spawn

LEMMA StepKeeps ==
    ASSUME Counting, Typed, \A q \in Procs : Sound(q), Fresh, Alone, FilesCounted, Typed', NEW p \in Procs, Step(p)
    PROVE  Fresh' /\ FilesCounted'
<1>1. CASE Quiet(p)
  BY <1>1, QuietKeeps
<1>2. ASSUME NEW i \in Slots, fs_cmd_dup(p, i)
      PROVE  Fresh' /\ FilesCounted'
  <2>1. /\ pc[p] = "user" /\ UNCHANGED pc /\ Copy(p, i, Min(FreeSlots(p))) /\ FreeSlots(p) # {}
        /\ fds[p][i] # Empty
    BY <1>2, TableFacts, OpenFacts DEF fs_cmd_dup, User, call, Open, Fd
  <2>2. Min(FreeSlots(p)) \in Slots /\ fds[p][Min(FreeSlots(p))] = Empty
    BY <2>1, FreeFacts, ZenonT(40)
  <2> QED
    BY <2>1, <2>2, CopyKeeps
<1>3. ASSUME NEW i \in Slots, NEW j \in Slots, fs_cmd_dup2(p, i, j)
      PROVE  Fresh' /\ FilesCounted'
  <2>1. CASE Open(p, j)
    BY <1>1, <1>3, <2>1, QuietSteps
  <2>2. CASE ~Open(p, j)
    <3>1. pc[p] = "user" /\ UNCHANGED pc /\ Copy(p, i, j)
      BY <1>3, <2>2 DEF fs_cmd_dup2, User, call
    <3>2. fds[p][i] # Empty /\ fds[p][j] = Empty
      BY <1>3, <2>2, TableFacts, OpenFacts DEF fs_cmd_dup2, Open, Fd
    <3> QED
      BY <3>1, <3>2, CopyKeeps
  <2> QED
    BY <2>1, <2>2
<1>4. CASE Dup2Copies(p)
  <2>1. /\ pc[p] = "closed" /\ pc' = [pc EXCEPT ![p] = "user"] /\ todo[p] = "dup2"
        /\ Copy(p, old[p], slot[p]) /\ old[p] \in Slots /\ slot[p] \in Slots
    BY <1>4 DEF Dup2Copies, At, Typed
  <2>2. fds[p][old[p]] # Empty /\ fds[p][slot[p]] = Empty
    BY <2>1 DEF Sound
  <2>3. pc'[p] = "user"
    BY <2>1 DEF Typed
  <2> QED
    BY <2>1, <2>2, <2>3, CopyKeeps
<1> QED
  BY <1>1, <1>2, <1>3, <1>4, QuietSteps, OpenKeeps, PipeKeeps, NewProcessKeeps, DropFileKeeps,
     DropPipeKeeps, FreePipeKeeps, ZenonT(40) DEF Step

LEMMA InitIInv ==
    ASSUME Counting, Init
    PROVE  IInv
<1> SUFFICES ASSUME Init PROVE IInv
  OBVIOUS
<1>1. Typed
  <2>1. [i \in Slots |-> Empty] \in Tables
    BY DEF Tables
  <2> QED
    BY <2>1, SlotsNat, FileTableAssumption DEF Init, Typed
<1>2. \A p \in Procs : Sound(p)
  BY DEF Init, Sound
<1>3. Fresh /\ Alone
  BY DEF Init, Fresh, Alone, Outside
<1>4. FilesCounted
  <2>1. \A d \in Places : Held[d] = Empty
    BY DEF Init, Held, Fd, Places
  <2>2. Empty.kind = "none"
    BY DEF Empty
  <2>3. \A o : ~Named(Held, o)
    BY <2>1, <2>2 DEF Named
  <2>4. ASSUME NEW k \in Kinds, NEW o
        PROVE  Cardinality(Naming(Held, k, o)) = 0
    <3>1. Naming(Held, k, o) = {}
      BY <2>1, EndFacts DEF Naming
    <3> QED
      BY <3>1, NamingNat
  <2>5. DescriptorsCounted
    BY <2>3, <2>4 DEF Init, DescriptorsCounted, Kinds
  <2>6. FreedOnce
    BY DEF Init, FreedOnce
  <2> QED
    BY <2>5, <2>6 DEF FilesCounted
<1> QED
  BY <1>1, <1>2, <1>3, <1>4 DEF IInv

LEMMA NextIInv ==
    ASSUME Counting, IInv, [Next]_vars
    PROVE  IInv'
<1> SUFFICES ASSUME IInv, [Next]_vars PROVE IInv'
  OBVIOUS
<1>0. Typed /\ (\A q \in Procs : Sound(q)) /\ Alone /\ Fresh /\ FilesCounted
  BY DEF IInv
<1>1. CASE Next
  <2>1. PICK p \in Procs : Step(p)
    BY <1>1, StepOfProcess
  <2>2. Typed'
    BY <1>0, <2>1, TypedStep
  <2>3. \A q \in Procs : Sound(q)'
    BY <1>0, <2>1, SoundStep
  <2>4. Alone'
    BY <1>0, <2>1, AloneStep
  <2>5. Fresh' /\ FilesCounted'
    BY <1>0, <2>1, <2>2, StepKeeps
  <2> QED
    BY <2>2, <2>3, <2>4, <2>5 DEF IInv
<1>2. CASE UNCHANGED vars
  <2>1. UNCHANGED <<cpu, alive, fds, refs, readers, writers, freed, used, pc, slot, todo, old>>
    BY <1>2 DEF vars, objects, call
  <2>2. Typed' /\ (\A q \in Procs : Sound(q)') /\ Alone'
    BY <1>0, <2>1 DEF Typed, Sound, Alone, OneCpu, Outside
  <2>3. Fresh'
    BY <2>1 DEF IInv, Fresh
  <2>4. Held' = Held /\ Shut' = Shut /\ Once' = Once
    BY <2>1, Zenon DEF Held, Shut, Once, Closing, OneCpu, Fd
  <2>5. FilesCounted'
    BY <1>0, <2>1, <2>2, <2>4, Restated, RestatedAfter DEF IInv
  <2> QED
    BY <2>2, <2>3, <2>5 DEF IInv
<1> QED
  BY <1>1, <1>2

-----------------------------------------------------------------------------
(* The facts about finite sets. *)

LEMMA SlotsFinite ==
    /\ IsFiniteSet(Slots) /\ Slots \subseteq Nat /\ 0 \in Slots
    /\ IsFiniteSet(Places)
<1>1. IsFiniteSet(Slots)
  BY FileTableAssumption, FS_Interval DEF Slots
<1>2. Slots \subseteq Nat /\ 0 \in Slots
  BY FileTableAssumption DEF Slots
<1>3. IsFiniteSet(Places)
  BY <1>1, FileTableAssumption, FS_Product DEF Places
<1> QED
  BY <1>1, <1>2, <1>3

\* The smallest of a set of descriptors is one of them.
LEMMA MinIn ==
    ASSUME NEW S \in SUBSET Slots, S # {}
    PROVE  Min(S) \in S
<1>1. S \subseteq Nat
  BY SlotsFinite
<1>2. PICK x \in S : \A y \in S : ~(<<y, x>> \in OpToRel(<, Nat))
  BY <1>1, NatLessThanWellFounded, WFMin, ZenonT(40)
<1>3. ASSUME NEW y \in S, y < x
      PROVE  FALSE
  <2>1. <<y, x>> \in Nat \X Nat /\ <<y, x>>[1] < <<y, x>>[2]
    BY <1>1, <1>3
  <2>2. <<y, x>> \in OpToRel(<, Nat)
    BY <2>1, Zenon DEF OpToRel
  <2> QED
    BY <1>2, <2>2, Zenon
<1>4. \A y \in S : x <= y
  BY <1>1, <1>3
<1> QED
  BY <1>4 DEF Min

LEMMA SmallestIs == SmallestFound
<1> SUFFICES ASSUME NEW S \in SUBSET Slots
             PROVE  /\ S # {} => Min(S) \in S
                    /\ Cardinality(S) > 1 => Min(S) \in S /\ Min(S \ {Min(S)}) \in S \ {Min(S)}
  BY DEF SmallestFound
<1>1. S # {} => Min(S) \in S
  BY MinIn
<1>2. ASSUME Cardinality(S) > 1
      PROVE  Min(S) \in S /\ Min(S \ {Min(S)}) \in S \ {Min(S)}
  <2>1. IsFiniteSet(S)
    BY SlotsFinite, FS_Subset, ZenonT(40)
  <2>2. S # {}
    BY <1>2, FS_EmptySet
  <2>3. Cardinality(S) \in Nat /\ Cardinality(S \ {Min(S)}) = Cardinality(S) - 1
    BY <1>1, <2>1, <2>2, FS_RemoveElement, FS_CardinalityType
  <2>4. Cardinality({}) = 0
    BY FS_EmptySet
  <2>5. S \ {Min(S)} # {}
    BY <1>2, <2>3, <2>4
  <2>6. Min(S \ {Min(S)}) \in S \ {Min(S)}
    BY <2>5, MinIn
  <2> QED
    BY <1>1, <2>2, <2>6
<1> QED
  BY <1>1, <1>2

LEMMA NamingFinite ==
    ASSUME NEW w, NEW k, NEW o
    PROVE  /\ IsFiniteSet(Naming(w, k, o))
           /\ Cardinality(Naming(w, k, o)) \in Nat
           /\ Cardinality(Naming(w, k, o)) = 0 <=> Naming(w, k, o) = {}
<1>1. Naming(w, k, o) \subseteq Places
  BY DEF Naming
<1>2. IsFiniteSet(Naming(w, k, o))
  BY <1>1, SlotsFinite, FS_Subset
<1> QED
  BY <1>2, FS_CardinalityType, FS_EmptySet

LEMMA CountsAre == CountsNatural
BY NamingFinite DEF CountsNatural

LEMMA NamesAre == NamesNatural
<1> SUFFICES ASSUME NEW table, NEW k, NEW o
             PROVE  Names(table, k, o) \in Nat
  BY DEF NamesNatural
<1>1. IsFiniteSet({i \in Slots : table[i] = End(k, o)})
  BY SlotsFinite, FS_Subset
<1> QED
  BY <1>1, FS_CardinalityType DEF Names

LEMMA OneMoreIs == OneMore
<1> SUFFICES ASSUME NEW w, NEW e, NEW o, NEW p \in Procs, NEW i \in Slots, NEW k \in Kinds,
                    w[<<p, i>>] = Empty
             PROVE  Cardinality(Naming(Put(w, p, i, e), k, o)) = Cardinality(Naming(w, k, o)) + One(e = End(k, o))
  BY DEF OneMore
<1>1. Empty # End(k, o)
  BY EndFacts
<1>2. <<p, i>> \notin Naming(w, k, o)
  BY <1>1 DEF Naming
<1>3. CASE e = End(k, o)
  <2>1. Naming(Put(w, p, i, e), k, o) = Naming(w, k, o) \cup {<<p, i>>}
    BY <1>3, PlaceFacts DEF Naming, Put
  <2> QED
    BY <1>2, <1>3, <2>1, NamingFinite, FS_AddElement, ZenonT(40) DEF One
<1>4. CASE e # End(k, o)
  <2>1. Naming(Put(w, p, i, e), k, o) = Naming(w, k, o)
    BY <1>1, <1>4, PlaceFacts DEF Naming, Put
  <2> QED
    BY <1>4, <2>1, NamingFinite DEF One
<1> QED
  BY <1>3, <1>4

LEMMA OneLessIs == OneLess
<1> SUFFICES ASSUME NEW w, NEW o, NEW p \in Procs, NEW i \in Slots, NEW k \in Kinds
             PROVE  Cardinality(Naming(Put(w, p, i, Empty), k, o))
                       = Cardinality(Naming(w, k, o)) - One(w[<<p, i>>] = End(k, o))
  BY Zenon DEF OneLess
<1>1. Empty # End(k, o)
  BY EndFacts
<1>2. Naming(Put(w, p, i, Empty), k, o) = Naming(w, k, o) \ {<<p, i>>}
  <2>1. ASSUME NEW d \in Places
        PROVE  Put(w, p, i, Empty)[d] = End(k, o) <=> w[d] = End(k, o) /\ d # <<p, i>>
    <3>1. d = <<p, i>> <=> d[1] = p /\ d[2] = i
      BY PlaceFacts, ZenonT(40)
    <3>2. Put(w, p, i, Empty)[d] = IF d = <<p, i>> THEN Empty ELSE w[d]
      BY <3>1 DEF Put
    <3> QED
      BY <1>1, <3>2
  <2> QED
    BY <2>1 DEF Naming
<1>3. <<p, i>> \in Naming(w, k, o) <=> w[<<p, i>>] = End(k, o)
  BY PlaceFacts DEF Naming
<1>4. /\ IsFiniteSet(Naming(w, k, o)) /\ Cardinality(Naming(w, k, o)) \in Nat
      /\ Cardinality(Naming(w, k, o) \ {<<p, i>>})
            = IF <<p, i>> \in Naming(w, k, o) THEN Cardinality(Naming(w, k, o)) - 1 ELSE Cardinality(Naming(w, k, o))
  BY NamingFinite, FS_RemoveElement, ZenonT(40)
<1> QED
  BY <1>2, <1>3, <1>4 DEF One

LEMMA TableMoreIs == TableMore
<1> SUFFICES ASSUME NEW w, NEW table, NEW o, NEW p \in Procs, NEW k \in Kinds,
                    \A i \in Slots : w[<<p, i>>] = Empty
             PROVE  Cardinality(Naming(Give(w, p, table), k, o))
                       = Cardinality(Naming(w, k, o)) + Names(table, k, o)
  BY DEF TableMore
<1> DEFINE T == {i \in Slots : table[i] = End(k, o)}
<1>1. IsFiniteSet(T)
  BY SlotsFinite, FS_Subset
<1>2. IsFiniteSet({p} \X T) /\ Cardinality({p} \X T) = Cardinality(T)
  <2>1. IsFiniteSet({p}) /\ Cardinality({p}) = 1
    BY FS_Singleton, ZenonT(40)
  <2> HIDE DEF T
  <2>2. Cardinality({p} \X T) = 1 * Cardinality(T) /\ IsFiniteSet({p} \X T)
    BY <1>1, <2>1, FS_Product
  <2>3. Cardinality(T) \in Nat
    BY <1>1, FS_CardinalityType
  <2> QED
    BY <2>2, <2>3
<1>3. Empty # End(k, o)
  BY EndFacts
<1>4. Naming(Give(w, p, table), k, o) = Naming(w, k, o) \cup ({p} \X T)
  <2>1. ASSUME NEW d \in Places
        PROVE  d \in Naming(Give(w, p, table), k, o) <=> d \in Naming(w, k, o) \cup ({p} \X T)
    <3>1. d[1] \in Procs /\ d[2] \in Slots /\ d = <<d[1], d[2]>>
      BY DEF Places
    <3>2. CASE d[1] = p
      BY <1>3, <3>1, <3>2 DEF Naming, Give
    <3>3. CASE d[1] # p
      BY <3>1, <3>3 DEF Naming, Give
    <3> QED
      BY <3>2, <3>3
  <2>2. {p} \X T \subseteq Places
    BY DEF Places
  <2> QED
    BY <2>1, <2>2 DEF Naming
<1>5. Naming(w, k, o) \cap ({p} \X T) = {}
  BY <1>3 DEF Naming
<1>6. Cardinality(Naming(w, k, o) \cap ({p} \X T)) = 0
  BY <1>5, FS_EmptySet
<1>7. Names(table, k, o) = Cardinality(T) /\ Cardinality(T) \in Nat
  BY <1>1, FS_CardinalityType DEF Names
<1>8. IsFiniteSet(Naming(w, k, o)) /\ Cardinality(Naming(w, k, o)) \in Nat
  BY NamingFinite
<1> HIDE DEF T
<1>9. Cardinality(Naming(w, k, o) \cup ({p} \X T))
        = Cardinality(Naming(w, k, o)) + Cardinality({p} \X T) - Cardinality(Naming(w, k, o) \cap ({p} \X T))
  BY <1>2, <1>8, FS_Union
<1> QED
  BY <1>2, <1>4, <1>6, <1>7, <1>8, <1>9

LEMMA OnlyOneIs == OnlyOne
<1> SUFFICES ASSUME NEW e, NEW o, NEW i \in Slots, NEW k \in Kinds
             PROVE  Names(Only(i, e), k, o) = One(e = End(k, o))
  BY DEF OnlyOne
<1>1. Empty # End(k, o)
  BY EndFacts
<1>2. CASE e = End(k, o)
  <2>1. {j \in Slots : Only(i, e)[j] = End(k, o)} = {i}
    BY <1>1, <1>2 DEF Only
  <2> QED
    BY <1>2, <2>1, FS_Singleton DEF Names, One
<1>3. CASE e # End(k, o)
  <2>1. {j \in Slots : Only(i, e)[j] = End(k, o)} = {}
    BY <1>1, <1>3 DEF Only
  <2> QED
    BY <1>3, <2>1, FS_EmptySet DEF Names, One
<1> QED
  BY <1>2, <1>3

LEMMA CountingHolds == Counting
BY SmallestIs, CountsAre, NamesAre, OneMoreIs, OneLessIs, TableMoreIs, OnlyOneIs DEF Counting

\* Through any sequence of open, pipe, dup, dup2, fork, spawn, exec, exit and
\* close the counters of open files and pipes are the descriptors that name
\* them; an object is not freed while a descriptor names it, and is freed once
\* when none is left (a pipe: if one CPU runs all processes).
THEOREM FilesAlwaysCounted == Spec => []FilesCounted
<1>1. Init => IInv
  BY CountingHolds, InitIInv
<1>2. IInv /\ [Next]_vars => IInv'
  BY CountingHolds, NextIInv
<1>3. IInv => FilesCounted
  BY DEF IInv
<1> QED
  BY <1>1, <1>2, <1>3, PTL DEF Spec
=============================================================================
