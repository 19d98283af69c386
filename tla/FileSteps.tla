----------------------------- MODULE FileSteps -----------------------------
(***************************************************************************)
(* What the steps of FileTable do to the descriptors and to the counters of *)
(* the objects they name: open, pipe, the copies, and the closes.           *)
(***************************************************************************)
EXTENDS FileTypes

\* The objects that are closing, and those that are said to be freed once.
Shut == {o \in Files \cup Pipes : Closing(o)}
Once == IF OneCpu THEN Files \cup Pipes ELSE Files

LEMMA Restated ==
    ASSUME Typed
    PROVE  FilesCounted <=> Counted(Held, refs, readers, writers) /\ Freed(Held, freed, used, Shut, Once)
<1>1. \A o \in used : (o \in Shut <=> Closing(o)) /\ (o \in Once <=> o \in Files \/ OneCpu)
  BY DEF Typed, Shut, Once
<1>2. FreedOnce <=> \A o \in used : o \in Once => freed[o] = IF o \in Shut \/ Named(Held, o) THEN 0 ELSE 1
  BY <1>1 DEF FreedOnce
<1> QED
  BY <1>2 DEF FilesCounted, DescriptorsCounted, Counted, Freed

LEMMA RestatedAfter ==
    ASSUME Typed'
    PROVE  FilesCounted' <=> Counted(Held', refs', readers', writers') /\ Freed(Held', freed', used', Shut', Once')
<1>1. \A o \in used' : (o \in Shut' <=> Closing(o)') /\ (o \in Once' <=> o \in Files \/ OneCpu')
  BY DEF Typed, Shut, Once
<1>2. FreedOnce' <=> \A o \in used' : o \in Once' => freed'[o] = IF o \in Shut' \/ Named(Held', o) THEN 0 ELSE 1
  BY <1>1 DEF FreedOnce
<1> QED
  BY <1>2 DEF FilesCounted, DescriptorsCounted, Counted, Freed

-----------------------------------------------------------------------------
(* What the steps do to the descriptors that are held. *)

LEMMA HeldFacts ==
    ASSUME Typed
    PROVE  /\ Held \in Views
           /\ \A p \in Procs, i \in Slots :
                 Held[<<p, i>>] = IF pc[p] = "check" /\ slot[p] = i THEN Empty ELSE fds[p][i]
<1>1. \A d \in Places : d[1] \in Procs /\ d[2] \in Slots
  BY DEF Places
<1>2. \A d \in Places : Held[d] \in Ends \cup {Empty}
  BY <1>1, TableFacts DEF Held, Fd
<1>3. Held \in Views
  BY <1>2 DEF Views, Held
<1>4. \A p \in Procs, i \in Slots : <<p, i>> \in Places /\ <<p, i>>[1] = p /\ <<p, i>>[2] = i
  BY DEF Places
<1> QED
  BY <1>3, <1>4 DEF Held, Fd

\* A process outside of "check" puts a descriptor into its table.
LEMMA HeldPut ==
    ASSUME Typed, NEW p \in Procs, NEW i \in Slots, NEW e,
           fds' = [fds EXCEPT ![p][i] = e], pc[p] # "check", pc'[p] # "check",
           \A q \in Procs : q # p => pc'[q] = pc[q] /\ slot'[q] = slot[q]
    PROVE  Held' = Put(Held, p, i, e)
<1>1. ASSUME NEW d \in Places
      PROVE  Held'[d] = Put(Held, p, i, e)[d]
  <2>1. d[1] \in Procs /\ d[2] \in Slots
    BY DEF Places
  <2>2. fds'[d[1]][d[2]] = IF d[1] = p /\ d[2] = i THEN e ELSE fds[d[1]][d[2]]
    BY <2>1 DEF Typed, Tables
  <2> QED
    BY <2>1, <2>2 DEF Held, Put, Fd
<1> QED
  BY <1>1 DEF Held, Put

\* A new process has no descriptor before it is given its table.
LEMMA HeldGive ==
    ASSUME Typed, NEW c \in Procs, Sound(c), c \notin alive, NEW t,
           fds' = [fds EXCEPT ![c] = t], UNCHANGED <<pc, slot>>
    PROVE  /\ Held' = Give(Held, c, t)
           /\ \A i \in Slots : Held[<<c, i>>] = Empty
<1>1. pc[c] = "user" /\ fds[c] = [i \in Slots |-> Empty]
  BY DEF Sound
<1>2. ASSUME NEW d \in Places
      PROVE  Held'[d] = Give(Held, c, t)[d]
  <2>1. d[1] \in Procs /\ d[2] \in Slots
    BY DEF Places
  <2>2. fds'[d[1]] = IF d[1] = c THEN t ELSE fds[d[1]]
    BY <2>1 DEF Typed
  <2> QED
    BY <1>1, <2>1, <2>2 DEF Held, Give, Fd
<1>3. Held' = Give(Held, c, t)
  BY <1>2 DEF Held, Give
<1> QED
  BY <1>1, <1>3, HeldFacts

\* Taking a descriptor off its counter, and clearing it.
LEMMA HeldDropFile ==
    ASSUME Typed, NEW p \in Procs, DropFile(p)
    PROVE  Held' = Put(Held, p, slot[p], Empty)
<1>1. /\ slot[p] \in Slots /\ fds' = [fds EXCEPT ![p][slot[p]] = Empty]
      /\ pc[p] = "drop" /\ pc' = [pc EXCEPT ![p] = "closed"] /\ UNCHANGED slot
  BY DEF DropFile, At, Typed
<1> QED
  BY <1>1, HeldPut, Zenon DEF Typed

LEMMA HeldDropPipe ==
    ASSUME Typed, NEW p \in Procs, DropPipe(p)
    PROVE  Held' = Put(Held, p, slot[p], Empty)
<1>1. /\ slot[p] \in Slots /\ UNCHANGED <<fds, slot>>
      /\ pc[p] = "drop" /\ pc' = [pc EXCEPT ![p] = "check"]
  BY DEF DropPipe, At, Typed
<1>2. ASSUME NEW d \in Places
      PROVE  Held'[d] = Put(Held, p, slot[p], Empty)[d]
  <2>1. d[1] \in Procs /\ d[2] \in Slots
    BY DEF Places
  <2> QED
    BY <1>1, <2>1 DEF Held, Put, Fd, Typed
<1> QED
  BY <1>2 DEF Held, Put

LEMMA HeldFree ==
    ASSUME Typed, NEW p \in Procs, FreePipe(p)
    PROVE  Held' = Held
<1>1. /\ slot[p] \in Slots /\ fds' = [fds EXCEPT ![p][slot[p]] = Empty] /\ UNCHANGED slot
      /\ pc[p] = "check" /\ pc' = [pc EXCEPT ![p] = "closed"]
  BY DEF FreePipe, At, Typed
<1>2. ASSUME NEW d \in Places
      PROVE  Held'[d] = Held[d]
  <2>1. d[1] \in Procs /\ d[2] \in Slots
    BY DEF Places
  <2>2. fds'[d[1]][d[2]] = IF d[1] = p /\ d[2] = slot[p] THEN Empty ELSE fds[d[1]][d[2]]
    BY <1>1, <2>1 DEF Typed, Tables
  <2>3. pc'[d[1]] = IF d[1] = p THEN "closed" ELSE pc[d[1]]
    BY <1>1, <2>1 DEF Typed
  <2> QED
    BY <1>1, <2>1, <2>2, <2>3 DEF Held, Fd
<1> QED
  BY <1>2 DEF Held

\* The other steps change no descriptor and no counter.
Quiet(p) ==
    /\ UNCHANGED <<fds, refs, readers, writers, freed, used>>
    /\ pc[p] # "check" /\ pc'[p] # "check"

LEMMA QuietSteps ==
    ASSUME Typed, NEW p \in Procs
    PROVE  /\ \A i \in Slots : Close(p, i) \/ fs_cmd_poll(p, i) => Quiet(p)
           /\ \A i \in Slots, n \in 1..PIPE_SIZE : Transfer(p, i, n) => Quiet(p)
           /\ \A i, j \in Slots : fs_cmd_dup2(p, i, j) /\ Open(p, j) => Quiet(p)
           /\ Leave(p, "exit") \/ Leave(p, "exec") \/ CloseNext(p) \/ CloseDone(p) => Quiet(p)
           /\ PollBlocks(p) \/ PollReturns(p) \/ PollTimesOut(p) => Quiet(p)
<1>1. \A i \in Slots : Close(p, i) \/ fs_cmd_poll(p, i) => Quiet(p)
  BY DEF Close, fs_cmd_poll, User, objects, Quiet, Typed
<1>2. \A i \in Slots, n \in 1..PIPE_SIZE : Transfer(p, i, n) => Quiet(p)
  BY DEF Transfer, User, call, Quiet
<1>3. \A i, j \in Slots : fs_cmd_dup2(p, i, j) /\ Open(p, j) => Quiet(p)
  BY DEF fs_cmd_dup2, User, objects, Quiet, Typed
<1>4. Leave(p, "exit") \/ Leave(p, "exec") \/ CloseNext(p) \/ CloseDone(p) => Quiet(p)
  BY DEF Leave, CloseNext, CloseDone, User, At, objects, Quiet, Typed
<1>5. PollBlocks(p) \/ PollReturns(p) \/ PollTimesOut(p) => Quiet(p)
  BY DEF PollBlocks, PollReturns, PollTimesOut, At, objects, call, Quiet, Typed
<1> QED
  BY <1>1, <1>2, <1>3, <1>4, <1>5

LEMMA HeldQuiet ==
    ASSUME Typed, NEW p \in Procs, Step(p), Quiet(p)
    PROVE  Held' = Held
<1>1. ASSUME NEW d \in Places
      PROVE  Held'[d] = Held[d]
  <2>1. d[1] \in Procs /\ d[2] \in Slots
    BY DEF Places
  <2>2. CASE d[1] = p
    BY <2>1, <2>2 DEF Held, Quiet, Fd
  <2>3. CASE d[1] # p
    BY <2>1, <2>3, Frame DEF Held, Quiet, Fd
  <2> QED
    BY <2>2, <2>3
<1> QED
  BY <1>1 DEF Held

-----------------------------------------------------------------------------
(* The invariant. *)

LEMMA OnceKept ==
    ASSUME Typed, NEW p \in Procs, Step(p)
    PROVE  Once' = Once
<1>1. OneCpu' <=> OneCpu
  BY Frame DEF OneCpu
<1> QED
  BY <1>1 DEF Once

LEMMA ShutKept ==
    ASSUME Typed, \A q \in Procs : Sound(q), NEW p \in Procs, Step(p), pc[p] # "check", pc'[p] # "check"
    PROVE  Shut' = Shut
<1>1. ASSUME NEW q \in Procs
      PROVE  /\ pc'[q] = "check" <=> pc[q] = "check"
             /\ pc[q] = "check" => fds'[q] = fds[q] /\ slot'[q] = slot[q]
  <2>1. q # p => pc'[q] = pc[q] /\ slot'[q] = slot[q] /\ (fds'[q] = fds[q] \/ q \notin alive)
    BY Frame
  <2>2. q \notin alive => pc[q] = "user"
    BY DEF Sound
  <2> QED
    BY <2>1, <2>2
<1>2. \A o : Closing(o)' <=> Closing(o)
  BY <1>1 DEF Closing, Fd
<1> QED
  BY <1>2 DEF Shut

\* A new descriptor for an object that is in use afterwards and not freed.
LEMMA PutKeeps ==
    ASSUME Counting, Typed, \A q \in Procs : Sound(q), Fresh, FilesCounted, Typed', NEW p \in Procs, Step(p), NEW i \in Slots, NEW e \in Ends,
           fds' = [fds EXCEPT ![p][i] = e], fds[p][i] = Empty, pc[p] # "check", pc'[p] # "check",
           refs' = [f \in Files |-> refs[f] + One(e = End("file", f))],
           readers' = [o \in Pipes |-> readers[o] + One(e = End("read", o))],
           writers' = [o \in Pipes |-> writers[o] + One(e = End("write", o))],
           UNCHANGED freed, freed[e.obj] = 0, e.obj \in used', used \subseteq used', used' \subseteq used \cup {e.obj}
    PROVE  Fresh' /\ FilesCounted'
<1>1. \A q \in Procs : q # p => pc'[q] = pc[q] /\ slot'[q] = slot[q]
  BY Frame
<1>2. Held' = Put(Held, p, i, e)
  BY <1>1, HeldPut, ZenonT(40)
<1>3. Held \in Views /\ Held[<<p, i>>] = Empty
  BY HeldFacts
<1>4. Counted(Held, refs, readers, writers) /\ Freed(Held, freed, used, Shut, Once)
  BY Restated
<1>5. Counted(Held', refs', readers', writers')
  BY <1>2, <1>3, <1>4, CountedPut
<1>6. Freed(Held', freed', used', Shut', Once')
  BY <1>2, <1>3, <1>4, FreedPut, ShutKept, OnceKept
<1>7. FilesCounted'
  BY <1>5, <1>6, RestatedAfter
<1>8. \A q \in Procs, j \in Slots : fds'[q][j] = IF q = p /\ j = i THEN e ELSE fds[q][j]
  BY DEF Typed, Tables
<1>9. Fresh'
  BY <1>8 DEF Fresh
<1> QED
  BY <1>7, <1>9

\* A copy of a descriptor into a free one.
LEMMA CopyKeeps ==
    ASSUME Counting, Typed, \A q \in Procs : Sound(q), Fresh, FilesCounted, Typed', NEW p \in Procs, Step(p), NEW i \in Slots, NEW j \in Slots,
           Copy(p, i, j), fds[p][i] # Empty, fds[p][j] = Empty, pc[p] # "check", pc'[p] # "check"
    PROVE  Fresh' /\ FilesCounted'
<1> DEFINE e == fds[p][i]
<1>2. e \in Ends
  BY TableFacts
<1>3. e.obj \in used /\ e.obj \in Files \cup Pipes /\ e.kind # "none"
  BY <1>2, EndCases DEF Fresh, Kinds
<1>4. freed[e.obj] = 0
  <2>1. Held[<<p, i>>] = e /\ <<p, i>> \in Places
    BY HeldFacts, PlaceFacts
  <2>2. Named(Held, e.obj)
    BY <1>3, <2>1 DEF Named
  <2> QED
    BY <1>3, <2>2 DEF FilesCounted, DescriptorsCounted
<1>5. /\ fds' = [fds EXCEPT ![p][j] = e] /\ UNCHANGED <<freed, used>>
      /\ refs' = [f \in Files |-> refs[f] + Names(Only(i, e), "file", f)]
      /\ readers' = [o \in Pipes |-> readers[o] + Names(Only(i, e), "read", o)]
      /\ writers' = [o \in Pipes |-> writers[o] + Names(Only(i, e), "write", o)]
  BY DEF Copy, AddRefs, Fd
<1>6. \A k \in Kinds : \A o : Names(Only(i, e), k, o) = One(e = End(k, o))
  BY OnlyNames
<1>7. /\ refs' = [f \in Files |-> refs[f] + One(e = End("file", f))]
      /\ readers' = [o \in Pipes |-> readers[o] + One(e = End("read", o))]
      /\ writers' = [o \in Pipes |-> writers[o] + One(e = End("write", o))]
  BY <1>5, <1>6 DEF Kinds
<1> HIDE DEF e
<1> QED
  BY <1>2, <1>3, <1>4, <1>5, <1>7, PutKeeps, Zenon

\* A new process with descriptors of objects that are not freed.
LEMMA GiveKeeps ==
    ASSUME Counting, Typed, \A q \in Procs : Sound(q), Fresh, FilesCounted, Typed', NEW p \in Procs, Step(p), NEW c \in Procs, c \notin alive, NEW t \in Tables,
           pc[p] = "user", fds' = [fds EXCEPT ![c] = t], AddRefs(t), UNCHANGED <<pc, slot, freed>>,
           \A i \in Slots : t[i] # Empty => freed[t[i].obj] = 0 /\ t[i].obj \in used',
           used \subseteq used',
           \A o \in used' : o \in used \/ \E i \in Slots : t[i] # Empty /\ t[i].obj = o
    PROVE  Fresh' /\ FilesCounted'
<1>2. Held' = Give(Held, c, t) /\ \A i \in Slots : Held[<<c, i>>] = Empty
  BY HeldGive, ZenonT(40)
<1>3. Held \in Views
  BY HeldFacts
<1>4. Counted(Held, refs, readers, writers) /\ Freed(Held, freed, used, Shut, Once)
  BY Restated
<1>5. Counted(Held', refs', readers', writers')
  BY <1>2, <1>3, <1>4, CountedGive DEF AddRefs
<1>6. Shut' = Shut /\ Once' = Once
  BY ShutKept, OnceKept
<1>7. Freed(Held', freed', used', Shut', Once')
  BY <1>2, <1>3, <1>4, <1>6, FreedGive
<1>8. FilesCounted'
  BY <1>5, <1>7, RestatedAfter
<1>9. \A q \in Procs : fds'[q] = IF q = c THEN t ELSE fds[q]
  BY DEF Typed
<1>10. Fresh'
  BY <1>9 DEF Fresh
<1> QED
  BY <1>8, <1>10

LEMMA OpenKeeps ==
    ASSUME Counting, Typed, \A q \in Procs : Sound(q), Fresh, FilesCounted, Typed', NEW p \in Procs, Step(p), NEW f \in Files, fs_cmd_open(p, f)
    PROVE  Fresh' /\ FilesCounted'
<1> DEFINE i == Min(FreeSlots(p))
           e == End("file", f)
<1>2. /\ f \notin used /\ FreeSlots(p) # {} /\ pc[p] = "user" /\ UNCHANGED <<pc, freed, readers, writers>>
      /\ fds' = [fds EXCEPT ![p][i] = e] /\ refs' = [refs EXCEPT ![f] = 1] /\ used' = used \cup {f}
  BY DEF fs_cmd_open, User, call
<1>3. i \in Slots /\ fds[p][i] = Empty
  BY <1>2, FreeFacts, Zenon
<1>4. e \in Ends /\ e.obj = f /\ \A k \in Kinds : \A o : e = End(k, o) <=> k = "file" /\ o = f
  <2>1. e \in Ends /\ e.obj = f
    BY EndTyped, EndFacts DEF Kinds
  <2>2. ASSUME NEW k \in Kinds, NEW o
        PROVE  e = End(k, o) <=> k = "file" /\ o = f
    BY EndFacts DEF Kinds
  <2> QED
    BY <2>1, <2>2
<1>5. freed[f] = 0
  BY <1>2 DEF Fresh
<1>6. refs[f] = 0
  <2>1. Held \in Views
    BY HeldFacts
  <2>2. ASSUME Naming(Held, "file", f) # {}
        PROVE  FALSE
    <3>1. PICK d \in Places : Held[d] = End("file", f)
      BY <2>2 DEF Naming
    <3>2. d[1] \in Procs /\ d[2] \in Slots /\ fds[d[1]][d[2]] = End("file", f)
      BY <1>4, <3>1, EndCases DEF Places, Held, Fd
    <3> QED
      BY <1>2, <1>4, <3>2, EndCases DEF Fresh
  <2>3. refs[f] = Cardinality(Naming(Held, "file", f))
    BY DEF FilesCounted, DescriptorsCounted
  <2> QED
    BY <2>2, <2>3, NamingNat
<1>7. refs' = [x \in Files |-> refs[x] + One(e = End("file", x))]
  <2>1. \A x \in Files : One(e = End("file", x)) = IF x = f THEN 1 ELSE 0
    BY <1>4 DEF One, Kinds
  <2>2. \A x \in Files : refs[x] \in Int /\ refs'[x] = IF x = f THEN 1 ELSE refs[x]
    BY <1>2 DEF Typed
  <2>3. \A x \in Files : refs'[x] = refs[x] + One(e = End("file", x))
    BY <1>6, <2>1, <2>2
  <2> QED
    BY <2>3 DEF Typed
<1>8. /\ readers' = [o \in Pipes |-> readers[o] + One(e = End("read", o))]
      /\ writers' = [o \in Pipes |-> writers[o] + One(e = End("write", o))]
  BY <1>2, <1>4 DEF Typed, One, Kinds
<1> HIDE DEF i, e
<1> QED
  BY <1>2, <1>3, <1>4, <1>5, <1>7, <1>8, PutKeeps, Zenon

LEMMA PipeKeeps ==
    ASSUME Counting, Typed, \A q \in Procs : Sound(q), Fresh, FilesCounted, Typed', NEW p \in Procs, Step(p), NEW o \in Pipes, fs_cmd_pipe(p, o)
    PROVE  Fresh' /\ FilesCounted'
<1> DEFINE i == Min(FreeSlots(p))
           j == Min(FreeSlots(p) \ {i})
           r == End("read", o)
           w == End("write", o)
           mid == Put(Held, p, i, r)
<1>2. /\ o \notin used /\ Cardinality(FreeSlots(p)) > 1 /\ pc[p] = "user" /\ UNCHANGED <<pc, slot, freed, refs>>
      /\ fds' = [fds EXCEPT ![p][i] = r, ![p][j] = w] /\ used' = used \cup {o}
      /\ readers' = [readers EXCEPT ![o] = 1] /\ writers' = [writers EXCEPT ![o] = 1]
  BY DEF fs_cmd_pipe, User, call
<1>3. i \in Slots /\ fds[p][i] = Empty /\ j \in Slots /\ fds[p][j] = Empty /\ i # j
  BY <1>2, FreeFacts
<1>4. /\ r \in Ends /\ r.obj = o /\ \A k \in Kinds : \A x : r = End(k, x) <=> k = "read" /\ x = o
      /\ w \in Ends /\ w.obj = o /\ \A k \in Kinds : \A x : w = End(k, x) <=> k = "write" /\ x = o
  BY EndTyped, EndFacts DEF Kinds
<1>5. freed[o] = 0
  BY <1>2 DEF Fresh
<1>6. readers[o] = 0 /\ writers[o] = 0
  <2>1. ASSUME NEW k \in Kinds, Naming(Held, k, o) # {}
        PROVE  FALSE
    <3>1. PICK d \in Places : Held[d] = End(k, o)
      BY <2>1 DEF Naming
    <3>2. End(k, o) # Empty /\ End(k, o).obj = o
      BY EndFacts
    <3>3. d[1] \in Procs /\ d[2] \in Slots /\ fds[d[1]][d[2]] = End(k, o)
      BY <3>1, <3>2 DEF Places, Held, Fd
    <3> QED
      BY <1>2, <3>2, <3>3 DEF Fresh
  <2>2. readers[o] = Cardinality(Naming(Held, "read", o)) /\ writers[o] = Cardinality(Naming(Held, "write", o))
    BY DEF FilesCounted, DescriptorsCounted
  <2> QED
    BY <2>1, <2>2, NamingNat DEF Kinds
<1>7. /\ Held \in Views /\ Held[<<p, i>>] = Empty /\ mid \in Views /\ mid[<<p, j>>] = Empty
      /\ <<p, j>> \in Places
  <2>1. Held \in Views /\ Held[<<p, i>>] = Empty /\ Held[<<p, j>>] = Empty
    BY <1>2, <1>3, HeldFacts, ZenonT(40)
  <2>2. <<p, i>> \in Places /\ <<p, j>> \in Places /\ <<p, i>> # <<p, j>>
    BY <1>3, PlaceFacts
  <2> HIDE DEF i, j, r, w
  <2>3. mid \in Views
    BY <1>3, <1>4, <2>1, ViewsKept, Zenon
  <2>4. mid[<<p, j>>] = Held[<<p, j>>]
    BY <2>2 DEF Put
  <2> QED
    BY <2>1, <2>2, <2>3, <2>4
<1>8. Held' = Put(mid, p, j, w)
  <2> HIDE DEF i, j, r, w
  <2>1. ASSUME NEW d \in Places
        PROVE  Held'[d] = Put(mid, p, j, w)[d]
    <3>1. d[1] \in Procs /\ d[2] \in Slots
      BY DEF Places
    <3>2. fds'[d[1]][d[2]] = IF d[1] = p /\ d[2] = j THEN w
                             ELSE IF d[1] = p /\ d[2] = i THEN r ELSE fds[d[1]][d[2]]
      BY <1>2, <1>3, <3>1 DEF Typed, Tables
    <3> QED
      BY <1>2, <3>1, <3>2 DEF Held, Put, Fd
  <2> QED
    BY <2>1 DEF Held, Put
<1>9. Counted(Held, refs, readers, writers) /\ Freed(Held, freed, used, Shut, Once)
  BY Restated
<1>10. Held[<<p, j>>] = Empty
  BY <1>2, <1>3, HeldFacts
<1>11. readers \in [Pipes -> Int] /\ writers \in [Pipes -> Int]
  BY DEF Typed
<1>12. Counted(Held', refs', readers', writers')
  <2> HIDE DEF i, j
  <2>1. Counted(Put(Put(Held, p, i, End("read", o)), p, j, End("write", o)),
                refs, [readers EXCEPT ![o] = 1], [writers EXCEPT ![o] = 1])
    BY <1>3, <1>6, <1>7, <1>9, <1>10, <1>11, CountedTwo, ZenonT(40)
  <2> QED
    BY <1>2, <1>8, <2>1
<1>13. Freed(mid, freed, used', Shut, Once)
  <2> HIDE DEF i, j, r
  <2> QED
    BY <1>2, <1>3, <1>4, <1>5, <1>7, <1>9, FreedPut
<1>14. Freed(Held', freed, used', Shut, Once)
  <2> HIDE DEF i, j, r, w, mid
  <2> QED
    BY <1>2, <1>3, <1>4, <1>5, <1>7, <1>8, <1>13, FreedPut
<1>15. Shut' = Shut /\ Once' = Once
  BY <1>2, ShutKept, OnceKept
<1>16. FilesCounted'
  <2> HIDE DEF i, j, r, w, mid
  <2> QED
    BY <1>2, <1>12, <1>14, <1>15, RestatedAfter
<1>17. Fresh'
  <2> HIDE DEF i, j, r, w
  <2>1. \A q \in Procs, x \in Slots : fds'[q][x] = IF q = p /\ x = j THEN w
                                                   ELSE IF q = p /\ x = i THEN r ELSE fds[q][x]
    BY <1>2, <1>3 DEF Typed, Tables
  <2>2. ASSUME NEW q \in Procs, NEW x \in Slots, fds'[q][x] # Empty
        PROVE  fds'[q][x].obj \in used'
    <3>1. fds'[q][x] \in {w, r, fds[q][x]}
      BY <2>1
    <3> QED
      BY <1>2, <1>4, <2>2, <3>1 DEF Fresh
  <2>3. \A x \in (Files \cup Pipes) \ used' : freed'[x] = 0
    BY <1>2 DEF Fresh
  <2> QED
    BY <2>2, <2>3 DEF Fresh
<1> QED
  BY <1>16, <1>17

LEMMA DropFileKeeps ==
    ASSUME Counting, Typed, \A q \in Procs : Sound(q), Fresh, FilesCounted, Typed', NEW p \in Procs, Step(p), DropFile(p)
    PROVE  Fresh' /\ FilesCounted'
<1> DEFINE i == slot[p]
           f == Fd(p, i).obj
<1>2. /\ pc[p] = "drop" /\ Fd(p, i).kind = "file"
      /\ refs' = [refs EXCEPT ![f] = @ - 1]
      /\ freed' = IF refs[f] = 1 THEN [freed EXCEPT ![f] = @ + 1] ELSE freed
      /\ fds' = [fds EXCEPT ![p][i] = Empty] /\ pc' = [pc EXCEPT ![p] = "closed"]
      /\ UNCHANGED <<readers, writers, used>>
  BY DEF DropFile, At, LastRef, Kfree
<1>3. i \in Slots /\ f \in Files /\ fds[p][i] = End("file", f) /\ f \in used
  <2>1. i \in Slots /\ f \in Files /\ Fd(p, i) = fds[p][i] /\ fds[p][i] \in Ends
    BY <1>2, DropTyped, OpenFacts, Zenon
  <2> QED
    BY <1>2, <2>1, EndCases DEF Fresh
<1>4. Held' = Put(Held, p, i, Empty) /\ Held \in Views /\ Held[<<p, i>>] = End("file", f)
  BY <1>2, <1>3, HeldFacts, HeldDropFile
<1>5. Counted(Held, refs, readers, writers) /\ Freed(Held, freed, used, Shut, Once)
  BY Restated
<1>6. \A k \in Kinds : \A x : End("file", f) = End(k, x) <=> k = "file" /\ x = f
  <2>1. ASSUME NEW k \in Kinds, NEW x
        PROVE  End("file", f) = End(k, x) <=> k = "file" /\ x = f
    BY EndFacts DEF Kinds
  <2> QED
    BY <2>1
<1>7. f \notin Shut
  <2>1. ASSUME NEW q \in Procs, pc[q] = "check"
        PROVE  Fd(q, slot[q]).obj \in Pipes
    BY <2>1, DropTyped, Zenon DEF Sound, Fd
  <2> QED
    BY <1>3, <2>1, FileTableAssumption DEF Shut, Closing
<1> HIDE DEF i, f
<1>8. Counted(Held', refs', readers', writers')
  <2>1. /\ refs' = [x \in Files |-> refs[x] - One(End("file", f) = End("file", x))]
        /\ readers' = [x \in Pipes |-> readers[x] - One(End("file", f) = End("read", x))]
        /\ writers' = [x \in Pipes |-> writers[x] - One(End("file", f) = End("write", x))]
    <3>1. \A x \in Files : One(End("file", f) = End("file", x)) = IF x = f THEN 1 ELSE 0
      BY <1>6 DEF One, Kinds
    <3>2. \A x \in Files : refs[x] \in Int /\ refs'[x] = IF x = f THEN refs[x] - 1 ELSE refs[x]
      BY <1>2 DEF Typed
    <3>3. \A x \in Files : refs'[x] = refs[x] - One(End("file", f) = End("file", x))
      BY <3>1, <3>2
    <3>4. \A x \in Pipes : One(End("file", f) = End("read", x)) = 0 /\ One(End("file", f) = End("write", x)) = 0
      BY <1>6 DEF One, Kinds
    <3>5. refs' = [x \in Files |-> refs[x] - One(End("file", f) = End("file", x))]
      BY <3>3 DEF Typed
    <3>6. readers' = [x \in Pipes |-> readers[x] - One(End("file", f) = End("read", x))]
      BY <1>2, <3>4 DEF Typed
    <3>7. writers' = [x \in Pipes |-> writers[x] - One(End("file", f) = End("write", x))]
      BY <1>2, <3>4 DEF Typed
    <3> QED
      BY <3>5, <3>6, <3>7
  <2>8. Counted(Put(Held, p, i, Empty),
                [x \in Files |-> refs[x] - One(Held[<<p, i>>] = End("file", x))],
                [x \in Pipes |-> readers[x] - One(Held[<<p, i>>] = End("read", x))],
                [x \in Pipes |-> writers[x] - One(Held[<<p, i>>] = End("write", x))])
    BY <1>3, <1>4, <1>5, CountedDrop, ZenonT(40)
  <2> QED
    BY <1>4, <2>1, <2>8, ZenonT(40)
<1>9. Shut' = Shut /\ Once' = Once
  BY <1>2, ShutKept, OnceKept, Zenon DEF Typed
<1>10. Freed(Held', freed', used', Shut', Once')
  <2>1. freed \in [Files \cup Pipes -> Int]
    BY DEF Typed
  <2>2. Freed(Put(Held, p, i, Empty), IF refs[f] = 1 THEN [freed EXCEPT ![f] = @ + 1] ELSE freed, used, Shut, Once)
    BY <1>3, <1>4, <1>5, <1>7, <2>1, FreedDropFile, Zenon
  <2> QED
    BY <1>2, <1>4, <1>9, <2>2
<1>11. FilesCounted'
  BY <1>8, <1>10, RestatedAfter
<1>12. Fresh'
  <2>1. \A q \in Procs, x \in Slots : fds'[q][x] \in {Empty, fds[q][x]}
    BY <1>2, <1>3 DEF Typed, Tables
  <2>2. \A x \in (Files \cup Pipes) \ used' : freed'[x] = freed[x]
    BY <1>2, <1>3 DEF Typed
  <2> QED
    BY <1>2, <2>1, <2>2 DEF Fresh
<1> QED
  BY <1>11, <1>12

LEMMA DropPipeKeeps ==
    ASSUME Counting, Typed, \A q \in Procs : Sound(q), Fresh, FilesCounted, Typed', NEW p \in Procs, Step(p), DropPipe(p)
    PROVE  Fresh' /\ FilesCounted'
<1> DEFINE i == slot[p]
           k == Fd(p, i).kind
           o == Fd(p, i).obj
<1>2. /\ pc[p] = "drop" /\ k \in {"read", "write"}
      /\ readers' = [readers EXCEPT ![o] = IF k = "read" THEN @ - 1 ELSE @]
      /\ writers' = [writers EXCEPT ![o] = IF k = "write" THEN @ - 1 ELSE @]
      /\ pc' = [pc EXCEPT ![p] = "check"]
      /\ UNCHANGED <<fds, refs, freed, used, slot>>
  BY DEF DropPipe, At
<1>3. i \in Slots /\ o \in Pipes /\ fds[p][i] = End(k, o)
  <2>1. i \in Slots /\ o \in Pipes /\ Fd(p, i) = fds[p][i] /\ fds[p][i] \in Ends
    BY <1>2, DropTyped, OpenFacts, ZenonT(40) DEF Kinds
  <2> QED
    BY <2>1, EndCases
<1>4. Held' = Put(Held, p, i, Empty) /\ Held \in Views /\ Held[<<p, i>>] = End(k, o)
  BY <1>2, <1>3, HeldFacts, HeldDropPipe
<1>5. Counted(Held, refs, readers, writers) /\ Freed(Held, freed, used, Shut, Once)
  BY Restated
<1>6. Shut' = Shut \cup {o}
  <2>1. \A q \in Procs : pc'[q] = IF q = p THEN "check" ELSE pc[q]
    BY <1>2 DEF Typed
  <2>2. \A x : Closing(x)' <=> Closing(x) \/ x = o
    <3>1. \A q \in Procs : Fd(q, slot[q])' = Fd(q, slot[q])
      BY <1>2 DEF Fd
    <3>2. ASSUME NEW x
          PROVE  Closing(x)' <=> Closing(x) \/ x = o
      <4>1. Closing(x)' <=> \E q \in Procs : pc'[q] = "check" /\ Fd(q, slot[q]).obj = x
        BY <3>1, Zenon DEF Closing
      <4> QED
        BY <1>2, <2>1, <4>1 DEF Closing
    <3> QED
      BY <3>2
  <2> QED
    BY <1>3, <2>2 DEF Shut
<1> HIDE DEF i, k, o
<1>7. \A l \in Kinds : \A x : End(k, o) = End(l, x) <=> l = k /\ x = o
  <2>1. ASSUME NEW l \in Kinds, NEW x
        PROVE  End(k, o) = End(l, x) <=> l = k /\ x = o
    BY <1>2, EndFacts DEF Kinds
  <2> QED
    BY <2>1
<1>8. Counted(Held', refs', readers', writers')
  <2>1. \A x \in Files : One(End(k, o) = End("file", x)) = 0
    BY <1>2, <1>7 DEF One, Kinds
  <2>2. \A x \in Pipes : One(End(k, o) = End("read", x)) = IF k = "read" /\ x = o THEN 1 ELSE 0
    BY <1>7 DEF One, Kinds
  <2>3. \A x \in Pipes : One(End(k, o) = End("write", x)) = IF k = "write" /\ x = o THEN 1 ELSE 0
    BY <1>7 DEF One, Kinds
  <2>4. refs' = [x \in Files |-> refs[x] - One(End(k, o) = End("file", x))]
    BY <1>2, <2>1 DEF Typed
  <2>5. readers' = [x \in Pipes |-> readers[x] - One(End(k, o) = End("read", x))]
    <3>1. \A x \in Pipes : /\ readers[x] \in Int
                           /\ readers'[x] = IF k = "read" /\ x = o THEN readers[x] - 1 ELSE readers[x]
      BY <1>2 DEF Typed
    <3>2. \A x \in Pipes : readers'[x] = readers[x] - One(End(k, o) = End("read", x))
      BY <2>2, <3>1
    <3> QED
      BY <3>2 DEF Typed
  <2>6. writers' = [x \in Pipes |-> writers[x] - One(End(k, o) = End("write", x))]
    <3>1. \A x \in Pipes : /\ writers[x] \in Int
                           /\ writers'[x] = IF k = "write" /\ x = o THEN writers[x] - 1 ELSE writers[x]
      BY <1>2 DEF Typed
    <3>2. \A x \in Pipes : writers'[x] = writers[x] - One(End(k, o) = End("write", x))
      BY <2>3, <3>1
    <3> QED
      BY <3>2 DEF Typed
  <2>8. Counted(Put(Held, p, i, Empty),
                [x \in Files |-> refs[x] - One(Held[<<p, i>>] = End("file", x))],
                [x \in Pipes |-> readers[x] - One(Held[<<p, i>>] = End("read", x))],
                [x \in Pipes |-> writers[x] - One(Held[<<p, i>>] = End("write", x))])
    BY <1>3, <1>4, <1>5, CountedDrop, Zenon
  <2> QED
    BY <1>4, <2>4, <2>5, <2>6, <2>8
<1>9. Once' = Once
  BY OnceKept
<1>10. Freed(Held', freed', used', Shut', Once')
  BY <1>2, <1>3, <1>4, <1>5, <1>6, <1>9, FreedDropPipe, ZenonT(40)
<1>11. FilesCounted'
  BY <1>8, <1>10, RestatedAfter
<1>12. Fresh'
  BY <1>2, Zenon DEF Fresh
<1> QED
  BY <1>11, <1>12
=============================================================================
