----------------------------- MODULE FileTypes -----------------------------
(***************************************************************************)
(* The descriptors of FileTable as sets, what their counters do when one is *)
(* added or dropped, and the types that every step keeps.  The facts about  *)
(* finite sets that this rests on are the hypothesis Counting, which        *)
(* FileTableProofs proves.                                                  *)
(***************************************************************************)
EXTENDS FileTable, TLAPS

Ends == {End("file", f) : f \in Files} \cup {End("read", o) : o \in Pipes} \cup {End("write", o) : o \in Pipes}
Tables == [Slots -> Ends \cup {Empty}]

-----------------------------------------------------------------------------
(* Descriptors, and the sets of them. *)

Kinds == {"file", "read", "write"}

LEMMA EndFacts ==
    ASSUME NEW k \in Kinds, NEW o, NEW l \in Kinds, NEW q
    PROVE  /\ End(k, o).kind = k /\ End(k, o).obj = o
           /\ End(k, o) = End(l, q) <=> k = l /\ o = q
           /\ End(k, o) # Empty
           /\ Empty.kind = "none"
BY DEF End, Empty, Kinds

LEMMA EndCases ==
    ASSUME NEW e \in Ends
    PROVE  /\ e.kind \in Kinds /\ e = End(e.kind, e.obj) /\ e # Empty
           /\ e.kind = "file" => e.obj \in Files
           /\ e.kind \in {"read", "write"} => e.obj \in Pipes
           /\ e.obj \in Files \cup Pipes
<1>1. CASE e \in {End("file", f) : f \in Files}
  <2>1. PICK f \in Files : e = End("file", f)
    BY <1>1
  <2> QED
    BY <2>1, EndFacts DEF Kinds
<1>2. CASE e \in {End("read", o) : o \in Pipes}
  <2>1. PICK f \in Pipes : e = End("read", f)
    BY <1>2
  <2> QED
    BY <2>1, EndFacts DEF Kinds
<1>3. CASE e \in {End("write", o) : o \in Pipes}
  <2>1. PICK f \in Pipes : e = End("write", f)
    BY <1>3
  <2> QED
    BY <2>1, EndFacts DEF Kinds
<1> QED
  BY <1>1, <1>2, <1>3 DEF Ends

\* A descriptor is open exactly when it is not empty.
LEMMA OpenFacts ==
    ASSUME NEW e \in Ends \cup {Empty}
    PROVE  /\ e.kind # "none" <=> e # Empty
           /\ e.kind # "none" <=> e \in Ends
           /\ e.kind \in Kinds <=> e \in Ends
<1>1. Empty.kind = "none" /\ "none" \notin Kinds
  BY DEF Empty, Kinds
<1> QED
  BY <1>1, EndCases

LEMMA PlaceFacts ==
    ASSUME NEW p \in Procs, NEW i \in Slots
    PROVE  /\ <<p, i>> \in Places
           /\ \A d \in Places : d[1] \in Procs /\ d[2] \in Slots
           /\ \A d \in Places : d = <<p, i>> <=> d[1] = p /\ d[2] = i
BY DEF Places

\* The descriptors with one of them changed.
Put(w, p, i, e) == [d \in Places |-> IF d[1] = p /\ d[2] = i THEN e ELSE w[d]]
One(b) == IF b THEN 1 ELSE 0

\* The descriptors with the table of a new process.
Give(w, p, table) == [d \in Places |-> IF d[1] = p THEN table[d[2]] ELSE w[d]]

-----------------------------------------------------------------------------
(* Facts about finite sets of descriptors: the smallest of some of them, how *)
(* many name an object, how many do when there is one more or one less, or a *)
(* whole table more.                                                         *)

SmallestFound ==
    \A S \in SUBSET Slots :
       /\ S # {} => Min(S) \in S
       /\ Cardinality(S) > 1 => Min(S) \in S /\ Min(S \ {Min(S)}) \in S \ {Min(S)}

CountsNatural ==
    \A w, k, o :
       /\ Cardinality(Naming(w, k, o)) \in Nat
       /\ Cardinality(Naming(w, k, o)) = 0 <=> Naming(w, k, o) = {}

NamesNatural == \A table, k, o : Names(table, k, o) \in Nat

OneMore ==
    \A w, e, o : \A p \in Procs, i \in Slots, k \in Kinds :
       w[<<p, i>>] = Empty =>
          Cardinality(Naming(Put(w, p, i, e), k, o)) = Cardinality(Naming(w, k, o)) + One(e = End(k, o))

OneLess ==
    \A w, o : \A p \in Procs, i \in Slots, k \in Kinds :
       Cardinality(Naming(Put(w, p, i, Empty), k, o))
          = Cardinality(Naming(w, k, o)) - One(w[<<p, i>>] = End(k, o))

TableMore ==
    \A w, table, o : \A p \in Procs, k \in Kinds :
       (\A i \in Slots : w[<<p, i>>] = Empty) =>
          Cardinality(Naming(Give(w, p, table), k, o)) = Cardinality(Naming(w, k, o)) + Names(table, k, o)

OnlyOne ==
    \A e, o : \A i \in Slots, k \in Kinds : Names(Only(i, e), k, o) = One(e = End(k, o))

Counting ==
    SmallestFound /\ CountsNatural /\ NamesNatural /\ OneMore /\ OneLess /\ TableMore /\ OnlyOne

LEMMA Smallest ==
    ASSUME Counting, NEW S \in SUBSET Slots
    PROVE  /\ S # {} => Min(S) \in S
           /\ Cardinality(S) > 1 => Min(S) \in S /\ Min(S \ {Min(S)}) \in S \ {Min(S)}
BY DEF Counting, SmallestFound

LEMMA NamingNat ==
    ASSUME Counting, NEW w, NEW k, NEW o
    PROVE  /\ Cardinality(Naming(w, k, o)) \in Nat
           /\ Cardinality(Naming(w, k, o)) = 0 <=> Naming(w, k, o) = {}
BY DEF Counting, CountsNatural

LEMMA NamesNat ==
    ASSUME Counting, NEW table, NEW k, NEW o
    PROVE  Names(table, k, o) \in Nat
BY DEF Counting, NamesNatural

LEMMA AddOne ==
    ASSUME Counting, NEW w, NEW p \in Procs, NEW i \in Slots, NEW e, w[<<p, i>>] = Empty,
           NEW k \in Kinds, NEW o
    PROVE  Cardinality(Naming(Put(w, p, i, e), k, o)) = Cardinality(Naming(w, k, o)) + One(e = End(k, o))
BY DEF Counting, OneMore

LEMMA DropOne ==
    ASSUME Counting, NEW w, NEW p \in Procs, NEW i \in Slots, NEW k \in Kinds, NEW o
    PROVE  Cardinality(Naming(Put(w, p, i, Empty), k, o))
              = Cardinality(Naming(w, k, o)) - One(w[<<p, i>>] = End(k, o))
BY DEF Counting, OneLess

LEMMA AddTable ==
    ASSUME Counting, NEW w, NEW p \in Procs, NEW table, \A i \in Slots : w[<<p, i>>] = Empty,
           NEW k \in Kinds, NEW o
    PROVE  Cardinality(Naming(Give(w, p, table), k, o)) = Cardinality(Naming(w, k, o)) + Names(table, k, o)
BY DEF Counting, TableMore

LEMMA OnlyNames ==
    ASSUME Counting, NEW i \in Slots, NEW e, NEW k \in Kinds, NEW o
    PROVE  Names(Only(i, e), k, o) = One(e = End(k, o))
BY DEF Counting, OnlyOne

LEMMA SlotsNat == Slots \subseteq Nat /\ 0 \in Slots
BY FileTableAssumption DEF Slots

LEMMA EndTyped ==
    /\ \A f \in Files : End("file", f) \in Ends
    /\ \A o \in Pipes : End("read", o) \in Ends /\ End("write", o) \in Ends
BY DEF Ends


-----------------------------------------------------------------------------
(* FilesCounted over its parts: the descriptors w, the counters, how often an *)
(* object was freed, the objects in use, those that are closing, and those    *)
(* of which it is said that they are freed once.                              *)

Views == [Places -> Ends \cup {Empty}]

Counted(w, fr, rd, wr) ==
    /\ \A f \in Files : fr[f] = Cardinality(Naming(w, "file", f))
    /\ \A o \in Pipes : rd[o] = Cardinality(Naming(w, "read", o))
    /\ \A o \in Pipes : wr[o] = Cardinality(Naming(w, "write", o))

Freed(w, fz, us, cl, once) ==
    /\ \A o \in Files \cup Pipes : Named(w, o) => fz[o] = 0
    /\ \A o \in us : o \in once => fz[o] = IF o \in cl \/ Named(w, o) THEN 0 ELSE 1

LEMMA NamedNaming ==
    ASSUME NEW w \in Views
    PROVE  /\ \A f \in Files : Named(w, f) <=> Naming(w, "file", f) # {}
           /\ \A o \in Pipes : Named(w, o) <=> Naming(w, "read", o) # {} \/ Naming(w, "write", o) # {}
<1>1. ASSUME NEW d \in Places, w[d].kind # "none"
      PROVE  /\ w[d] = End(w[d].kind, w[d].obj) /\ w[d].kind \in Kinds
             /\ w[d].obj \in Files => w[d].kind = "file"
             /\ w[d].obj \in Pipes => w[d].kind \in {"read", "write"}
  <2>1. w[d] \in Ends
    BY <1>1, OpenFacts DEF Views
  <2> QED
    BY <2>1, EndCases, FileTableAssumption DEF Kinds
<1>2. ASSUME NEW k \in Kinds, NEW o, Naming(w, k, o) # {}
      PROVE  Named(w, o)
  <2>1. PICK d \in Places : w[d] = End(k, o)
    BY <1>2 DEF Naming
  <2>2. w[d].kind # "none" /\ w[d].obj = o
    BY <2>1, EndFacts DEF Kinds
  <2> QED
    BY <2>2 DEF Named
<1>3. ASSUME NEW o, Named(w, o)
      PROVE  /\ o \in Files => Naming(w, "file", o) # {}
             /\ o \in Pipes => Naming(w, "read", o) # {} \/ Naming(w, "write", o) # {}
  <2>1. PICK d \in Places : w[d].kind # "none" /\ w[d].obj = o
    BY <1>3 DEF Named
  <2> QED
    BY <1>1, <2>1 DEF Naming
<1> QED
  BY <1>2, <1>3 DEF Kinds

LEMMA NamedPut ==
    ASSUME NEW w \in Views, NEW p \in Procs, NEW i \in Slots, w[<<p, i>>] = Empty, NEW e \in Ends
    PROVE  \A o : Named(Put(w, p, i, e), o) <=> o = e.obj \/ Named(w, o)
<1>1. Put(w, p, i, e)[<<p, i>>] = e /\ <<p, i>> \in Places /\ e.kind # "none" /\ Empty.kind = "none"
  BY PlaceFacts, OpenFacts, EndFacts DEF Put, Kinds
<1>2. \A d \in Places : d # <<p, i>> => Put(w, p, i, e)[d] = w[d]
  BY PlaceFacts DEF Put
<1> QED
  BY <1>1, <1>2 DEF Named

LEMMA NamedDrop ==
    ASSUME NEW w \in Views, NEW p \in Procs, NEW i \in Slots
    PROVE  /\ \A o : Named(Put(w, p, i, Empty), o) => Named(w, o)
           /\ \A o : o # w[<<p, i>>].obj /\ Named(w, o) => Named(Put(w, p, i, Empty), o)
<1>1. Put(w, p, i, Empty)[<<p, i>>] = Empty /\ <<p, i>> \in Places /\ Empty.kind = "none"
  BY PlaceFacts DEF Put, Empty
<1>2. \A d \in Places : d # <<p, i>> => Put(w, p, i, Empty)[d] = w[d]
  BY PlaceFacts, ZenonT(40) DEF Put
<1> QED
  BY <1>1, <1>2 DEF Named

LEMMA NamedGive ==
    ASSUME NEW w \in Views, NEW p \in Procs, \A i \in Slots : w[<<p, i>>] = Empty, NEW table \in Tables
    PROVE  \A o : Named(Give(w, p, table), o)
                     <=> Named(w, o) \/ \E i \in Slots : table[i] # Empty /\ table[i].obj = o
<1>1. ASSUME NEW i \in Slots
      PROVE  /\ <<p, i>> \in Places /\ Give(w, p, table)[<<p, i>>] = table[i]
             /\ table[i] # Empty <=> table[i].kind # "none"
  BY PlaceFacts, OpenFacts DEF Give, Tables
<1>2. \A d \in Places : d[1] # p => Give(w, p, table)[d] = w[d]
  BY DEF Give
<1>3. \A d \in Places : d[1] = p => d[2] \in Slots /\ d = <<p, d[2]>>
  BY DEF Places
<1>4. Empty.kind = "none"
  BY DEF Empty
<1>5. ASSUME NEW o, Named(Give(w, p, table), o)
      PROVE  Named(w, o) \/ \E i \in Slots : table[i] # Empty /\ table[i].obj = o
  <2>1. PICK d \in Places : Give(w, p, table)[d].kind # "none" /\ Give(w, p, table)[d].obj = o
    BY <1>5 DEF Named
  <2>2. CASE d[1] = p
    BY <1>1, <1>3, <2>1, <2>2
  <2>3. CASE d[1] # p
    BY <1>2, <2>1, <2>3 DEF Named
  <2> QED
    BY <2>2, <2>3
<1>6. ASSUME NEW o, Named(w, o)
      PROVE  Named(Give(w, p, table), o)
  <2>1. PICK d \in Places : w[d].kind # "none" /\ w[d].obj = o
    BY <1>6 DEF Named
  <2>2. d[1] # p
    BY <1>3, <1>4, <2>1
  <2> QED
    BY <1>2, <2>1, <2>2 DEF Named
<1>7. ASSUME NEW o, NEW i \in Slots, table[i] # Empty, table[i].obj = o
      PROVE  Named(Give(w, p, table), o)
  BY <1>1, <1>7, Zenon DEF Named
<1> QED
  BY <1>5, <1>6, <1>7

LEMMA ViewsKept ==
    ASSUME NEW w \in Views, NEW p \in Procs, NEW i \in Slots
    PROVE  /\ \A e \in Ends \cup {Empty} : Put(w, p, i, e) \in Views
           /\ \A t \in Tables : Give(w, p, t) \in Views
<1>1. \A d \in Places : d[2] \in Slots
  BY DEF Places
<1> QED
  BY <1>1 DEF Put, Give, Views, Tables

\* A new descriptor of an object that is not freed.
LEMMA CountedPut ==
    ASSUME Counting, NEW w \in Views, NEW fr, NEW rd, NEW wr, Counted(w, fr, rd, wr),
           NEW p \in Procs, NEW i \in Slots, w[<<p, i>>] = Empty, NEW e \in Ends
    PROVE  Counted(Put(w, p, i, e),
                   [f \in Files |-> fr[f] + One(e = End("file", f))],
                   [o \in Pipes |-> rd[o] + One(e = End("read", o))],
                   [o \in Pipes |-> wr[o] + One(e = End("write", o))])
BY AddOne DEF Counted, Kinds

\* The two descriptors of a new pipe.
LEMMA CountedTwo ==
    ASSUME Counting, NEW w \in Views, NEW fr, NEW rd \in [Pipes -> Int], NEW wr \in [Pipes -> Int],
           Counted(w, fr, rd, wr), NEW p \in Procs, NEW i \in Slots, NEW j \in Slots, i # j,
           w[<<p, i>>] = Empty, w[<<p, j>>] = Empty, NEW o \in Pipes, rd[o] = 0, wr[o] = 0
    PROVE  Counted(Put(Put(w, p, i, End("read", o)), p, j, End("write", o)),
                   fr, [rd EXCEPT ![o] = 1], [wr EXCEPT ![o] = 1])
<1> DEFINE r == End("read", o)
           e == End("write", o)
           mid == Put(w, p, i, r)
           fin == Put(mid, p, j, e)
<1>1. /\ r \in Ends /\ \A k \in Kinds : \A x : r = End(k, x) <=> k = "read" /\ x = o
      /\ e \in Ends /\ \A k \in Kinds : \A x : e = End(k, x) <=> k = "write" /\ x = o
  BY EndTyped, EndFacts DEF Kinds
<1>2. mid \in Views /\ mid[<<p, j>>] = Empty
  BY <1>1, ViewsKept, PlaceFacts DEF Put
<1> HIDE DEF r, e
<1>3. \A k \in Kinds : \A x : Cardinality(Naming(mid, k, x)) = Cardinality(Naming(w, k, x)) + One(r = End(k, x))
  BY <1>1, AddOne
<1> HIDE DEF mid
<1>4. \A k \in Kinds : \A x : Cardinality(Naming(fin, k, x)) = Cardinality(Naming(mid, k, x)) + One(e = End(k, x))
  BY <1>1, <1>2, AddOne
<1> HIDE DEF fin
<1>5. \A k \in Kinds : \A x : Cardinality(Naming(w, k, x)) \in Nat
  BY NamingNat
<1>6. \A f \in Files : fr[f] = Cardinality(Naming(fin, "file", f))
  BY <1>1, <1>3, <1>4, <1>5 DEF Counted, Kinds, One
<1>7. \A x \in Pipes : [rd EXCEPT ![o] = 1][x] = Cardinality(Naming(fin, "read", x))
  BY <1>1, <1>3, <1>4, <1>5 DEF Counted, Kinds, One
<1>8. \A x \in Pipes : [wr EXCEPT ![o] = 1][x] = Cardinality(Naming(fin, "write", x))
  BY <1>1, <1>3, <1>4, <1>5 DEF Counted, Kinds, One
<1>9. Counted(fin, fr, [rd EXCEPT ![o] = 1], [wr EXCEPT ![o] = 1])
  BY <1>6, <1>7, <1>8 DEF Counted
<1> QED
  BY <1>9 DEF fin, mid, e, r

LEMMA FreedPut ==
    ASSUME NEW w \in Views, NEW fz, NEW us, NEW cl, NEW once, Freed(w, fz, us, cl, once),
           NEW p \in Procs, NEW i \in Slots, w[<<p, i>>] = Empty, NEW e \in Ends, fz[e.obj] = 0,
           NEW us2, us2 \subseteq us \cup {e.obj}
    PROVE  Freed(Put(w, p, i, e), fz, us2, cl, once)
BY NamedPut DEF Freed

LEMMA CountedGive ==
    ASSUME Counting, NEW w \in Views, NEW fr, NEW rd, NEW wr, Counted(w, fr, rd, wr),
           NEW p \in Procs, \A i \in Slots : w[<<p, i>>] = Empty, NEW t
    PROVE  Counted(Give(w, p, t),
                   [f \in Files |-> fr[f] + Names(t, "file", f)],
                   [o \in Pipes |-> rd[o] + Names(t, "read", o)],
                   [o \in Pipes |-> wr[o] + Names(t, "write", o)])
<1>1. \A k \in Kinds : \A o : Cardinality(Naming(Give(w, p, t), k, o)) = Cardinality(Naming(w, k, o)) + Names(t, k, o)
  BY AddTable
<1> QED
  BY <1>1 DEF Counted, Kinds

LEMMA FreedGive ==
    ASSUME NEW w \in Views, NEW fz, NEW us, NEW cl, NEW once, Freed(w, fz, us, cl, once),
           NEW p \in Procs, \A i \in Slots : w[<<p, i>>] = Empty, NEW t \in Tables,
           \A i \in Slots : t[i] # Empty => fz[t[i].obj] = 0,
           NEW us2, \A o \in us2 : o \in us \/ \E i \in Slots : t[i] # Empty /\ t[i].obj = o
    PROVE  Freed(Give(w, p, t), fz, us2, cl, once)
BY NamedGive DEF Freed

\* A descriptor less.
LEMMA CountedDrop ==
    ASSUME Counting, NEW w \in Views, NEW fr, NEW rd, NEW wr, Counted(w, fr, rd, wr),
           NEW p \in Procs, NEW i \in Slots
    PROVE  Counted(Put(w, p, i, Empty),
                   [f \in Files |-> fr[f] - One(w[<<p, i>>] = End("file", f))],
                   [o \in Pipes |-> rd[o] - One(w[<<p, i>>] = End("read", o))],
                   [o \in Pipes |-> wr[o] - One(w[<<p, i>>] = End("write", o))])
<1>1. \A k \in Kinds : \A o : Cardinality(Naming(Put(w, p, i, Empty), k, o))
                             = Cardinality(Naming(w, k, o)) - One(w[<<p, i>>] = End(k, o))
  BY DropOne
<1> QED
  BY <1>1 DEF Counted, Kinds

LEMMA FreedDropFile ==
    ASSUME Counting, NEW w \in Views, NEW fr, NEW rd, NEW wr, Counted(w, fr, rd, wr),
           NEW fz \in [Files \cup Pipes -> Int], NEW us, NEW cl, NEW once, Freed(w, fz, us, cl, once),
           NEW p \in Procs, NEW i \in Slots, NEW f \in Files, w[<<p, i>>] = End("file", f), f \notin cl
    PROVE  Freed(Put(w, p, i, Empty), IF fr[f] = 1 THEN [fz EXCEPT ![f] = @ + 1] ELSE fz, us, cl, once)
<1> DEFINE w2 == Put(w, p, i, Empty)
           fz2 == IF fr[f] = 1 THEN [fz EXCEPT ![f] = @ + 1] ELSE fz
<1>1. End("file", f).obj = f /\ End("file", f).kind = "file"
  BY EndFacts DEF Kinds
<1>2. Cardinality(Naming(w2, "file", f)) = fr[f] - 1 /\ fr[f] \in Nat
  BY DropOne, NamingNat DEF Counted, Kinds, One
<1>3. Named(w2, f) <=> fr[f] # 1
  <2>1. w2 \in Views
    BY ViewsKept
  <2>2. Named(w2, f) <=> Naming(w2, "file", f) # {}
    BY <2>1, NamedNaming
  <2> QED
    BY <1>2, <2>2, NamingNat
<1>4. Named(w, f)
  BY <1>1, PlaceFacts DEF Named
<1>5. fz[f] = 0
  BY <1>4 DEF Freed
<1>6. \A o : o # f => (Named(w2, o) <=> Named(w, o))
  BY <1>1, NamedDrop
<1>7. fz2[f] = (IF Named(w2, f) THEN 0 ELSE 1) /\ \A o \in Files \cup Pipes : o # f => fz2[o] = fz[o]
  BY <1>3, <1>5
<1> HIDE DEF w2, fz2
<1>8. \A o \in Files \cup Pipes : Named(w2, o) => fz2[o] = 0
  BY <1>6, <1>7 DEF Freed
<1>9. ASSUME NEW o \in us, o \in once
      PROVE  fz2[o] = IF o \in cl \/ Named(w2, o) THEN 0 ELSE 1
  <2>1. CASE o = f
    BY <1>7, <2>1
  <2>2. CASE o # f
    <3>1. fz2[o] = fz[o]
      BY <2>2, <1>5 DEF fz2
    <3> QED
      BY <1>6, <1>9, <2>2, <3>1 DEF Freed
  <2> QED
    BY <2>1, <2>2
<1>10. Freed(w2, fz2, us, cl, once)
  BY <1>8, <1>9 DEF Freed
<1> QED
  BY <1>10 DEF w2, fz2

LEMMA FreedDropPipe ==
    ASSUME NEW w \in Views, NEW fz, NEW us, NEW cl, NEW once, Freed(w, fz, us, cl, once),
           NEW p \in Procs, NEW i \in Slots, NEW k \in {"read", "write"}, NEW o \in Pipes,
           w[<<p, i>>] = End(k, o)
    PROVE  Freed(Put(w, p, i, Empty), fz, us, cl \cup {o}, once)
<1>1. End(k, o).obj = o /\ End(k, o).kind # "none"
  BY EndFacts DEF Kinds
<1>2. Named(w, o)
  BY <1>1, PlaceFacts DEF Named
<1>3. \A x : Named(Put(w, p, i, Empty), x) => Named(w, x)
  BY NamedDrop
<1>4. \A x : x # o /\ Named(w, x) => Named(Put(w, p, i, Empty), x)
  BY <1>1, NamedDrop
<1> QED
  BY <1>2, <1>3, <1>4 DEF Freed

LEMMA FreedFree ==
    ASSUME Counting, NEW w \in Views, NEW fr, NEW rd, NEW wr, Counted(w, fr, rd, wr),
           NEW fz \in [Files \cup Pipes -> Int], NEW us, NEW cl, NEW once, Freed(w, fz, us, cl, once),
           NEW o \in Pipes, o \in cl,
           NEW cl2, cl2 \subseteq cl, cl \subseteq cl2 \cup {o}, o \in once => o \notin cl2
    PROVE  Freed(w, IF rd[o] <= 0 /\ wr[o] <= 0 THEN [fz EXCEPT ![o] = @ + 1] ELSE fz, us, cl2, once)
<1> DEFINE fz2 == IF rd[o] <= 0 /\ wr[o] <= 0 THEN [fz EXCEPT ![o] = @ + 1] ELSE fz
<1>1. Named(w, o) <=> ~(rd[o] <= 0 /\ wr[o] <= 0)
  <2>1. Named(w, o) <=> Naming(w, "read", o) # {} \/ Naming(w, "write", o) # {}
    BY NamedNaming
  <2> QED
    BY <2>1, NamingNat DEF Counted
<1>2. fz2[o] = (IF Named(w, o) THEN fz[o] ELSE fz[o] + 1)
  BY <1>1
<1>3. \A x : x # o => fz2[x] = fz[x]
  OBVIOUS
<1> HIDE DEF fz2
<1>4. \A x \in Files \cup Pipes : Named(w, x) => fz2[x] = 0
  BY <1>2, <1>3 DEF Freed
<1>5. ASSUME NEW x \in us, x \in once
      PROVE  fz2[x] = IF x \in cl2 \/ Named(w, x) THEN 0 ELSE 1
  <2>1. CASE x = o
    <3>1. fz[o] = 0
      BY <1>5, <2>1 DEF Freed
    <3> QED
      BY <1>2, <1>5, <2>1, <3>1
  <2>2. CASE x # o
    BY <1>3, <1>5, <2>2 DEF Freed
  <2> QED
    BY <2>1, <2>2
<1>6. Freed(w, fz2, us, cl2, once)
  BY <1>4, <1>5 DEF Freed
<1> QED
  BY <1>6 DEF fz2

Typed ==
    /\ fds \in [Procs -> Tables]
    /\ refs \in [Files -> Int]
    /\ readers \in [Pipes -> Int] /\ writers \in [Pipes -> Int]
    /\ freed \in [Files \cup Pipes -> Int]
    /\ used \subseteq Files \cup Pipes
    /\ alive \subseteq Procs
    /\ pc \in [Procs -> {"user", "drop", "check", "closed", "poll", "asleep"}]
    /\ slot \in [Procs -> Slots] /\ old \in [Procs -> Slots]
    /\ todo \in [Procs -> {"none", "dup2", "exec", "exit"}]

\* A process that does not exist has no descriptors; the descriptor that a
\* close drops is open until it is dropped; dup2 still finds the descriptor it
\* copies open, and the one it replaces closed.
Sound(p) ==
    /\ p \notin alive => pc[p] = "user" /\ fds[p] = [i \in Slots |-> Empty]
    /\ pc[p] \in {"user", "poll", "asleep"} => todo[p] = "none"
    /\ pc[p] = "drop" => fds[p][slot[p]] # Empty
    /\ pc[p] = "check" => fds[p][slot[p]].kind \in {"read", "write"}
    /\ todo[p] = "dup2" => old[p] # slot[p] /\ fds[p][old[p]] # Empty
    /\ todo[p] = "dup2" /\ pc[p] = "closed" => fds[p][slot[p]] = Empty

\* Objects that were not allocated are not named and not freed.
Fresh ==
    /\ \A p \in Procs, i \in Slots : fds[p][i] # Empty => fds[p][i].obj \in used
    /\ \A o \in (Files \cup Pipes) \ used : freed[o] = 0

\* On one CPU one process at most is inside a call.
Outside(p) == pc[p] \in {"user", "asleep"}
Alone == OneCpu => \A p, q \in Procs : p # q => Outside(p) \/ Outside(q)

IInv == Typed /\ (\A p \in Procs : Sound(p)) /\ Fresh /\ Alone /\ FilesCounted

-----------------------------------------------------------------------------
(* Types. *)

Step(p) ==
    \/ \E f \in Files : fs_cmd_open(p, f)
    \/ \E o \in Pipes : fs_cmd_pipe(p, o)
    \/ \E i \in Slots : fs_cmd_dup(p, i)
    \/ \E i, j \in Slots : fs_cmd_dup2(p, i, j)
    \/ \E q \in Procs : Fork(p, q) \/ Spawn(p, q)
    \/ Dup2Copies(p) \/ DropFile(p) \/ DropPipe(p) \/ FreePipe(p)
    \/ \E i \in Slots : Close(p, i) \/ fs_cmd_poll(p, i) \/ \E n \in 1..PIPE_SIZE : Transfer(p, i, n)
    \/ Leave(p, "exit") \/ Leave(p, "exec") \/ CloseNext(p) \/ CloseDone(p)
    \/ PollBlocks(p) \/ PollReturns(p) \/ PollTimesOut(p)

LEMMA StepOfProcess ==
    ASSUME Next
    PROVE  \E p \in Procs : Step(p)
BY DEF Next, Step, InKernel

LEMMA TableFacts ==
    ASSUME Typed, NEW p \in Procs, NEW i \in Slots
    PROVE  /\ fds[p] \in Tables
           /\ fds[p][i] \in Ends \cup {Empty}
           /\ \A e \in Ends \cup {Empty} : [fds EXCEPT ![p][i] = e] \in [Procs -> Tables]
           /\ \A t \in Tables : [fds EXCEPT ![p] = t] \in [Procs -> Tables]
BY DEF Typed, Tables

LEMMA AddRefsTyped ==
    ASSUME Counting, Typed, NEW table, AddRefs(table)
    PROVE  refs' \in [Files -> Int] /\ readers' \in [Pipes -> Int] /\ writers' \in [Pipes -> Int]
BY NamesNat DEF AddRefs, Typed

\* The free descriptors of a process, and the smallest of them.
LEMMA FreeFacts ==
    ASSUME Counting, Typed, NEW p \in Procs
    PROVE  /\ FreeSlots(p) \subseteq Slots
           /\ \A i \in FreeSlots(p) : fds[p][i] = Empty
           /\ FreeSlots(p) # {} => Min(FreeSlots(p)) \in FreeSlots(p)
           /\ Cardinality(FreeSlots(p)) > 1 =>
                 /\ Min(FreeSlots(p)) \in FreeSlots(p)
                 /\ Min(FreeSlots(p) \ {Min(FreeSlots(p))}) \in FreeSlots(p) \ {Min(FreeSlots(p))}
<1>1. FreeSlots(p) \subseteq Slots
  BY DEF FreeSlots
<1>2. \A i \in FreeSlots(p) : fds[p][i] = Empty
  BY TableFacts, OpenFacts DEF FreeSlots, Open, Fd
<1> QED
  BY <1>1, <1>2, Smallest

\* A copy puts a descriptor that is open into a place.
LEMMA CopyTyped ==
    ASSUME Counting, Typed, NEW p \in Procs, NEW i \in Slots, NEW j \in Slots, Copy(p, i, j)
    PROVE  /\ fds' \in [Procs -> Tables]
           /\ refs' \in [Files -> Int] /\ readers' \in [Pipes -> Int] /\ writers' \in [Pipes -> Int]
           /\ UNCHANGED <<alive, freed, used>>
<1>1. fds' = [fds EXCEPT ![p][j] = fds[p][i]] /\ AddRefs(Only(i, Fd(p, i))) /\ UNCHANGED <<alive, freed, used>>
  BY DEF Copy, Fd
<1> QED
  BY <1>1, TableFacts, AddRefsTyped

LEMMA DropTyped ==
    ASSUME Typed, NEW p \in Procs
    PROVE  /\ slot[p] \in Slots /\ Fd(p, slot[p]) = fds[p][slot[p]]
           /\ Fd(p, slot[p]) \in Ends \cup {Empty}
           /\ Fd(p, slot[p]).kind = "file" => Fd(p, slot[p]).obj \in Files
           /\ Fd(p, slot[p]).kind \in {"read", "write"} => Fd(p, slot[p]).obj \in Pipes
           /\ [fds EXCEPT ![p][slot[p]] = Empty] \in [Procs -> Tables]
<1>1. slot[p] \in Slots
  BY DEF Typed
<1>2. Fd(p, slot[p]) = fds[p][slot[p]] /\ fds[p][slot[p]] \in Ends \cup {Empty}
  BY <1>1, TableFacts DEF Fd
<1> QED
  BY <1>1, <1>2, TableFacts, EndCases, OpenFacts DEF Kinds

LEMMA TablesOfSpawn ==
    ASSUME Typed, NEW p \in Procs, NEW table \in {Inherited(p), NoFds}
    PROVE  /\ table \in Tables
           /\ \A f \in Files : WithConsole(table, f) \in Tables
<1>1. \A i \in Slots : Fd(p, i) \in Ends \cup {Empty}
  BY TableFacts DEF Fd
<1>2. table \in Tables
  BY <1>1 DEF Tables, Inherited, NoFds
<1> QED
  BY <1>2, EndTyped DEF Tables, WithConsole

\* Every step keeps the types.  What a call only does to pc, slot, todo and old
\* is typed with the rest of its action.
LEMMA TypedStep ==
    ASSUME Counting, Typed, NEW p \in Procs, Sound(p), Step(p)
    PROVE  Typed'
<1>1. ASSUME NEW f \in Files, fs_cmd_open(p, f)
      PROVE  Typed'
  <2>1. Min(FreeSlots(p)) \in Slots
    BY <1>1, FreeFacts, Zenon DEF fs_cmd_open
  <2>2. fds' \in [Procs -> Tables]
    BY <1>1, <2>1, TableFacts, EndTyped DEF fs_cmd_open
  <2> QED
    BY <1>1, <2>2 DEF fs_cmd_open, Typed, call
<1>2. ASSUME NEW o \in Pipes, fs_cmd_pipe(p, o)
      PROVE  Typed'
  <2> DEFINE r == Min(FreeSlots(p))
             w == Min(FreeSlots(p) \ {r})
  <2>1. r \in Slots /\ w \in Slots
    BY <1>2, FreeFacts DEF fs_cmd_pipe
  <2>2. fds' = [fds EXCEPT ![p][r] = End("read", o), ![p][w] = End("write", o)]
    BY <1>2 DEF fs_cmd_pipe
  <2> HIDE DEF r, w
  <2>3. fds' \in [Procs -> Tables]
    BY <2>1, <2>2, EndTyped DEF Typed, Tables
  <2> QED
    BY <1>2, <2>3 DEF fs_cmd_pipe, Typed, call
<1>3. ASSUME NEW i \in Slots, fs_cmd_dup(p, i)
      PROVE  Typed'
  <2>1. Min(FreeSlots(p)) \in Slots
    BY <1>3, FreeFacts, Zenon DEF fs_cmd_dup
  <2>2. Copy(p, i, Min(FreeSlots(p))) /\ UNCHANGED call
    BY <1>3 DEF fs_cmd_dup
  <2> QED
    BY <2>1, <2>2, CopyTyped DEF Typed, call
<1>4. ASSUME NEW i \in Slots, NEW j \in Slots, fs_cmd_dup2(p, i, j)
      PROVE  Typed'
  <2>1. CASE Copy(p, i, j) /\ UNCHANGED call
    BY <2>1, CopyTyped DEF Typed, call
  <2>2. CASE ~(Copy(p, i, j) /\ UNCHANGED call)
    BY <1>4, <2>2 DEF fs_cmd_dup2, Typed, objects
  <2> QED
    BY <2>1, <2>2
<1>5. ASSUME NEW q \in Procs, Fork(p, q)
      PROVE  Typed'
  <2>1. fds' \in [Procs -> Tables] /\ AddRefs(fds[p])
    BY <1>5, TableFacts, SlotsNat DEF Fork
  <2> QED
    BY <1>5, <2>1, AddRefsTyped DEF Fork, Typed, call
<1>6. ASSUME NEW q \in Procs, Spawn(p, q)
      PROVE  Typed'
  <2>1. \E t \in Tables : fds' = [fds EXCEPT ![q] = t] /\ AddRefs(t)
    BY <1>6, TablesOfSpawn DEF Spawn
  <2>2. fds' \in [Procs -> Tables]
    BY <2>1, TableFacts, SlotsNat
  <2>3. used' \subseteq Files \cup Pipes
    BY <1>6 DEF Spawn, Typed
  <2>4. alive' = alive \cup {q} /\ UNCHANGED <<freed, pc, slot, todo, old>>
    BY <1>6 DEF Spawn, call
  <2> QED
    BY <2>1, <2>2, <2>3, <2>4, AddRefsTyped DEF Typed
<1>7. CASE Dup2Copies(p)
  <2>1. Copy(p, old[p], slot[p]) /\ old[p] \in Slots /\ slot[p] \in Slots
    BY <1>7 DEF Dup2Copies, Typed
  <2> QED
    BY <1>7, <2>1, CopyTyped, SlotsNat, Zenon DEF Dup2Copies, Typed
<1>8. CASE DropFile(p)
  <2> DEFINE d == Fd(p, slot[p])
  <2>1. d.obj \in Files /\ fds' \in [Procs -> Tables]
    BY <1>8, DropTyped DEF DropFile
  <2>2. refs' = [refs EXCEPT ![d.obj] = @ - 1] /\ freed' \in {freed, [freed EXCEPT ![d.obj] = @ + 1]}
    BY <1>8 DEF DropFile, Kfree
  <2> HIDE DEF d
  <2>3. refs' \in [Files -> Int] /\ freed' \in [Files \cup Pipes -> Int]
    BY <2>1, <2>2 DEF Typed
  <2> QED
    BY <1>8, <2>1, <2>3 DEF DropFile, Typed
<1>9. CASE DropPipe(p)
  <2> DEFINE d == Fd(p, slot[p])
  <2>1. d.obj \in Pipes
    BY <1>9, DropTyped, ZenonT(40) DEF DropPipe
  <2>2. /\ readers' = [readers EXCEPT ![d.obj] = IF d.kind = "read" THEN @ - 1 ELSE @]
        /\ writers' = [writers EXCEPT ![d.obj] = IF d.kind = "write" THEN @ - 1 ELSE @]
    BY <1>9 DEF DropPipe
  <2> HIDE DEF d
  <2>3. readers' \in [Pipes -> Int] /\ writers' \in [Pipes -> Int]
    BY <2>1, <2>2 DEF Typed
  <2> QED
    BY <1>9, <2>3 DEF DropPipe, Typed
<1>10. CASE FreePipe(p)
  <2> DEFINE d == Fd(p, slot[p])
  <2>1. d.obj \in Pipes /\ fds' \in [Procs -> Tables]
    BY <1>10, DropTyped DEF FreePipe, At, Sound
  <2>2. freed' \in {freed, [freed EXCEPT ![d.obj] = @ + 1]}
    BY <1>10 DEF FreePipe, Kfree
  <2> HIDE DEF d
  <2>3. freed' \in [Files \cup Pipes -> Int]
    BY <2>1, <2>2 DEF Typed
  <2> QED
    BY <1>10, <2>1, <2>3 DEF FreePipe, Typed
<1>11. ASSUME NEW i \in Slots, Close(p, i)
       PROVE  Typed'
  BY <1>11 DEF Close, Typed, objects
<1>12. ASSUME NEW i \in Slots, fs_cmd_poll(p, i)
       PROVE  Typed'
  BY <1>12 DEF fs_cmd_poll, Typed, objects
<1>13. ASSUME NEW i \in Slots, NEW n \in 1..PIPE_SIZE, Transfer(p, i, n)
       PROVE  Typed'
  BY <1>13, ZenonT(40) DEF Transfer, Typed, call
<1>14. CASE Leave(p, "exit") \/ Leave(p, "exec")
  BY <1>14 DEF Leave, Typed, objects
<1>15. CASE CloseNext(p)
  <2>1. Closed(p, todo[p]) \subseteq Slots /\ Closed(p, todo[p]) # {}
    BY <1>15 DEF CloseNext, Closed
  <2>2. Min(Closed(p, todo[p])) \in Slots
    BY <2>1, Smallest
  <2> QED
    BY <1>15, <2>2 DEF CloseNext, Typed, objects
<1>16. CASE CloseDone(p)
  BY <1>16, SlotsNat DEF CloseDone, Typed, objects
<1>17. CASE PollBlocks(p) \/ PollReturns(p) \/ PollTimesOut(p)
  BY <1>17 DEF PollBlocks, PollReturns, PollTimesOut, Typed, objects, call
<1> QED
  BY <1>1, <1>2, <1>3, <1>4, <1>5, <1>6, <1>7, <1>8, <1>9, <1>10, <1>11, <1>12, <1>13, <1>14,
     <1>15, <1>16, <1>17 DEF Step

-----------------------------------------------------------------------------
(* What a process does to its own state, and to that of the others. *)

\* Only a process that exists takes a step; it leaves the calls of the others
\* alone, and gives descriptors only to a process it creates.
LEMMA Frame ==
    ASSUME Typed, NEW p \in Procs, Step(p), NEW q \in Procs, q # p
    PROVE  /\ p \in alive /\ cpu' = cpu
           /\ OneCpu /\ q \in alive => Outside(q)
           /\ pc'[q] = pc[q] /\ slot'[q] = slot[q] /\ todo'[q] = todo[q] /\ old'[q] = old[q]
           /\ \/ fds'[q] = fds[q] /\ (q \in alive' <=> q \in alive)
              \/ q \notin alive /\ q \in alive'
<1> DEFINE Calls == pc'[q] = pc[q] /\ slot'[q] = slot[q] /\ todo'[q] = todo[q] /\ old'[q] = old[q]
           Same == fds'[q] = fds[q] /\ (q \in alive' <=> q \in alive)
           Goal == Runs(p) /\ cpu' = cpu /\ Calls /\ (Same \/ (q \notin alive /\ q \in alive'))
<1> SUFFICES Goal
  BY Zenon DEF Runs, OneCpu, Outside
<1>1. ASSUME NEW f \in Files, fs_cmd_open(p, f)
      PROVE  Goal
  BY <1>1 DEF fs_cmd_open, User, call, Typed
<1>2. ASSUME NEW o \in Pipes, fs_cmd_pipe(p, o)
      PROVE  Goal
  BY <1>2 DEF fs_cmd_pipe, User, call, Typed
<1>3. ASSUME NEW i \in Slots, fs_cmd_dup(p, i)
      PROVE  Goal
  BY <1>3 DEF fs_cmd_dup, Copy, User, call, Typed
<1>4. ASSUME NEW i \in Slots, NEW j \in Slots, fs_cmd_dup2(p, i, j)
      PROVE  Goal
  BY <1>4 DEF fs_cmd_dup2, Copy, User, call, Typed
<1>5. ASSUME NEW c \in Procs, Fork(p, c)
      PROVE  Goal
  BY <1>5 DEF Fork, User, Runs, call, Typed
<1>6. ASSUME NEW c \in Procs, Spawn(p, c)
      PROVE  Goal
  <2>1. PICK t : fds' = [fds EXCEPT ![c] = t]
    BY <1>6 DEF Spawn
  <2> QED
    BY <1>6, <2>1 DEF Spawn, User, Runs, call, Typed
<1>7. CASE Dup2Copies(p)
  BY <1>7 DEF Dup2Copies, Copy, At, Typed
<1>8. CASE DropFile(p)
  BY <1>8 DEF DropFile, At, Typed
<1>9. CASE DropPipe(p)
  BY <1>9 DEF DropPipe, At, Typed
<1>10. CASE FreePipe(p)
  BY <1>10 DEF FreePipe, At, Typed
<1>11. ASSUME NEW i \in Slots, Close(p, i) \/ fs_cmd_poll(p, i)
       PROVE  Goal
  BY <1>11 DEF Close, fs_cmd_poll, User, objects, Typed
<1>12. ASSUME NEW i \in Slots, NEW n \in 1..PIPE_SIZE, Transfer(p, i, n)
       PROVE  Goal
  BY <1>12, ZenonT(40) DEF Transfer, User, call, Typed
<1>13. CASE Leave(p, "exit") \/ Leave(p, "exec")
  BY <1>13 DEF Leave, User, Typed
<1>14. CASE CloseNext(p)
  BY <1>14 DEF CloseNext, At, Typed
<1>15. CASE CloseDone(p)
  BY <1>15 DEF CloseDone, At, Typed
<1>16. CASE PollBlocks(p) \/ PollReturns(p) \/ PollTimesOut(p)
  BY <1>16 DEF PollBlocks, PollReturns, PollTimesOut, At, call, Typed
<1> QED
  BY <1>1, <1>2, <1>3, <1>4, <1>5, <1>6, <1>7, <1>8, <1>9, <1>10, <1>11, <1>12, <1>13, <1>14,
     <1>15, <1>16, ZenonT(40) DEF Step

LEMMA AloneStep ==
    ASSUME Typed, \A q \in Procs : Sound(q), Alone, NEW p \in Procs, Step(p)
    PROVE  Alone'
<1> SUFFICES ASSUME OneCpu', NEW q \in Procs, NEW r \in Procs, q # r
             PROVE  Outside(q)' \/ Outside(r)'
  BY DEF Alone
<1>1. OneCpu \/ \A x \in Procs : x = p
  BY Frame, ZenonT(40) DEF OneCpu
<1>2. ASSUME NEW x \in Procs, x # p
      PROVE  Outside(x)'
  <2>1. OneCpu
    BY <1>1, <1>2
  <2>2. x \in alive => Outside(x)
    BY <1>2, <2>1, Frame
  <2>3. x \notin alive => Outside(x)
    BY DEF Sound, Outside
  <2> QED
    BY <1>2, <2>2, <2>3, Frame DEF Outside
<1> QED
  BY <1>2

LEMMA SoundStep ==
    ASSUME Counting, Typed, \A r \in Procs : Sound(r), NEW p \in Procs, Step(p), NEW q \in Procs
    PROVE  Sound(q)'
<1>1. CASE q # p
  <2>1. pc'[q] = pc[q] /\ slot'[q] = slot[q] /\ todo'[q] = todo[q] /\ old'[q] = old[q]
    BY <1>1, Frame, Zenon
  <2>2. Sound(q)
    OBVIOUS
  <2>3. CASE fds'[q] = fds[q] /\ (q \in alive' <=> q \in alive)
    BY <2>1, <2>2, <2>3, Zenon DEF Sound
  <2>4. CASE q \notin alive /\ q \in alive'
    <3>1. pc[q] = "user" /\ todo[q] = "none"
      BY <2>2, <2>4 DEF Sound
    <3> QED
      BY <2>1, <2>4, <3>1, Zenon DEF Sound
  <2> QED
    BY <1>1, <2>3, <2>4, Frame, Zenon
<1> SUFFICES ASSUME q = p, Sound(p), slot[p] \in Slots, old[p] \in Slots
             PROVE  Sound(p)'
  BY <1>1 DEF Typed
<1>2. ASSUME NEW f \in Files, fs_cmd_open(p, f)
      PROVE  Sound(p)'
  BY <1>2 DEF fs_cmd_open, User, Runs, call, Sound
<1>3. ASSUME NEW o \in Pipes, fs_cmd_pipe(p, o)
      PROVE  Sound(p)'
  BY <1>3 DEF fs_cmd_pipe, User, Runs, call, Sound
<1>4. ASSUME NEW i \in Slots, fs_cmd_dup(p, i)
      PROVE  Sound(p)'
  BY <1>4 DEF fs_cmd_dup, Copy, User, Runs, call, Sound
<1>5. ASSUME NEW i \in Slots, NEW j \in Slots, fs_cmd_dup2(p, i, j)
      PROVE  Sound(p)'
  <2>1. CASE Copy(p, i, j) /\ UNCHANGED call
    BY <1>5, <2>1 DEF fs_cmd_dup2, Copy, User, Runs, call, Sound
  <2>2. CASE ~(Copy(p, i, j) /\ UNCHANGED call)
    <3>1. fds[p][i] # Empty /\ fds[p][j] # Empty
      BY <1>5, <2>2, TableFacts, OpenFacts DEF fs_cmd_dup2, Open, Fd
    <3>2. /\ p \in alive /\ i # j /\ pc' = [pc EXCEPT ![p] = "drop"] /\ slot' = [slot EXCEPT ![p] = j]
          /\ todo' = [todo EXCEPT ![p] = "dup2"] /\ old' = [old EXCEPT ![p] = i] /\ UNCHANGED <<alive, fds>>
      BY <1>5, <2>2 DEF fs_cmd_dup2, User, Runs
    <3> QED
      BY <3>1, <3>2 DEF Sound, Typed
  <2> QED
    BY <2>1, <2>2
<1>6. ASSUME NEW c \in Procs, Fork(p, c) \/ Spawn(p, c)
      PROVE  Sound(p)'
  <2>1. UNCHANGED <<pc, todo>> /\ p \in alive' /\ pc[p] = "user"
    BY <1>6 DEF Fork, Spawn, User, Runs, call
  <2> QED
    BY <2>1, Zenon DEF Sound
<1>7. CASE Dup2Copies(p)
  BY <1>7, ZenonT(40) DEF Dup2Copies, Copy, At, Runs, Sound, Typed
<1>8. CASE DropFile(p) \/ FreePipe(p)
  <2>1. /\ fds' = [fds EXCEPT ![p][slot[p]] = Empty] /\ pc' = [pc EXCEPT ![p] = "closed"]
        /\ UNCHANGED <<alive, slot, todo, old>> /\ p \in alive
    BY <1>8 DEF DropFile, FreePipe, At, Runs
  <2>2. fds'[p][slot[p]] = Empty /\ \A i \in Slots : i # slot[p] => fds'[p][i] = fds[p][i]
    BY <2>1 DEF Typed, Tables
  <2> QED
    BY <2>1, <2>2 DEF Sound, Typed
<1>9. CASE DropPipe(p)
  BY <1>9 DEF DropPipe, At, Runs, Fd, Sound, Typed
<1>10. ASSUME NEW i \in Slots, Close(p, i)
       PROVE  Sound(p)'
  <2>1. fds[p][i] # Empty
    BY <1>10, TableFacts, OpenFacts DEF Close, Open, Fd
  <2> QED
    BY <1>10, <2>1 DEF Close, User, Runs, Sound, Typed
<1>11. ASSUME NEW i \in Slots, fs_cmd_poll(p, i)
       PROVE  Sound(p)'
  BY <1>11 DEF fs_cmd_poll, User, Runs, Sound, Typed
<1>12. ASSUME NEW i \in Slots, NEW n \in 1..PIPE_SIZE, Transfer(p, i, n)
       PROVE  Sound(p)'
  BY <1>12, ZenonT(40) DEF Transfer, User, Runs, call, Sound
<1>13. CASE Leave(p, "exit") \/ Leave(p, "exec")
  <2>1. p \in alive /\ UNCHANGED <<alive, fds, slot, old>>
    BY <1>13 DEF Leave, User, Runs
  <2>2. pc'[p] = "closed" /\ todo'[p] \in {"exit", "exec"}
    BY <1>13 DEF Leave, Typed
  <2> QED
    BY <2>1, <2>2 DEF Sound
<1>14. CASE CloseNext(p)
  <2> DEFINE S == Closed(p, todo[p])
  <2>1. S \subseteq Slots /\ S # {} /\ \A i \in S : fds[p][i] # Empty
    BY <1>14, TableFacts, OpenFacts DEF CloseNext, Closed, Open, Fd
  <2>2. Min(S) \in S
    BY <2>1, Smallest
  <2>3. /\ slot' = [slot EXCEPT ![p] = Min(S)] /\ pc' = [pc EXCEPT ![p] = "drop"]
        /\ UNCHANGED <<alive, fds, todo>> /\ p \in alive /\ todo[p] \in {"exec", "exit"}
    BY <1>14 DEF CloseNext, At, Runs
  <2> HIDE DEF S
  <2> QED
    BY <2>1, <2>2, <2>3 DEF Sound, Typed
<1>15. CASE CloseDone(p)
  <2>1. ASSUME todo[p] = "exit"
        PROVE  fds[p] = [i \in Slots |-> Empty]
    <3>1. \A i \in Slots : ~Open(p, i)
      BY <1>15, <2>1 DEF CloseDone, Closed
    <3>2. \A i \in Slots : fds[p][i] = Empty
      BY <3>1, TableFacts, OpenFacts DEF Open, Fd
    <3> QED
      BY <3>2 DEF Typed, Tables
  <2> QED
    BY <1>15, <2>1, Zenon DEF CloseDone, At, Runs, Sound, Typed
<1>16. CASE PollBlocks(p) \/ PollReturns(p) \/ PollTimesOut(p)
  BY <1>16 DEF PollBlocks, PollReturns, PollTimesOut, At, Runs, call, Sound, Typed
<1> QED
  BY <1>2, <1>3, <1>4, <1>5, <1>6, <1>7, <1>8, <1>9, <1>10, <1>11, <1>12, <1>13, <1>14,
     <1>15, <1>16, ZenonT(40) DEF Step
=============================================================================
