---------------------------- MODULE ExtractProofs ----------------------------
(***************************************************************************)
(* What holds of Extract for every archive and all limits.  The invariant  *)
(* is IInv: what preflight keeps of the entries it has passed, what is on  *)
(* disk and in the result after each entry, and what a failure leaves.     *)
(***************************************************************************)
EXTENDS Extract, LimitsProofs, FiniteSetTheorems, SequenceTheorems

\* ------------------------------------------------------------ paths

Paths == Seq(Spellings) \ {<<>>}

\* A path is its own last level.
LEMMA OwnLevel ==
    ASSUME NEW p \in Paths
    PROVE Len(p) \in Nat \ {0} /\ p \in Levels(p)
  <1>1. Len(p) \in Nat \ {0} BY EmptySeq, LenProperties DEF Paths
  <1>2. SubSeq(p, 1, Len(p)) = p BY SubSeqFull DEF Paths
  <1>3. Len(p) \in 1..Len(p) BY <1>1
  <1> QED BY <1>1, <1>2, <1>3 DEF Levels

\* A level is a path that agrees with the whole as far as it goes.
LEMMA LevelIs ==
    ASSUME NEW p \in Paths, NEW q \in Levels(p)
    PROVE /\ q \in Paths /\ Len(q) \in 1..Len(p)
          /\ q = SubSeq(p, 1, Len(q))
          /\ \A i \in 1..Len(q) : q[i] = p[i]
  <1>1. PICK k \in 1..Len(p) : q = SubSeq(p, 1, k) BY DEF Levels
  <1>2. p \in Seq(Spellings) /\ Len(p) \in Nat BY OwnLevel DEF Paths
  <1>3. \A i \in 1..k : p[i] \in Spellings BY <1>1, <1>2, LenProperties
  <1>4. /\ q \in Seq(Spellings) /\ Len(q) = k
        /\ \A i \in 1..k : q[i] = p[i]
    BY <1>1, <1>2, <1>3, SubSeqProperties
  <1>5. q # <<>> BY <1>1, <1>2, <1>4, EmptySeq
  <1> QED BY <1>1, <1>2, <1>4, <1>5 DEF Paths

\* The levels of a level are levels of the whole.
LEMMA LevelsNest ==
    ASSUME NEW p \in Paths, NEW q \in Levels(p), NEW r \in Levels(q)
    PROVE r \in Levels(p)
  <1>1. q \in Paths /\ Len(q) \in 1..Len(p) /\ \A i \in 1..Len(q) : q[i] = p[i]
    BY LevelIs
  <1>2. r \in Paths /\ Len(r) \in 1..Len(q) /\ \A i \in 1..Len(r) : r[i] = q[i]
    BY <1>1, LevelIs
  <1>3. Len(p) \in Nat /\ p \in Seq(Spellings) BY OwnLevel DEF Paths
  <1>4. Len(r) \in 1..Len(p) BY <1>1, <1>2, <1>3
  <1> DEFINE t == SubSeq(p, 1, Len(r))
  <1>5. t \in Levels(p) BY <1>4 DEF Levels
  <1>6. t \in Paths BY <1>5, LevelIs
  <1>7. Len(t) = Len(r) /\ \A i \in 1..Len(r) : t[i] = p[i]
    <2>1. \A i \in 1..Len(r) : p[i] \in Spellings BY <1>3, <1>4, LenProperties
    <2> QED BY <1>4, <1>3, <2>1, SubSeqProperties
  <1>8. \A i \in 1..Len(r) : r[i] = t[i] BY <1>1, <1>2, <1>3, <1>7
  <1>9. r = t BY <1>2, <1>6, <1>7, <1>8, SeqEqual DEF Paths
  <1> QED BY <1>5, <1>9

\* The directory above is a level.
LEMMA AboveIs ==
    ASSUME NEW p \in Paths, Len(p) # 1
    PROVE /\ Front(p) \in Levels(p) /\ Front(p) \in Paths
          /\ Front(p) # p /\ Len(Front(p)) = Len(p) - 1
  <1>0. Len(p) \in Nat \ {0} BY OwnLevel
  <1>a. \A n \in Nat \ {0, 1} : n - 1 \in 1..n OBVIOUS
  <1>1. Len(p) \in Nat /\ Len(p) - 1 \in 1..Len(p) BY <1>0, <1>a
  <1>2. Front(p) \in Levels(p) BY <1>1 DEF Levels, Front
  <1>3. p \in Seq(Spellings) /\ \A i \in 1..(Len(p) - 1) : p[i] \in Spellings
    BY <1>1, LenProperties DEF Paths
  <1>4. Len(Front(p)) = Len(p) - 1 BY <1>1, <1>3, SubSeqProperties DEF Front
  <1> QED BY <1>1, <1>2, <1>4, LevelIs

\* The names on disk: as many components, and a second normalization changes nothing.
LEMMA NormalIs ==
    ASSUME NEW p \in Paths
    PROVE /\ Normal(p) \in Paths /\ Len(Normal(p)) = Len(p)
          /\ \A i \in 1..Len(p) : Normal(p)[i] = NFC[p[i]]
          /\ Folded(Normal(p)) = Folded(p)
  <1>1. p \in Seq(Spellings) /\ Len(p) \in Nat \ {0} /\ DOMAIN p = 1..Len(p)
    BY OwnLevel, LenProperties DEF Paths
  <1>2. \A i \in 1..Len(p) : p[i] \in Spellings /\ NFC[p[i]] \in Spellings
    BY <1>1, LenProperties, ExtractAssumption
  <1>3. Normal(p) = [i \in 1..Len(p) |-> NFC[p[i]]] BY <1>1 DEF Normal
  <1>4. Normal(p) \in [1..Len(p) -> Spellings] BY <1>2, <1>3
  <1>5. Normal(p) \in Seq(Spellings) /\ Len(Normal(p)) = Len(p) BY <1>1, <1>4
  <1>6. Normal(p) # <<>> BY <1>1, <1>5, EmptySeq
  <1>7. \A i \in 1..Len(p) : CaseFold[NFC[Normal(p)[i]]] = CaseFold[NFC[p[i]]]
    BY <1>2, <1>3, ExtractAssumption
  <1>8. DOMAIN Normal(p) = 1..Len(p) BY <1>3
  <1>9. Folded(Normal(p)) = Folded(p) BY <1>1, <1>7, <1>8 DEF Folded
  <1> QED BY <1>3, <1>5, <1>6, <1>9 DEF Paths

\* Paths with the same folded name have as many components.
LEMMA FoldedLength ==
    ASSUME NEW p \in Paths, NEW q \in Paths, Folded(p) = Folded(q)
    PROVE Len(p) = Len(q)
  <1>1. DOMAIN Folded(p) = DOMAIN p /\ DOMAIN Folded(q) = DOMAIN q BY DEF Folded
  <1>2. /\ DOMAIN p = 1..Len(p) /\ Len(p) \in Nat \ {0}
        /\ DOMAIN q = 1..Len(q) /\ Len(q) \in Nat \ {0}
    BY OwnLevel, LenProperties DEF Paths
  <1>3. Len(p) \in 1..Len(q) /\ Len(q) \in 1..Len(p) BY <1>1, <1>2
  <1> DEFINE n == Len(p)
           m == Len(q)
  <1>4. n \in Nat /\ m \in Nat /\ n \in 1..m /\ m \in 1..n BY <1>2, <1>3
  <1> HIDE DEF n, m
  <1>5. n = m BY <1>4
  <1> QED BY <1>5 DEF n, m

\* Two levels of one path have different folded names.
LEMMA LevelsDiffer ==
    ASSUME NEW p \in Paths, NEW q \in Levels(p), NEW r \in Levels(p), Folded(q) = Folded(r)
    PROVE q = r
  <1>1. q \in Paths /\ r \in Paths BY LevelIs
  <1>2. Len(q) = Len(r) BY <1>1, FoldedLength
  <1>3. q = SubSeq(p, 1, Len(q)) /\ r = SubSeq(p, 1, Len(r)) BY LevelIs
  <1> QED BY <1>2, <1>3

\* The directory above on disk is the one the archive spells.
LEMMA NormalAbove ==
    ASSUME NEW p \in Paths, Len(p) # 1
    PROVE Front(Normal(p)) = Normal(Front(p))
  <1>1. /\ Normal(p) \in Paths /\ Len(Normal(p)) = Len(p)
        /\ \A i \in 1..Len(p) : Normal(p)[i] = NFC[p[i]]
    BY NormalIs
  <1>2. Len(p) \in Nat BY OwnLevel
  <1>3. /\ Front(p) \in Paths /\ Len(Front(p)) = Len(p) - 1
        /\ \A i \in 1..(Len(p) - 1) : Front(p)[i] = p[i]
    BY AboveIs, LevelIs
  <1>4. /\ Front(Normal(p)) \in Paths /\ Len(Front(Normal(p))) = Len(p) - 1
        /\ \A i \in 1..(Len(p) - 1) : Front(Normal(p))[i] = Normal(p)[i]
    <2>1. /\ Front(Normal(p)) \in Levels(Normal(p)) /\ Front(Normal(p)) \in Paths
          /\ Len(Front(Normal(p))) = Len(p) - 1
      BY <1>1, AboveIs
    <2> QED BY <1>1, <2>1, LevelIs
  <1>5. /\ Normal(Front(p)) \in Paths /\ Len(Normal(Front(p))) = Len(p) - 1
        /\ \A i \in 1..(Len(p) - 1) : Normal(Front(p))[i] = NFC[Front(p)[i]]
    BY <1>3, NormalIs
  <1>6. \A i \in 1..(Len(p) - 1) : Front(Normal(p))[i] = Normal(Front(p))[i]
    BY <1>1, <1>2, <1>3, <1>4, <1>5
  <1> QED BY <1>2, <1>4, <1>5, <1>6, SeqEqual DEF Paths

\* ------------------------------------------------------------ preflight's maps

Node == [path : Paths, dir : BOOLEAN, explicit : BOOLEAN]

\* The maps after n entries: every level of their paths, as what it occurs and whether
\* an entry of its own names it.
Mapped(n) ==
    /\ nodes \subseteq Node
    /\ \A i \in 1..n : \A p \in Levels(entries[i].path) : \E m \in nodes : m.path = p
    /\ \A m \in nodes :
         /\ \E i \in 1..n : m.path \in Levels(entries[i].path)
         /\ \A i \in 1..n : m.path \in Levels(entries[i].path) =>
                              m.dir = IsDir(entries[i], m.path)
         /\ m.explicit <=> \E i \in 1..n : entries[i].path = m.path

\* An entry has the type of one.
LEMMA EntryIs ==
    ASSUME archive \in Archive, NEW i \in 1..Len(entries)
    PROVE entries[i] \in Entry /\ entries[i].path \in Paths
  <1>1. entries \in Seq(Entry) BY DEF entries, Archive
  <1>2. entries[i] \in Entry BY <1>1
  <1> QED BY <1>2 DEF Entry, Paths

\* What preflight takes for a conflict is an entry the volume cannot hold beside one of
\* those before it, and it misses none.
LEMMA ConflictIs ==
    ASSUME archive \in Archive, NEW n \in Nat, n < Len(entries), Mapped(n)
    PROVE Conflict(entries[n + 1]) <=> \E i \in 1..n : ~Coexist(entries[i], entries[n + 1])
  <1> DEFINE e == entries[n + 1]
  <1>1. n + 1 \in 1..Len(entries) /\ \A i \in 1..n : i \in 1..Len(entries)
    <2>1. Len(entries) \in Nat BY DEF entries, Archive
    <2> QED BY <2>1
  <1>2. e \in Entry /\ e.path \in Paths BY <1>1, EntryIs
  <1>3. e.path \in Levels(e.path) BY <1>2, OwnLevel
  <1>4. ASSUME NEW i \in 1..n
        PROVE entries[i].path \in Paths /\ entries[i].path \in Levels(entries[i].path)
    BY <1>1, EntryIs, OwnLevel
  <1> HIDE DEF e
  <1>5. ASSUME Conflict(e) PROVE \E i \in 1..n : ~Coexist(entries[i], e)
    <2>1. PICK p \in Levels(e.path), m \in nodes :
            /\ Folded(m.path) = Folded(p)
            /\ m.path # p \/ m.dir # IsDir(e, p) \/ (p = e.path /\ m.explicit)
      BY <1>5 DEF Conflict
    <2>2. PICK i \in 1..n : m.path \in Levels(entries[i].path) BY DEF Mapped
    <2>3. CASE m.path # p BY <2>1, <2>2, <2>3 DEF Coexist
    <2>4. CASE m.path = p /\ m.dir # IsDir(e, p)
      <3>1. m.dir = IsDir(entries[i], m.path) BY <2>2 DEF Mapped
      <3> QED BY <2>1, <2>2, <2>4, <3>1 DEF Coexist, IsDir
    <2>5. CASE m.path = p /\ p = e.path /\ m.explicit
      <3>1. PICK j \in 1..n : entries[j].path = m.path BY <2>5 DEF Mapped
      <3> QED BY <2>5, <3>1 DEF Coexist
    <2> QED BY <2>1, <2>3, <2>4, <2>5
  <1>6. ASSUME NEW i \in 1..n, ~Coexist(entries[i], e) PROVE Conflict(e)
    <2> DEFINE a == entries[i]
    <2>1. a.path \in Levels(a.path) BY <1>4
    <2>2. \A p \in Levels(a.path) : \E m \in nodes : m.path = p /\ m.dir = IsDir(a, p)
      BY DEF Mapped
    <2>3. CASE \E p \in Levels(a.path), q \in Levels(e.path) : Folded(p) = Folded(q) /\ p # q
      BY <2>2, <2>3 DEF Conflict
    <2>4. CASE a.path = e.path
      <3>1. PICK m \in nodes : m.path = a.path BY <2>1, <2>2
      <3>2. m.explicit BY <3>1 DEF Mapped
      <3> QED BY <1>3, <2>4, <3>1, <3>2 DEF Conflict
    <2>5. CASE a.path # e.path /\ a.path \in Levels(e.path) /\ a.kind # "dir"
      <3>1. PICK m \in nodes : m.path = a.path /\ m.dir = IsDir(a, a.path) BY <2>1, <2>2
      <3>2. m.dir # IsDir(e, a.path) BY <2>5, <3>1 DEF IsDir
      <3> QED BY <2>5, <3>1, <3>2 DEF Conflict
    <2>6. CASE a.path # e.path /\ e.path \in Levels(a.path) /\ e.kind # "dir"
      <3>1. PICK m \in nodes : m.path = e.path /\ m.dir = IsDir(a, e.path) BY <2>2, <2>6
      <3>2. m.dir # IsDir(e, e.path) BY <2>6, <3>1 DEF IsDir
      <3> QED BY <1>3, <3>1, <3>2 DEF Conflict
    <2> HIDE DEF a
    <2>7. ~Coexist(a, e) BY <1>6 DEF a
    <2> QED BY <1>3, <2>1, <2>3, <2>4, <2>5, <2>6, <2>7 DEF Coexist
  <1> QED BY <1>5, <1>6 DEF e

\* An entry that does not conflict is noted.
LEMMA NotedIs ==
    ASSUME archive \in Archive, NEW n \in Nat, n < Len(entries), Mapped(n),
           ~Conflict(entries[n + 1]), nodes' = Noted(entries[n + 1]), UNCHANGED archive
    PROVE Mapped(n + 1)'
  <1> DEFINE e == entries[n + 1]
  <1>1. n + 1 \in 1..Len(entries)
    <2>1. Len(entries) \in Nat BY DEF entries, Archive
    <2> QED BY <2>1
  <1>2. e.path \in Paths /\ e.path \in Levels(e.path) BY <1>1, EntryIs, OwnLevel
  <1>3. entries' = entries BY DEF entries
  <1>4. 1..(n + 1) = 1..n \cup {n + 1} BY <1>1
  <1> HIDE DEF e
  <1>5. \A p \in Levels(e.path) : p \in Paths BY <1>2, LevelIs
  <1> DEFINE Old == {[m EXCEPT !.explicit = @ \/ m.path = e.path] : m \in nodes}
             New == {[path |-> p, dir |-> IsDir(e, p), explicit |-> p = e.path] :
                       p \in Levels(e.path) \ {m.path : m \in nodes}}
  <1>6. nodes' = Old \cup New BY DEF Noted, e
  <1>7. Old \subseteq Node /\ New \subseteq Node
    <2>1. ASSUME NEW m \in nodes PROVE [m EXCEPT !.explicit = @ \/ m.path = e.path] \in Node
      BY DEF Mapped, Node
    <2>2. ASSUME NEW p \in Levels(e.path)
          PROVE [path |-> p, dir |-> IsDir(e, p), explicit |-> p = e.path] \in Node
      BY <1>5 DEF Node, IsDir
    <2> QED BY <2>1, <2>2
  <1>8. ASSUME NEW m \in nodes
        PROVE \E o \in nodes' : o.path = m.path
    <2> DEFINE o == [m EXCEPT !.explicit = @ \/ m.path = e.path]
    <2>1. m \in Node BY DEF Mapped
    <2>2. o.path = m.path BY <2>1 DEF Node
    <2>3. o \in nodes' BY <1>6
    <2> QED BY <2>2, <2>3
  <1>9. ASSUME NEW i \in 1..(n + 1), NEW p \in Levels(entries[i].path)
        PROVE \E m \in nodes' : m.path = p
    <2>1. CASE \E m \in nodes : m.path = p BY <1>8, <2>1
    <2>2. CASE ~\E m \in nodes : m.path = p
      <3>1. i \notin 1..n BY <2>2 DEF Mapped
      <3>2. i = n + 1 BY <1>4, <3>1
      <3>3. p \in Levels(e.path) BY <3>2 DEF e
      <3> DEFINE o == [path |-> p, dir |-> IsDir(e, p), explicit |-> p = e.path]
      <3>4. o \in New /\ o.path = p BY <2>2, <3>3
      <3>5. o \in nodes' BY <1>6, <3>4
      <3> QED BY <3>4, <3>5
    <2> QED BY <2>1, <2>2
  <1>10. ASSUME NEW o \in nodes'
         PROVE /\ \E i \in 1..(n + 1) : o.path \in Levels(entries[i].path)
               /\ \A i \in 1..(n + 1) : o.path \in Levels(entries[i].path) =>
                                      o.dir = IsDir(entries[i], o.path)
               /\ o.explicit <=> \E i \in 1..(n + 1) : entries[i].path = o.path
    <2>1. CASE o \in Old
      <3>1. PICK m \in nodes : o = [m EXCEPT !.explicit = @ \/ m.path = e.path] BY <2>1
      <3>2. m \in Node BY DEF Mapped
      <3>3. o.path = m.path /\ o.dir = m.dir /\ (o.explicit <=> m.explicit \/ m.path = e.path)
        BY <3>1, <3>2 DEF Node
      <3>4. m.path \in Levels(e.path) => m.dir = IsDir(e, m.path) BY DEF Conflict, e
      <3>5. \E i \in 1..(n + 1) : o.path \in Levels(entries[i].path)
        BY <1>4, <3>3 DEF Mapped
      <3>6. \A i \in 1..(n + 1) : o.path \in Levels(entries[i].path) =>
                                    o.dir = IsDir(entries[i], o.path)
        BY <1>4, <3>3, <3>4 DEF Mapped, e
      <3>7. o.explicit <=> \E i \in 1..(n + 1) : entries[i].path = o.path
        BY <1>4, <3>3 DEF Mapped, e
      <3> QED BY <3>5, <3>6, <3>7
    <2>2. CASE o \in New
      <3>1. PICK p \in Levels(e.path) \ {m.path : m \in nodes} :
              o = [path |-> p, dir |-> IsDir(e, p), explicit |-> p = e.path]
        BY <2>2
      <3>2. o.path = p /\ o.dir = IsDir(e, p) /\ (o.explicit <=> p = e.path) BY <3>1
      <3>3. \A i \in 1..n : p \notin Levels(entries[i].path) BY DEF Mapped
      <3>4. \A i \in 1..n : p # entries[i].path
        <4>1. \A i \in 1..n : entries[i].path \in Levels(entries[i].path)
          <5>1. \A i \in 1..n : i \in 1..Len(entries) BY <1>1
          <5> QED BY <5>1, EntryIs, OwnLevel
        <4> QED BY <3>3, <4>1
      <3>5. \E i \in 1..(n + 1) : o.path \in Levels(entries[i].path) BY <1>4, <3>2 DEF e
      <3>6. \A i \in 1..(n + 1) : o.path \in Levels(entries[i].path) =>
                                    o.dir = IsDir(entries[i], o.path)
        BY <1>4, <3>2, <3>3 DEF e
      <3>7. o.explicit <=> \E i \in 1..(n + 1) : entries[i].path = o.path
        BY <1>4, <3>2, <3>4 DEF e
      <3> QED BY <3>5, <3>6, <3>7
    <2> QED BY <1>6, <2>1, <2>2
  <1> HIDE DEF Old, New
  <1>11. nodes' \subseteq Node BY <1>6, <1>7
  <1>12. \A i \in 1..(n + 1) : \A p \in Levels(entries[i].path) : \E m \in nodes' : m.path = p
    BY <1>9
  <1>13. \A i : entries'[i] = entries[i] BY <1>3
  <1> QED BY <1>10, <1>11, <1>12, <1>3 DEF Mapped

\* Where all entries can be held together, no two nodes have the same folded name.
LEMMA NodesDiffer ==
    ASSUME archive \in Archive, NEW n \in 0..Len(entries), Mapped(n), AllCoexist(n),
           NEW m \in nodes, NEW o \in nodes, Folded(m.path) = Folded(o.path)
    PROVE m.path = o.path
  <1>1. PICK i \in 1..n : m.path \in Levels(entries[i].path) BY DEF Mapped
  <1>2. PICK j \in 1..n : o.path \in Levels(entries[j].path) BY DEF Mapped
  <1>3. Len(entries) \in Nat BY DEF entries, Archive
  <1>4. CASE i = j
    <2>1. entries[i].path \in Paths BY <1>3, EntryIs
    <2> QED BY <1>1, <1>2, <1>4, <2>1, LevelsDiffer
  <1>5. CASE i < j
    <2>1. Coexist(entries[i], entries[j])
      <3>1. i \in 1..(j - 1) BY <1>3, <1>5
      <3> QED BY <3>1 DEF AllCoexist
    <2> QED BY <1>1, <1>2, <2>1 DEF Coexist
  <1>6. CASE j < i
    <2>1. Coexist(entries[j], entries[i])
      <3>1. j \in 1..(i - 1) BY <1>3, <1>6
      <3> QED BY <3>1 DEF AllCoexist
    <2> QED BY <1>1, <1>2, <2>1 DEF Coexist
  <1> QED BY <1>3, <1>4, <1>5, <1>6

\* What lies above a node is a directory.
LEMMA AboveIsDir ==
    ASSUME archive \in Archive, NEW n \in 0..Len(entries), Mapped(n),
           NEW m \in nodes, Len(m.path) # 1
    PROVE Normal(Front(m.path)) \in Dirs
  <1>1. PICK i \in 1..n : m.path \in Levels(entries[i].path) BY DEF Mapped
  <1>2. Len(entries) \in Nat BY DEF entries, Archive
  <1>3. entries[i].path \in Paths BY <1>2, EntryIs
  <1>4. /\ m.path \in Paths /\ Len(m.path) \in 1..Len(entries[i].path)
    BY <1>1, <1>3, LevelIs
  <1>5. /\ Front(m.path) \in Levels(m.path) /\ Len(Front(m.path)) = Len(m.path) - 1
    BY <1>4, AboveIs
  <1>6. Front(m.path) \in Levels(entries[i].path) BY <1>1, <1>3, <1>5, LevelsNest
  <1>7. Front(m.path) # entries[i].path
    <2>1. Len(entries[i].path) \in Nat BY <1>3, OwnLevel
    <2>2. Len(Front(m.path)) < Len(entries[i].path) BY <1>4, <1>5, <2>1
    <2> QED BY <2>1, <2>2
  <1>8. PICK o \in nodes : o.path = Front(m.path) BY <1>6 DEF Mapped
  <1>9. o.dir = IsDir(entries[i], Front(m.path)) BY <1>6, <1>8 DEF Mapped
  <1>10. o.dir BY <1>7, <1>9 DEF IsDir
  <1> QED BY <1>8, <1>10 DEF Dirs

\* ------------------------------------------------------------ the budget

\* Every failed or finished extraction stays within the total, because a copy never
\* accounts more than what is allowed, and that is never more than what is left.
Within ==
    /\ archive \in Archives
    /\ pc \in {"open", "preflight", "dirs", "entries", "copy", "failed", "returned"}
    /\ next \in Nat \ {0}
    /\ pc = "copy" => next <= Len(entries)
    /\ extracted \in 0..MaxTotalBytes
    /\ \A f \in files : f.size <= MaxFileBytes

\* The smaller of two numbers is one of them and at most both.
LEMMA LeastIs ==
    ASSUME NEW a \in Int, NEW b \in Int
    PROVE Least(a, b) \in {a, b} /\ Least(a, b) <= a /\ Least(a, b) <= b
  BY DEF Least

\* What a copy may account is never negative, and within both limits.
LEMMA AllowedIs ==
    ASSUME Within
    PROVE /\ Allowed \in Nat
          /\ Allowed <= MaxFileBytes /\ extracted + Allowed <= MaxTotalBytes
  BY ExtractAssumption, LeastIs DEF Within, Allowed

\* The entry a loop has come to is an entry.
LEMMA ReachedIs ==
    ASSUME Within, next <= Len(entries)
    PROVE Reached \in Entry
  <1>1. archive \in Archive BY ExtractAssumption DEF Within
  <1>2. entries \in Seq(Entry) BY <1>1 DEF entries, Archive
  <1>3. next \in 1..Len(entries) BY <1>2 DEF Within
  <1> QED BY <1>2, <1>3 DEF Reached

\* However a copy ends, it accounts at most what is allowed.
LEMMA CopiesIs ==
    ASSUME Within, next <= Len(entries), NEW c \in Copies(Reached)
    PROVE c.n \in 0..Allowed
  <1> DEFINE e == Reached
  <1>1. /\ e.actual \in Nat /\ e.declared \in Nat
    BY ReachedIs DEF Entry
  <1>2. Allowed \in Nat BY AllowedIs
  <1>3. CASE e.actual > Allowed /\ e.declared >= Allowed
    BY <1>1, <1>2, <1>3 DEF Copies, Short
  <1>4. CASE ~(e.actual > Allowed /\ e.declared >= Allowed) /\ e.actual # e.declared
    <2>1. PICK k \in 0..Least(e.actual, e.declared) : c.n = k
      BY <1>4 DEF Copies, Short
    <2>2. Least(e.actual, e.declared) <= Allowed BY <1>1, <1>2, <1>4, LeastIs
    <2> QED BY <2>1, <2>2, <1>1, <1>2, LeastIs
  <1>5. CASE ~(e.actual > Allowed /\ e.declared >= Allowed) /\ e.actual = e.declared
    BY <1>1, <1>2, <1>5 DEF Copies
  <1> QED BY <1>3, <1>4, <1>5

\* An interrupted copy accounts at most what is allowed as well.
LEMMA InterruptedIs ==
    ASSUME Within, Interrupted
    PROVE extracted' \in 0..MaxTotalBytes
  <1>1. CASE pc = "copy"
    <2>1. PICK n \in 0..Least(Reached.actual, Allowed) : extracted' = extracted + n
      BY <1>1 DEF Interrupted
    <2>2. Reached.actual \in Nat BY <1>1, ReachedIs DEF Entry, Within
    <2>3. Allowed \in Nat /\ extracted + Allowed <= MaxTotalBytes BY AllowedIs
    <2>4. n \in Nat /\ n <= Allowed BY <2>1, <2>2, <2>3, LeastIs
    <2> QED BY <2>1, <2>3, <2>4, ExtractAssumption DEF Within
  <1>2. CASE pc # "copy"
    BY <1>2 DEF Interrupted, Within
  <1> QED BY <1>1, <1>2

\* Nothing is extracted at first.
LEMMA WithinInitially == Init => Within
  BY ExtractAssumption DEF Init, Within

\* No step goes beyond what is left.
LEMMA WithinStays == Within /\ [Next]_vars => Within'
  <1> SUFFICES ASSUME Within, [Next]_vars PROVE Within'
    OBVIOUS
  <1> USE DEF vars, result, checked, entries
  <1>1. CASE OpenReader BY <1>1 DEF OpenReader, Fail, Within
  <1>2. CASE Admit BY <1>2 DEF Admit, Fail, Within
  <1>3. CASE MakeDest BY <1>3 DEF MakeDest, Within
  <1>4. CASE MakeDir BY <1>4 DEF MakeDir, Fail, Within
  <1>5. CASE DirsMade BY <1>5 DEF DirsMade, Within
  <1>6. CASE SkipDir BY <1>6 DEF SkipDir, Within
  <1>7. CASE Open BY <1>7 DEF Open, Fail, Within
  <1>8. CASE Copy
    <2>1. PICK c \in Copies(Reached) :
            /\ extracted' = extracted + Accounted(c.n)
            /\ \/ Fail(c.code) /\ UNCHANGED <<next, files, rejected>>
               \/ /\ pc' = "entries" /\ next' = next + 1
                  /\ \/ UNCHANGED files
                     \/ files' = files \cup {[name |-> Normal(Reached.path), size |-> c.n]}
      BY <1>8 DEF Copy
    <2>2. c.n \in 0..Allowed BY <1>8, CopiesIs DEF Copy, Within
    <2>3. /\ Allowed \in Nat
          /\ Allowed <= MaxFileBytes /\ extracted + Allowed <= MaxTotalBytes
      BY AllowedIs
    <2>4. extracted' \in 0..MaxTotalBytes
      BY <2>1, <2>2, <2>3, ExtractAssumption DEF Accounted, Within
    <2>5. \A f \in files' : f.size <= MaxFileBytes
      <3>1. c.n <= MaxFileBytes BY <2>2, <2>3, ExtractAssumption
      <3> QED BY <2>1, <3>1 DEF Within
    <2>6. /\ archive' = archive /\ next' \in Nat \ {0}
          /\ pc' \in {"entries", "failed", "returned"}
      BY <1>8, <2>1 DEF Copy, Fail, Within
    <2> QED BY <2>4, <2>5, <2>6 DEF Within
  <1>9. CASE Return BY <1>9 DEF Return, Within
  <1>10. CASE Cleanup BY <1>10 DEF Cleanup, Within
  <1>11. CASE IOFails BY <1>11, InterruptedIs DEF IOFails, Fail, Within
  <1>12. CASE Stop BY <1>12, InterruptedIs DEF Stop, Fail, Within
  <1>13. CASE Cancel BY <1>13 DEF Cancel, Within
  <1>14. CASE UNCHANGED vars BY <1>14 DEF Within
  <1> QED BY <1>1, <1>2, <1>3, <1>4, <1>5, <1>6, <1>7, <1>8, <1>9, <1>10, <1>11, <1>12,
             <1>13, <1>14 DEF Next

\* ------------------------------------------------------------ the invariant

\* Preflight has passed; the directories are made; and nothing has failed since.
Passed == pc \in {"dirs", "entries", "copy"} \/ (pc = "returned" /\ code = "none")
Prepared == pc \in {"entries", "copy"} \/ (pc = "returned" /\ code = "none")

\* The first n entries that preflight counts as files.
Countable(n) == {i \in 1..n : entries[i].kind # "dir"}

\* t adds up what the first n entries declare.
Sums(t, n) == /\ t \in [Nat -> Nat] /\ t[0] = 0
              /\ \A i \in 1..n : t[i] = t[i - 1] + entries[i].declared

\* What preflight knows of the first n entries, having refused none.
Admitted(n) ==
    /\ Mapped(n) /\ AllCoexist(n)
    /\ preFiles = Cardinality(Countable(n))
    /\ \A i \in 1..n : entries[i].kind = "dir" => entries[i].declared = 0
    /\ \E t : Sums(t, n) /\ declared = t[n]

\* Types, and what the counters are bounded by.
Shape ==
    /\ next \in 1..(Len(entries) + 1)
    /\ declared \in 0..MaxDeclaredBytes /\ preFiles \in 0..MaxEntries
    /\ pc = "preflight" => Len(entries) <= MaxEntries
    /\ pc \in {"open", "preflight"} => preFiles < next
    /\ dest \in BOOLEAN /\ ctx \in BOOLEAN /\ broke \subseteq {"io", "cleanup"}
    /\ code \in Codes
    /\ \A n \in tree : n.name \in Dirs \/ ~n.dir
    /\ rejected \in Seq(Entry) /\ IsFiniteSet(files)
    /\ Len(rejected) + Cardinality(files) < next

\* Nothing is extracted before the directories are made, and what a failure leaves.
Ending ==
    /\ code # "none" => pc \in {"failed", "returned"}
    /\ pc = "failed" => code # "none"
    /\ pc \in {"dirs", "entries", "copy"} => dest
    /\ pc = "copy" => Reached.kind # "dir"
    /\ pc = "open" => nodes = {} /\ declared = 0 /\ preFiles = 0
    /\ pc \in {"open", "dirs"} => next = 1
    /\ pc \in {"open", "preflight"} => ~dest
    /\ pc \in {"open", "preflight", "dirs"} => files = {} /\ rejected = <<>> /\ extracted = 0
    /\ ~dest => tree = {}
    /\ pc = "returned" /\ code # "none" /\ "cleanup" \notin broke => ~dest
    /\ pc = "returned" /\ code = "none" => next = Len(entries) + 1
    /\ code = "archive_io_error" => "io" \in broke
    /\ code = "archive_duplicate_path" => ~AllCoexist(next)

\* What preflight knows of the entries it has come past stays true of all of them.
Checks == \A n \in Nat :
            (pc = "preflight" /\ next = n + 1) \/ (Passed /\ Len(entries) = n) => Admitted(n)

\* What is on disk: the directories, then one file for each regular entry so far.
FileNode(e) == [name |-> Normal(e.path), dir |-> FALSE]
DirNode(p) == [name |-> p, dir |-> TRUE]
Stores ==
    /\ pc = "dirs" => tree \subseteq {DirNode(p) : p \in Dirs}
    /\ \A n \in Nat : Prepared /\ (IF pc = "copy" THEN n = next ELSE n + 1 = next) =>
         tree = {DirNode(p) : p \in Dirs} \cup {FileNode(entries[i]) : i \in Kind(n, "file")}

\* What the result holds after n entries.
FileOf(e) == [name |-> Normal(e.path), size |-> e.actual]
Done(n) ==
    /\ files = {FileOf(entries[i]) : i \in Kind(n, "file")}
    /\ Len(rejected) = Cardinality(Kind(n, "link"))
    /\ \A i \in Kind(n, "link") : rejected[Cardinality(Kind(i, "link"))] = entries[i]
    /\ Cardinality(files) + Len(rejected) = Cardinality(Countable(n))
    /\ \E t : Sums(t, Len(entries)) /\ declared = t[Len(entries)] /\ extracted = t[n]
Results == \A n \in Nat : Prepared /\ next = n + 1 => Done(n)

IInv == Within /\ Shape /\ Ending /\ Checks /\ Stores /\ Results

\* The archive is one of those the model allows.
LEMMA ArchiveIs ==
    ASSUME Within
    PROVE archive \in Archive /\ entries \in Seq(Entry) /\ Len(entries) \in Nat
  <1>1. archive \in Archive BY ExtractAssumption DEF Within
  <1> QED BY <1>1 DEF entries, Archive

\* The first n entries of a kind, and one more.
LEMMA KindGrows ==
    ASSUME NEW n \in Nat, NEW k
    PROVE /\ IsFiniteSet(Kind(n, k))
          /\ entries[n + 1].kind = k =>
               /\ Kind(n + 1, k) = Kind(n, k) \cup {n + 1}
               /\ Cardinality(Kind(n + 1, k)) = Cardinality(Kind(n, k)) + 1
          /\ entries[n + 1].kind # k => Kind(n + 1, k) = Kind(n, k)
  <1>1. IsFiniteSet(1..n) BY FS_Interval
  <1>2. Kind(n, k) \subseteq 1..n BY DEF Kind
  <1>3. IsFiniteSet(Kind(n, k)) BY <1>1, <1>2, FS_Subset
  <1>4. n + 1 \notin Kind(n, k) BY DEF Kind
  <1>5. 1..(n + 1) = 1..n \cup {n + 1} OBVIOUS
  <1>6. entries[n + 1].kind = k => Kind(n + 1, k) = Kind(n, k) \cup {n + 1} BY <1>5 DEF Kind
  <1>7. Cardinality(Kind(n, k) \cup {n + 1}) = Cardinality(Kind(n, k)) + 1
    BY <1>3, <1>4, FS_AddElement
  <1>8. entries[n + 1].kind # k => Kind(n + 1, k) = Kind(n, k) BY <1>5 DEF Kind
  <1> QED BY <1>3, <1>6, <1>7, <1>8

\* The files that preflight counts, and one more entry.
LEMMA CountableGrows ==
    ASSUME NEW n \in Nat
    PROVE /\ IsFiniteSet(Countable(n)) /\ Cardinality(Countable(n)) \in 0..n
          /\ Cardinality(Countable(n + 1)) =
               Cardinality(Countable(n)) + Counted(entries[n + 1])
  <1>1. IsFiniteSet(1..n) /\ Cardinality(1..n) = n BY FS_Interval
  <1>2. Countable(n) \subseteq 1..n BY DEF Countable
  <1>3. IsFiniteSet(Countable(n)) /\ Cardinality(Countable(n)) <= n
    BY <1>1, <1>2, FS_Subset
  <1>4. Cardinality(Countable(n)) \in Nat BY <1>3, FS_CardinalityType
  <1>5. n + 1 \notin Countable(n) BY DEF Countable
  <1>6. 1..(n + 1) = 1..n \cup {n + 1} OBVIOUS
  <1>7. CASE entries[n + 1].kind = "dir"
    <2>1. Countable(n + 1) = Countable(n) BY <1>6, <1>7 DEF Countable
    <2> QED BY <1>3, <1>4, <1>7, <2>1 DEF Counted
  <1>8. CASE entries[n + 1].kind # "dir"
    <2>1. Countable(n + 1) = Countable(n) \cup {n + 1} BY <1>6, <1>8 DEF Countable
    <2>2. Cardinality(Countable(n + 1)) = Cardinality(Countable(n)) + 1
      BY <1>3, <1>5, <2>1, FS_AddElement
    <2> QED BY <1>3, <1>4, <1>8, <2>2 DEF Counted
  <1> QED BY <1>7, <1>8

\* The sum over the first n entries extends to the next.
LEMMA SumsGrow ==
    ASSUME Within, NEW n \in Nat, n + 1 \in 1..Len(entries), NEW t, Sums(t, n)
    PROVE \E u : Sums(u, n + 1) /\ u[n + 1] = t[n] + entries[n + 1].declared
  <1> DEFINE u == [t EXCEPT ![n + 1] = t[n] + entries[n + 1].declared]
  <1>1. entries[n + 1].declared \in Nat BY ArchiveIs, EntryIs DEF Entry
  <1>2. u \in [Nat -> Nat] /\ u[0] = 0
    <2>1. t \in [Nat -> Nat] /\ t[0] = 0 BY DEF Sums
    <2>2. t[n] \in Nat BY <2>1
    <2>4. \A a, b \in Nat : a + b \in Nat OBVIOUS
    <2>5. t[n] + entries[n + 1].declared \in Nat BY <1>1, <2>2, <2>4
    <2>3. n + 1 \in Nat /\ n + 1 # 0 OBVIOUS
    <2> QED BY <2>1, <2>3, <2>5
  <1>3. u[n + 1] = t[n] + entries[n + 1].declared /\ \A i \in 0..n : u[i] = t[i]
    BY DEF Sums
  <1>4. ASSUME NEW i \in 1..(n + 1) PROVE u[i] = u[i - 1] + entries[i].declared
    <2>1. CASE i \in 1..n
      <3>1. i \in 0..n /\ i - 1 \in 0..n BY <2>1
      <3>2. t[i] = t[i - 1] + entries[i].declared BY <2>1 DEF Sums
      <3> QED BY <1>3, <3>1, <3>2
    <2>2. CASE i = n + 1
      <3>1. n \in 0..n /\ i - 1 = n BY <2>2
      <3> QED BY <1>3, <2>2, <3>1
    <2> QED BY <2>1, <2>2
  <1> HIDE DEF u
  <1>5. Sums(u, n + 1) BY <1>2, <1>4 DEF Sums
  <1> QED BY <1>3, <1>5

\* What a refusal may say.
LEMMA RefusalIs ==
    ASSUME NEW e
    PROVE Refusal(e) \in Codes \ {"archive_io_error"}
  BY DEF Refusal, Codes

\* What the end of a copy may say; without an error the stream is what was declared.
LEMMA CopyEnds ==
    ASSUME NEW e, NEW c \in Copies(e)
    PROVE /\ c.code \in Codes \ {"archive_io_error", "archive_duplicate_path"}
          /\ c.code = "none" => c.n = e.actual /\ e.actual = e.declared
  BY DEF Copies, Short, Codes

\* What preflight knows does not depend on what is extracted.
LEMMA AdmittedFrame ==
    ASSUME UNCHANGED <<archive, checked>>, NEW n
    PROVE Admitted(n)' <=> Admitted(n)
  BY DEF Admitted, Mapped, AllCoexist, Countable, Sums, entries, checked

\* An entry that is not refused is admitted.
LEMMA AdmittedGrows ==
    ASSUME Within, NEW n \in Nat, n + 1 = next, next <= Len(entries), Admitted(n),
           Refusal(Reached) = "none", UNCHANGED archive, nodes' = Noted(Reached),
           declared' = declared + Reached.declared, preFiles' = preFiles + Counted(Reached)
    PROVE Admitted(n + 1)'
  <1>1. archive \in Archive /\ n < Len(entries) /\ n + 1 \in 1..Len(entries)
    BY ArchiveIs
  <1>2. Reached = entries[n + 1] BY DEF Reached
  <1>3. ~Conflict(Reached) /\ (Reached.kind = "dir" => Reached.declared = 0)
    BY DEF Refusal
  <1>4. Mapped(n + 1)' BY <1>1, <1>2, <1>3, NotedIs DEF Admitted
  <1>5. entries' = entries BY DEF entries
  <1>6. AllCoexist(n + 1)
    <2>1. \A i \in 1..n : Coexist(entries[i], entries[n + 1])
      BY <1>1, <1>2, <1>3, ConflictIs DEF Admitted
    <2>2. ASSUME NEW j \in 1..(n + 1), NEW i \in 1..(j - 1)
          PROVE Coexist(entries[i], entries[j])
      <3>1. CASE j \in 1..n BY <3>1 DEF Admitted, AllCoexist
      <3>2. CASE j = n + 1 BY <2>1, <3>2
      <3> QED BY <3>1, <3>2
    <2> QED BY <2>2 DEF AllCoexist
  <1>7. AllCoexist(n + 1)' BY <1>5, <1>6 DEF AllCoexist
  <1>8. preFiles' = Cardinality(Countable(n + 1))
    BY <1>2, CountableGrows DEF Admitted
  <1>9. Countable(n + 1)' = Countable(n + 1) BY <1>5 DEF Countable
  <1>10. ASSUME NEW i \in 1..(n + 1), entries[i].kind = "dir" PROVE entries[i].declared = 0
    <2>1. CASE i \in 1..n BY <1>10, <2>1 DEF Admitted
    <2>2. CASE i = n + 1 BY <1>2, <1>3, <1>10, <2>2
    <2> QED BY <2>1, <2>2
  <1>11. \E u : Sums(u, n + 1)' /\ declared' = u[n + 1]
    <2>1. PICK t : Sums(t, n) /\ declared = t[n] BY DEF Admitted
    <2>2. PICK u : Sums(u, n + 1) /\ u[n + 1] = t[n] + entries[n + 1].declared
      BY <1>1, <2>1, SumsGrow
    <2>3. Sums(u, n + 1)' BY <1>5, <2>2 DEF Sums
    <2> QED BY <1>2, <2>1, <2>2, <2>3
  <1> QED BY <1>4, <1>5, <1>7, <1>8, <1>9, <1>10, <1>11 DEF Admitted

\* ------------------------------------------------------------ the file system

\* A directory whose turn it is finds its name free and the one above it made.
LEMMA DirIsFree ==
    ASSUME IInv, pc = "dirs", NEW p \in Pending
    PROVE Free(p)
  <1>1. Len(entries) \in Nat /\ archive \in Archive BY ArchiveIs DEF IInv
  <1> DEFINE n == Len(entries)
  <1>2. Mapped(n) /\ AllCoexist(n) BY <1>1 DEF IInv, Checks, Passed, Admitted
  <1>3. n \in 0..Len(entries) BY <1>1
  <1> HIDE DEF n
  <1>4. tree \subseteq {DirNode(q) : q \in Dirs} BY DEF IInv, Stores
  <1>5. PICK m \in nodes : p = Normal(m.path) /\ m.dir BY DEF Pending, Dirs
  <1>6. m.path \in Paths BY <1>2 DEF Mapped, Node
  <1>7. p \notin {o.name : o \in tree} BY DEF Pending
  <1>8. At(p) = {}
    <2> SUFFICES ASSUME NEW o \in tree, Folded(o.name) = Folded(p) PROVE FALSE BY DEF At
    <2>1. PICK l \in nodes : o.name = Normal(l.path) BY <1>4 DEF DirNode, Dirs
    <2>2. l.path \in Paths BY <1>2 DEF Mapped, Node
    <2>3. Folded(l.path) = Folded(m.path) BY <1>5, <1>6, <2>1, <2>2, NormalIs
    <2>4. l.path = m.path BY <1>1, <1>2, <1>3, <2>3, NodesDiffer
    <2> QED BY <1>5, <1>7, <2>1, <2>4
  <1>9. CASE Len(p) # 1
    <2>1. Len(p) = Len(m.path) BY <1>5, <1>6, NormalIs
    <2>2. Normal(Front(m.path)) \in Dirs BY <1>1, <1>2, <1>3, <1>9, <2>1, AboveIsDir
    <2>3. Front(p) = Normal(Front(m.path)) BY <1>5, <1>6, <1>9, <2>1, NormalAbove
    <2>4. Front(p) \in Levels(p) /\ Front(p) # p
      <3>1. p \in Paths BY <1>5, <1>6, NormalIs
      <3> QED BY <1>9, <3>1, AboveIs
    <2>5. Front(p) \in {o.name : o \in tree} BY <2>2, <2>3, <2>4 DEF Pending
    <2>6. PICK o \in tree : o.name = Front(p) BY <2>5
    <2>7. o.dir BY <1>4 DEF DirNode
    <2> QED BY <1>8, <2>6, <2>7 DEF Free, At
  <1> QED BY <1>8, <1>9 DEF Free

\* When no directory is pending, all are made.
LEMMA AllMade ==
    ASSUME IInv, pc = "dirs", Pending = {}
    PROVE Dirs \subseteq {o.name : o \in tree}
  <1> DEFINE Missing == {p \in Dirs : p \notin {o.name : o \in tree}}
  <1>1. Dirs \subseteq Paths
    <2>1. Mapped(Len(entries)) BY ArchiveIs DEF IInv, Checks, Passed, Admitted
    <2>2. \A m \in nodes : m.path \in Paths BY <2>1 DEF Mapped, Node
    <2> QED BY <2>2, NormalIs DEF Dirs
  <1> SUFFICES ASSUME Missing # {} PROVE FALSE OBVIOUS
  <1> DEFINE T == {Len(p) : p \in Missing}
  <1>2. T \in SUBSET Nat /\ T # {} BY <1>1, OwnLevel
  <1> HIDE DEF T
  <1>3. PICK k \in T : \A l \in T : k <= l BY <1>2, LeastOf
  <1>4. PICK p \in Missing : k = Len(p) BY DEF T
  <1>5. p \in Paths BY <1>1
  <1> DEFINE Made == {o.name : o \in tree}
             Above == Levels(p) \cap Dirs
  <1>6. \E q \in Above : q # p /\ q \notin Made
    <2>1. p \in Dirs /\ p \notin Made OBVIOUS
    <2>2. ~(Above \ {p} \subseteq Made) BY <2>1 DEF Pending
    <2> HIDE DEF Made, Above
    <2> QED BY <2>2
  <1>13. PICK q \in Above : q # p /\ q \notin Made BY <1>6
  <1>7. q \in Missing BY <1>13
  <1>8. Len(q) \in 1..Len(p) /\ q = SubSeq(p, 1, Len(q)) BY <1>5, LevelIs
  <1>9. p = SubSeq(p, 1, Len(p)) BY <1>5, SubSeqFull DEF Paths
  <1>10. Len(q) # Len(p) BY <1>13, <1>8, <1>9
  <1>11. Len(q) \in T BY <1>7 DEF T
  <1>12. Len(p) \in Nat BY <1>5, OwnLevel
  <1> QED BY <1>3, <1>4, <1>8, <1>10, <1>11, <1>12

\* A regular entry finds its name free and the directory above it made.
LEMMA FileIsFree ==
    ASSUME IInv, pc = "entries", next <= Len(entries), Reached.kind = "file"
    PROVE Free(Normal(Reached.path))
  <1>1. Len(entries) \in Nat /\ archive \in Archive BY ArchiveIs DEF IInv
  <1> DEFINE n == Len(entries)
             e == Reached
  <1>2. Mapped(n) /\ AllCoexist(n) BY <1>1 DEF IInv, Checks, Passed, Admitted
  <1>3. n \in 0..Len(entries) /\ next \in 1..n BY <1>1 DEF IInv, Within
  <1>4. e = entries[next] /\ e.path \in Paths /\ e.path \in Levels(e.path)
    BY <1>1, <1>3, EntryIs, OwnLevel DEF Reached
  <1>5. PICK m \in nodes : m.path = e.path BY <1>2, <1>3, <1>4 DEF Mapped
  <1>6. ~m.dir BY <1>2, <1>3, <1>4, <1>5 DEF Mapped, IsDir
  <1>7. tree = {DirNode(q) : q \in Dirs} \cup {FileNode(entries[i]) : i \in Kind(next - 1, "file")}
    <2>1. next - 1 \in Nat /\ (next - 1) + 1 = next BY <1>1, <1>3
    <2> QED BY <2>1 DEF IInv, Stores, Prepared
  <1> DEFINE p == Normal(e.path)
  <1>8. p \in Paths /\ Len(p) = Len(e.path) /\ Folded(p) = Folded(e.path) BY <1>4, NormalIs
  <1>9. At(p) = {}
    <2> SUFFICES ASSUME NEW o \in tree, Folded(o.name) = Folded(p) PROVE FALSE BY DEF At
    <2>1. CASE o \in {DirNode(q) : q \in Dirs}
      <3>1. PICK l \in nodes : o.name = Normal(l.path) /\ l.dir BY <2>1 DEF DirNode, Dirs
      <3>2. l.path \in Paths BY <1>2 DEF Mapped, Node
      <3>3. Folded(l.path) = Folded(m.path) BY <1>5, <1>8, <3>1, <3>2, NormalIs
      <3>4. l.path = m.path BY <1>1, <1>2, <1>3, <3>3, NodesDiffer
      <3>5. l.dir = IsDir(e, e.path) BY <1>2, <1>3, <1>4, <1>5, <3>4 DEF Mapped
      <3> QED BY <3>1, <3>5 DEF IsDir
    <2>2. CASE o \in {FileNode(entries[i]) : i \in Kind(next - 1, "file")}
      <3>1. PICK i \in 1..(next - 1) : o.name = Normal(entries[i].path)
        BY <2>2 DEF FileNode, Kind
      <3>2. i \in 1..n BY <1>1, <1>3
      <3>3. entries[i].path \in Paths BY <1>1, <3>2, EntryIs
      <3>4. Folded(entries[i].path) = Folded(e.path) BY <1>8, <3>1, <3>3, NormalIs
      <3>5. Coexist(entries[i], e) BY <1>2, <1>3, <1>4 DEF AllCoexist
      <3> QED BY <3>4, <3>5 DEF Coexist
    <2> QED BY <1>7, <2>1, <2>2
  <1>10. CASE Len(p) # 1
    <2>1. Normal(Front(m.path)) \in Dirs BY <1>1, <1>2, <1>3, <1>5, <1>8, <1>10, AboveIsDir
    <2>2. Front(p) = Normal(Front(m.path)) BY <1>4, <1>5, <1>8, <1>10, NormalAbove
    <2>3. DirNode(Front(p)) \in tree BY <1>7, <2>1, <2>2
    <2> QED BY <1>9, <2>3 DEF Free, At, DirNode
  <1> QED BY <1>9, <1>10 DEF Free

\* ------------------------------------------------------------ every step

\* What a copy does: it fails, or the entry is consumed, rejected or extracted.
LEMMA CopyIs ==
    ASSUME IInv, Copy
    PROVE \E c \in Copies(Reached) :
            /\ extracted' = extracted + c.n
            /\ \/ Fail(c.code) /\ c.code # "none" /\ UNCHANGED <<next, files, rejected>>
               \/ /\ c.code = "none" /\ pc' = "entries" /\ next' = next + 1 /\ UNCHANGED code
                  /\ \/ /\ Reached.kind = "link" /\ UNCHANGED files
                        /\ rejected' = Append(rejected, Reached)
                     \/ /\ Reached.kind # "link" /\ UNCHANGED rejected
                        /\ files' = files \cup {FileOf([Reached EXCEPT !.actual = c.n])}
  <1>1. Reached \in Entry BY ReachedIs DEF IInv, Within, Copy
  <1>2. \A k : FileOf([Reached EXCEPT !.actual = k]) =
                 [name |-> Normal(Reached.path), size |-> k]
    BY <1>1 DEF FileOf, Entry
  <1> QED BY <1>2 DEF Copy, Accounted

\* Types and bounds stay.
LEMMA ShapeStays == IInv /\ [Next]_vars => Shape'
  <1> SUFFICES ASSUME IInv, [Next]_vars PROVE Shape' OBVIOUS
  <1> USE DEF vars, result, checked
  <1>0. Within /\ Shape /\ Len(entries) \in Nat BY ArchiveIs DEF IInv
  <1>1. CASE OpenReader
    <2>1. /\ UNCHANGED <<archive, next, checked, dest, tree, result, ctx, broke>>
          /\ code' \in Codes /\ (pc' = "preflight" => Len(entries) <= MaxEntries)
      BY <1>0, <1>1, ExtractAssumption DEF OpenReader, Fail, Codes, Shape, Within, entries, Archive
    <2>2. preFiles < next BY <1>1, <1>0 DEF OpenReader, Shape
    <2> QED BY <1>0, <2>1, <2>2 DEF Shape, entries, Dirs
  <1>2. CASE Admit
    <2>1. CASE Refusal(Reached) # "none"
      <3>1. /\ UNCHANGED <<archive, next, checked, dest, tree, result, ctx, broke>>
            /\ code' \in Codes /\ pc' \notin {"open", "preflight"}
        BY <1>2, <2>1, RefusalIs DEF Admit, Fail
      <3> QED BY <1>0, <3>1 DEF Shape, entries, Dirs
    <2>2. CASE Refusal(Reached) = "none"
      <3>1. /\ UNCHANGED <<archive, pc, code, dest, tree, result, ctx, broke>>
            /\ declared' = declared + Reached.declared
            /\ preFiles' = preFiles + Counted(Reached)
            /\ next' = next + 1 /\ next <= Len(entries) /\ pc = "preflight"
        BY <1>2, <2>2 DEF Admit
      <3>2. Reached.declared \in Nat BY <1>0, <3>1, ReachedIs DEF Entry
      <3>3. ~(Reached.declared > MaxDeclaredBytes - declared) BY <2>2 DEF Refusal, TooLarge
      <3>4. Counted(Reached) \in {0, 1} BY DEF Counted
      <3>5. tree = {} BY <3>1 DEF IInv, Ending
      <3>6. declared' \in 0..MaxDeclaredBytes
        BY <1>0, <3>1, <3>2, <3>3, ExtractAssumption, SMTT(20) DEF Shape
      <3>7. preFiles' \in 0..MaxEntries /\ preFiles' < next'
        BY <1>0, <3>1, <3>4, ExtractAssumption DEF Shape
      <3>8. next' \in 1..(Len(entries) + 1) BY <1>0, <3>1 DEF Shape
      <3>9. Len(rejected) \in Nat /\ Cardinality(files) \in Nat
        BY <1>0, FS_CardinalityType DEF Shape
      <3>10. Len(rejected') + Cardinality(files') < next'
        BY <1>0, <3>1, <3>9 DEF Shape
      <3> QED BY <1>0, <3>1, <3>5, <3>6, <3>7, <3>8, <3>10 DEF Shape, entries
    <2> QED BY <2>1, <2>2
  <1>3. CASE MakeDest
    <2>1. /\ UNCHANGED <<archive, checked, tree, result, code, ctx, broke>>
          /\ dest' = TRUE /\ pc' = "dirs" /\ next' = 1
      BY <1>3 DEF MakeDest
    <2>2. files = {} /\ rejected = <<>> BY <1>3 DEF MakeDest, IInv, Ending
    <2>3. Len(rejected') + Cardinality(files') < next'
      <3>1. Len(<<>>) = 0 /\ Cardinality({}) = 0 BY FS_EmptySet, EmptySeq
      <3> QED BY <2>1, <2>2, <3>1
    <2> QED BY <1>0, <2>1, <2>3 DEF Shape, entries, Dirs
  <1>4. CASE MakeDir
    <2>1. PICK p \in Pending :
            IF Free(p) THEN tree' = tree \cup {[name |-> p, dir |-> TRUE]} /\ UNCHANGED <<pc, code>>
            ELSE Fail("archive_io_error") /\ UNCHANGED tree
      BY <1>4 DEF MakeDir
    <2>2. UNCHANGED <<archive, next, checked, dest, result, ctx, broke>> /\ pc = "dirs"
      BY <1>4 DEF MakeDir
    <2>3. p \in Dirs BY DEF Pending
    <2>4. code' \in Codes /\ pc' \notin {"open", "preflight"}
      BY <1>0, <2>1, <2>2 DEF Fail, Codes, Shape
    <2>5. tree' \subseteq tree \cup {[name |-> p, dir |-> TRUE]} BY <2>1
    <2>6. Dirs' = Dirs BY <2>2 DEF Dirs
    <2>7. \A n \in tree' : n.name \in Dirs' \/ ~n.dir BY <1>0, <2>3, <2>5, <2>6 DEF Shape
    <2> QED BY <1>0, <2>2, <2>4, <2>7 DEF Shape, entries
  <1>5. CASE DirsMade BY <1>0, <1>5 DEF DirsMade, Shape, entries, Dirs
  <1>6. CASE SkipDir
    <2>1. Len(rejected) \in Nat /\ Cardinality(files) \in Nat
      BY <1>0, FS_CardinalityType DEF Shape
    <2> QED BY <1>0, <1>6, <2>1 DEF SkipDir, Shape, entries, Dirs
  <1>7. CASE Open
    <2>1. /\ UNCHANGED <<archive, next, checked, dest, result, ctx, broke>>
          /\ code' \in Codes /\ pc' \notin {"open", "preflight"}
          /\ tree' \subseteq tree \cup {[name |-> Normal(Reached.path), dir |-> FALSE]}
      BY <1>0, <1>7 DEF Open, Fail, Codes, Shape
    <2>2. Dirs' = Dirs BY <2>1 DEF Dirs
    <2>3. \A n \in tree' : n.name \in Dirs' \/ ~n.dir BY <1>0, <2>1, <2>2 DEF Shape
    <2> QED BY <1>0, <2>1, <2>3 DEF Shape, entries
  <1>8. CASE Copy
    <2>1. /\ UNCHANGED <<archive, checked, dest, tree, ctx, broke>>
          /\ next <= Len(entries)
      BY <1>0, <1>8 DEF Copy, Within
    <2>2. PICK c \in Copies(Reached) :
            \/ Fail(c.code) /\ UNCHANGED <<next, files, rejected>>
            \/ /\ pc' = "entries" /\ next' = next + 1 /\ UNCHANGED code
               /\ \/ UNCHANGED files /\ rejected' = Append(rejected, Reached)
                  \/ UNCHANGED rejected /\ \E f : files' = files \cup {f}
      BY <1>8, CopyIs
    <2>3. code' \in Codes /\ pc' \notin {"open", "preflight"}
      BY <1>0, <2>2, CopyEnds DEF Fail, Shape
    <2>4. next' \in 1..(Len(entries) + 1) BY <1>0, <2>1, <2>2 DEF Shape
    <2>5. /\ rejected' \in Seq(Entry) /\ IsFiniteSet(files')
          /\ Len(rejected') + Cardinality(files') < next'
      <3>1. Reached \in Entry BY <1>0, <2>1, ReachedIs
      <3>2. /\ rejected \in Seq(Entry) /\ IsFiniteSet(files) /\ Cardinality(files) \in Nat
            /\ Len(rejected) \in Nat /\ Len(rejected) + Cardinality(files) < next
        BY <1>0, FS_CardinalityType DEF Shape
      <3>3. CASE UNCHANGED <<next, files, rejected>> BY <3>2, <3>3
      <3>4. CASE next' = next + 1 /\ UNCHANGED files /\ rejected' = Append(rejected, Reached)
        <4>1. rejected' \in Seq(Entry) /\ Len(rejected') = Len(rejected) + 1
          BY <3>1, <3>2, <3>4
        <4> QED BY <1>0, <3>2, <3>4, <4>1 DEF Within
      <3>5. CASE next' = next + 1 /\ UNCHANGED rejected /\ \E f : files' = files \cup {f}
        <4>1. PICK f : files' = files \cup {f} BY <3>5
        <4>2. /\ IsFiniteSet(files \cup {f})
              /\ Cardinality(files \cup {f}) \in {Cardinality(files), Cardinality(files) + 1}
          BY <3>2, FS_AddElement
        <4>3. /\ IsFiniteSet(files') /\ Cardinality(files') <= Cardinality(files) + 1
              /\ Cardinality(files') \in Nat
          BY <3>2, <4>1, <4>2
        <4> QED BY <1>0, <3>2, <3>5, <4>3 DEF Within
      <3> QED BY <2>2, <3>3, <3>4, <3>5
    <2> QED BY <1>0, <2>1, <2>3, <2>4, <2>5 DEF Shape, entries, Dirs
  <1>9. CASE Return BY <1>0, <1>9 DEF Return, Shape, entries, Dirs
  <1>10. CASE Cleanup BY <1>0, <1>10 DEF Cleanup, Shape, entries, Dirs
  <1>11. CASE IOFails
    <2>1. /\ UNCHANGED <<archive, next, checked, dest, tree, files, rejected, ctx>>
          /\ code' \in Codes /\ pc' \notin {"open", "preflight"}
          /\ broke' \subseteq {"io", "cleanup"}
      BY <1>0, <1>11 DEF IOFails, Fail, Codes, Shape
    <2> QED BY <1>0, <2>1 DEF Shape, entries, Dirs
  <1>12. CASE Stop
    <2>1. /\ UNCHANGED <<archive, next, checked, dest, tree, files, rejected, ctx, broke>>
          /\ code' \in Codes /\ pc' \notin {"open", "preflight"}
      BY <1>12 DEF Stop, Fail, Codes
    <2> QED BY <1>0, <2>1 DEF Shape, entries, Dirs
  <1>13. CASE Cancel BY <1>0, <1>13 DEF Cancel, Shape, entries, Dirs
  <1>14. CASE UNCHANGED vars BY <1>0, <1>14 DEF Shape, entries, Dirs
  <1> QED BY <1>1, <1>2, <1>3, <1>4, <1>5, <1>6, <1>7, <1>8, <1>9, <1>10, <1>11, <1>12,
             <1>13, <1>14 DEF Next

\* What a failure leaves, and why it happened, stays true.
LEMMA EndingStays == IInv /\ [Next]_vars => Ending'
  <1> SUFFICES ASSUME IInv, [Next]_vars PROVE Ending' OBVIOUS
  <1> USE DEF vars, result, checked
  <1>0. Within /\ Shape /\ Ending /\ Len(entries) \in Nat BY ArchiveIs DEF IInv
  <1>1. CASE OpenReader
    <2>1. /\ UNCHANGED <<archive, next, checked, dest, tree, result, ctx, broke>> /\ pc = "open"
          /\ \/ pc' = "preflight" /\ UNCHANGED code
             \/ pc' = "returned" /\ code' \in Codes \ {"none", "archive_io_error",
                                                        "archive_duplicate_path"}
      BY <1>0, <1>1 DEF OpenReader, Fail, Codes, Ending, Archive, Within
    <2> QED BY <1>0, <2>1 DEF Ending, Shape
  <1>2. CASE Admit
    <2>1. CASE Refusal(Reached) # "none"
      <3>1. /\ UNCHANGED <<archive, next, checked, dest, tree, result, ctx, broke>>
            /\ code' = Refusal(Reached) /\ pc' = "returned"
            /\ pc = "preflight" /\ next <= Len(entries)
        BY <1>0, <1>2, <2>1 DEF Admit, Fail, Ending
      <3>2. code' = "archive_duplicate_path" => ~AllCoexist(next)
        <4> SUFFICES ASSUME Refusal(Reached) = "archive_duplicate_path", AllCoexist(next)
                     PROVE FALSE
          BY <3>1
        <4>1. Conflict(Reached) BY DEF Refusal
        <4>2. PICK n \in Nat : n + 1 = next /\ n < Len(entries)
          <5>1. next - 1 \in Nat /\ (next - 1) + 1 = next /\ next - 1 < Len(entries)
            BY <1>0, <3>1 DEF Shape
          <5> QED BY <5>1
        <4>3. Mapped(n) BY <3>1, <4>2 DEF IInv, Checks, Admitted
        <4>4. Reached = entries[n + 1] BY <4>2 DEF Reached
        <4>5. archive \in Archive BY <1>0, ArchiveIs
        <4>6. PICK i \in 1..n : ~Coexist(entries[i], entries[n + 1])
          BY <4>1, <4>2, <4>3, <4>4, <4>5, ConflictIs
        <4>7. next \in 1..next /\ i \in 1..(next - 1) BY <1>0, <4>2 DEF Shape
        <4>8. Coexist(entries[i], entries[next]) BY <4>7 DEF AllCoexist
        <4> QED BY <4>2, <4>6, <4>8
      <3>3. code' = "archive_duplicate_path" => ~AllCoexist(next)'
        BY <3>1, <3>2 DEF AllCoexist, entries
      <3>4. code' # "archive_io_error" BY <3>1, RefusalIs
      <3> QED BY <1>0, <2>1, <3>1, <3>3, <3>4 DEF Ending
    <2>2. CASE Refusal(Reached) = "none"
      <3>1. /\ UNCHANGED <<archive, pc, code, dest, tree, result, ctx, broke>> /\ pc = "preflight"
        BY <1>2, <2>2 DEF Admit
      <3> QED BY <1>0, <3>1 DEF Ending
    <2> QED BY <2>1, <2>2
  <1>3. CASE MakeDest BY <1>0, <1>3 DEF MakeDest, Ending, Shape
  <1>4. CASE MakeDir
    <2>1. \A p \in Pending : Free(p) BY <1>4, DirIsFree DEF MakeDir
    <2>2. /\ UNCHANGED <<archive, pc, code, next, checked, dest, result, ctx, broke>>
          /\ pc = "dirs"
      BY <1>4, <2>1 DEF MakeDir
    <2> QED BY <1>0, <2>2 DEF Ending, Shape
  <1>5. CASE DirsMade BY <1>0, <1>5 DEF DirsMade, Ending, Shape
  <1>6. CASE SkipDir BY <1>0, <1>6 DEF SkipDir, Ending, Shape
  <1>7. CASE Open
    <2>1. Reached.kind # "link" => Free(Normal(Reached.path))
      <3>1. Reached \in Entry BY <1>0, <1>7, ReachedIs DEF Open
      <3> QED BY <1>7, <3>1, FileIsFree DEF Open, Entry
    <2>2. /\ UNCHANGED <<archive, code, next, checked, dest, result, ctx, broke>>
          /\ pc = "entries" /\ pc' = "copy" /\ Reached.kind # "dir"
      BY <1>7, <2>1 DEF Open
    <2>3. Reached' = Reached BY <2>2 DEF Reached, entries
    <2> QED BY <1>0, <2>2, <2>3 DEF Ending, Shape
  <1>8. CASE Copy
    <2>1. UNCHANGED <<archive, checked, dest, tree, ctx, broke>> /\ pc = "copy"
      BY <1>8 DEF Copy
    <2>2. PICK c \in Copies(Reached) :
            \/ Fail(c.code) /\ c.code # "none" /\ UNCHANGED next
            \/ pc' = "entries" /\ UNCHANGED code
      BY <1>8, CopyIs
    <2>3. c.code \notin {"archive_io_error", "archive_duplicate_path"} BY CopyEnds
    <2>4. dest /\ code = "none" BY <1>0, <2>1 DEF Ending
    <2>5. pc' \in {"failed", "entries"} /\ (pc' = "failed" <=> code' # "none")
          /\ code' \notin {"archive_io_error", "archive_duplicate_path"}
      BY <2>2, <2>3, <2>4 DEF Fail
    <2> QED BY <2>1, <2>4, <2>5 DEF Ending
  <1>9. CASE Return BY <1>0, <1>9 DEF Return, Ending, Shape, entries
  <1>10. CASE Cleanup
    <2>1. /\ UNCHANGED <<archive, next, checked, result, code, ctx>>
          /\ pc = "failed" /\ pc' = "returned" /\ code # "none"
          /\ \/ dest' = FALSE /\ tree' = {} /\ UNCHANGED broke
             \/ broke' = broke \cup {"cleanup"} /\ UNCHANGED <<dest, tree>>
      BY <1>0, <1>10 DEF Cleanup, Ending
    <2>2. AllCoexist(next)' <=> AllCoexist(next) BY <2>1 DEF AllCoexist, entries
    <2> QED BY <1>0, <2>1, <2>2 DEF Ending
  <1>11. CASE IOFails
    <2>1. /\ UNCHANGED <<archive, next, checked, dest, tree, files, rejected, ctx>>
          /\ code' \in {"archive_invalid", "archive_io_error"}
          /\ pc' = IF dest THEN "failed" ELSE "returned"
          /\ broke' = broke \cup {"io"}
      BY <1>11 DEF IOFails, Fail
    <2> QED BY <1>0, <2>1 DEF Ending, Shape
  <1>12. CASE Stop
    <2>1. /\ UNCHANGED <<archive, next, checked, dest, tree, files, rejected, ctx, broke>>
          /\ code' = "archive_canceled"
          /\ pc' = IF dest THEN "failed" ELSE "returned"
      BY <1>12 DEF Stop, Fail
    <2> QED BY <1>0, <2>1 DEF Ending, Shape
  <1>13. CASE Cancel
    <2>1. UNCHANGED <<archive, pc, next, checked, dest, tree, result, code, broke>>
      BY <1>13 DEF Cancel
    <2>2. AllCoexist(next)' <=> AllCoexist(next) BY <2>1 DEF AllCoexist, entries
    <2>3. Reached' = Reached BY <2>1 DEF Reached, entries
    <2> QED BY <1>0, <2>1, <2>2, <2>3 DEF Ending, entries
  <1>14. CASE UNCHANGED vars
    <2>2. AllCoexist(next)' <=> AllCoexist(next) BY <1>14 DEF AllCoexist, entries
    <2>3. Reached' = Reached BY <1>14 DEF Reached, entries
    <2> QED BY <1>0, <1>14, <2>2, <2>3 DEF Ending, entries
  <1> QED BY <1>1, <1>2, <1>3, <1>4, <1>5, <1>6, <1>7, <1>8, <1>9, <1>10, <1>11, <1>12,
             <1>13, <1>14 DEF Next

\* What preflight found stays true of the entries.
LEMMA ChecksStay == IInv /\ [Next]_vars => Checks'
  <1> SUFFICES ASSUME IInv, [Next]_vars PROVE Checks' OBVIOUS
  <1> USE DEF vars, result, checked
  <1>0. Within /\ Checks /\ Ending /\ Len(entries) \in Nat BY ArchiveIs DEF IInv
  <1>1. CASE OpenReader
    <2>1. /\ UNCHANGED <<archive, next, checked>>
          /\ \/ pc' = "preflight" /\ next = 1 /\ UNCHANGED code
             \/ pc' = "returned" /\ code' # "none"
          /\ nodes = {} /\ declared = 0 /\ preFiles = 0
      BY <1>0, <1>1 DEF OpenReader, Fail, Ending, Archive, Within
    <2>2. Admitted(0)
      <3>1. 1..0 = {} OBVIOUS
      <3>2. Mapped(0) /\ AllCoexist(0) BY <2>1, <3>1 DEF Mapped, AllCoexist
      <3>3. Countable(0) = {} /\ Cardinality(Countable(0)) = 0
        BY <3>1, FS_EmptySet DEF Countable
      <3>4. Sums([i \in Nat |-> 0], 0) BY <3>1 DEF Sums
      <3>5. \E t : Sums(t, 0) /\ declared = t[0] BY <2>1, <3>4
      <3> QED BY <2>1, <3>1, <3>2, <3>3, <3>5 DEF Admitted
    <2>3. Admitted(0)' BY <2>1, <2>2, AdmittedFrame
    <2>4. \A n \in Nat : n + 1 = 1 => n = 0 OBVIOUS
    <2> QED BY <2>1, <2>3, <2>4 DEF Checks, Passed
  <1>2. CASE Admit
    <2>1. CASE Refusal(Reached) # "none"
      <3>1. code' # "none" /\ pc' \in {"failed", "returned"} BY <1>2, <2>1 DEF Admit, Fail
      <3> QED BY <3>1 DEF Checks, Passed
    <2>2. CASE Refusal(Reached) = "none"
      <3>1. /\ UNCHANGED <<archive, pc, code>> /\ nodes' = Noted(Reached)
            /\ declared' = declared + Reached.declared
            /\ preFiles' = preFiles + Counted(Reached)
            /\ next' = next + 1 /\ next <= Len(entries) /\ pc = "preflight"
        BY <1>2, <2>2 DEF Admit
      <3>2. PICK n \in Nat : n + 1 = next
        <4>1. next - 1 \in Nat /\ (next - 1) + 1 = next BY <1>0 DEF Within
        <4> QED BY <4>1
      <3>3. Admitted(n) BY <1>0, <3>1, <3>2 DEF Checks
      <3>4. Admitted(n + 1)' BY <1>0, <2>2, <3>1, <3>2, <3>3, AdmittedGrows
      <3>5. \A m \in Nat : next + 1 = m + 1 => m = n + 1 BY <3>2
      <3> QED BY <3>1, <3>4, <3>5 DEF Checks, Passed
    <2> QED BY <2>1, <2>2
  <1>3. CASE MakeDest
    <2>1. UNCHANGED <<archive, checked>> /\ pc = "preflight" /\ pc' = "dirs"
          /\ next > Len(entries)
      BY <1>3 DEF MakeDest
    <2>2. PICK n \in Nat : n = Len(entries) BY <1>0
    <2>3. n + 1 = next BY <1>0, <2>1, <2>2 DEF IInv, Shape
    <2>4. Admitted(n)' BY <1>0, <2>1, <2>3, AdmittedFrame DEF Checks
    <2>5. entries' = entries BY <2>1 DEF entries
    <2> QED BY <2>1, <2>2, <2>4, <2>5 DEF Checks, Passed
  <1>4. CASE ~OpenReader /\ ~Admit /\ ~MakeDest
    <2>1. UNCHANGED <<archive, checked>> /\ entries' = entries
      BY <1>4 DEF Next, MakeDir, DirsMade, SkipDir, Open, Copy, Return, Cleanup, IOFails,
                  Stop, Cancel, entries
    <2>2. pc' = "preflight" => pc = "preflight" /\ UNCHANGED next
      BY <1>4 DEF Next, MakeDir, DirsMade, SkipDir, Open, Copy, Return, Cleanup, IOFails,
                  Stop, Cancel, Fail
    <2>3. Passed' => Passed
      <3>1. MakeDir \/ DirsMade \/ SkipDir \/ Open \/ Copy => Passed
        BY DEF MakeDir, DirsMade, SkipDir, Open, Copy, Passed
      <3>2. Cleanup \/ Stop \/ IOFails => ~Passed'
        BY <1>0 DEF Cleanup, Stop, IOFails, Fail, Passed, Ending
      <3>3. Return \/ Cancel \/ UNCHANGED vars => (Passed' => Passed)
        BY DEF Return, Cancel, Passed
      <3> QED BY <1>4, <3>1, <3>2, <3>3 DEF Next
    <2> QED BY <1>0, <2>1, <2>2, <2>3, AdmittedFrame DEF Checks
  <1> QED BY <1>1, <1>2, <1>3, <1>4

\* What does not depend on the entries consumed stays as it is.
LEMMA DirsFrame ==
    ASSUME UNCHANGED <<archive, checked>>
    PROVE Dirs' = Dirs /\ entries' = entries /\ \A n, k : Kind(n, k)' = Kind(n, k)
  BY DEF Dirs, entries, Kind, checked

\* A step that fails has no result.
LEMMA FailureEnds ==
    ASSUME IInv, OpenReader \/ (Admit /\ Refusal(Reached) # "none") \/ Cleanup \/ IOFails \/ Stop
    PROVE ~Prepared' /\ pc' # "dirs"
  <1>1. (pc = "failed" => code # "none") BY DEF IInv, Ending
  <1>2. archive.flaw \in {"none", "zip64", "torn"} BY ArchiveIs DEF IInv, Archive
  <1> QED BY <1>1, <1>2 DEF OpenReader, Admit, Cleanup, IOFails, Stop, Fail, Prepared

\* What is on disk, step by step.
LEMMA StoresStay == IInv /\ [Next]_vars => Stores'
  <1> SUFFICES ASSUME IInv, [Next]_vars PROVE Stores' OBVIOUS
  <1> USE DEF vars, result, checked
  <1>0. Within /\ Stores /\ Ending /\ Shape /\ Len(entries) \in Nat BY ArchiveIs DEF IInv
  <1>1. CASE OpenReader \/ (Admit /\ Refusal(Reached) # "none") \/ Cleanup \/ IOFails \/ Stop
    BY <1>1, FailureEnds DEF Stores
  <1>2. CASE Admit /\ Refusal(Reached) = "none"
    <2>1. pc' = "preflight" BY <1>2 DEF Admit
    <2> QED BY <2>1 DEF Stores, Prepared
  <1>3. CASE MakeDest
    <2>1. tree' = {} /\ pc' = "dirs" BY <1>0, <1>3 DEF MakeDest, Ending
    <2> QED BY <2>1 DEF Stores, Prepared
  <1>4. CASE MakeDir
    <2>1. PICK p \in Pending : tree' = tree \cup {DirNode(p)}
      BY <1>4, DirIsFree DEF MakeDir, DirNode
    <2>2. pc = "dirs" /\ pc' = "dirs" /\ UNCHANGED <<archive, checked>>
      BY <1>4, DirIsFree DEF MakeDir
    <2>3. p \in Dirs BY DEF Pending
    <2>4. Dirs' = Dirs BY <2>2, DirsFrame
    <2>5. tree \subseteq {DirNode(q) : q \in Dirs} BY <1>0, <2>2 DEF Stores
    <2> QED BY <2>1, <2>2, <2>3, <2>4, <2>5 DEF Stores, Prepared
  <1>5. CASE DirsMade
    <2>1. /\ UNCHANGED <<archive, checked, tree, next, code>> /\ pc = "dirs" /\ pc' = "entries"
          /\ Pending = {}
      BY <1>5 DEF DirsMade
    <2>2. Dirs \subseteq {o.name : o \in tree} BY <2>1, AllMade
    <2>3. tree \subseteq {DirNode(q) : q \in Dirs} BY <1>0, <2>1 DEF Stores
    <2>4. tree = {DirNode(q) : q \in Dirs}
      <3>1. ASSUME NEW q \in Dirs PROVE DirNode(q) \in tree
        <4>1. PICK o \in tree : o.name = q BY <2>2
        <4>2. PICK l \in Dirs : o = DirNode(l) BY <2>3
        <4> QED BY <4>1, <4>2 DEF DirNode
      <3> QED BY <2>3, <3>1
    <2>5. next = 1 BY <1>0, <2>1 DEF Ending
    <2>6. \A n \in Nat : n + 1 = 1 => Kind(n, "file") = {}
      <3>1. 1..0 = {} OBVIOUS
      <3>2. Kind(0, "file") = {} BY <3>1 DEF Kind
      <3>3. \A n \in Nat : n + 1 = 1 => n = 0 OBVIOUS
      <3> QED BY <3>2, <3>3
    <2> QED BY <2>1, <2>4, <2>5, <2>6, DirsFrame DEF Stores, Prepared
  <1>6. CASE SkipDir
    <2>1. /\ UNCHANGED <<archive, checked, tree, pc>> /\ pc = "entries"
          /\ next' = next + 1 /\ Reached.kind = "dir"
      BY <1>6 DEF SkipDir
    <2>2. PICK n \in Nat : n + 1 = next
      <3>1. next - 1 \in Nat /\ (next - 1) + 1 = next BY <1>0 DEF Within
      <3> QED BY <3>1
    <2>3. Reached = entries[n + 1] BY <2>2 DEF Reached
    <2>4. Kind(n + 1, "file") = Kind(n, "file") BY <2>1, <2>3, KindGrows
    <2>5. tree = {DirNode(q) : q \in Dirs} \cup {FileNode(entries[i]) : i \in Kind(n, "file")}
      BY <1>0, <2>1, <2>2 DEF Stores, Prepared
    <2>6. \A m \in Nat : m + 1 = next + 1 => m = n + 1 BY <2>2
    <2> QED BY <2>1, <2>4, <2>5, <2>6, DirsFrame DEF Stores, Prepared
  <1>7. CASE Open
    <2>1. Reached.kind \in {"file", "link"}
      <3>1. Reached \in Entry BY <1>0, <1>7, ReachedIs DEF Open
      <3> QED BY <1>7, <3>1 DEF Open, Entry
    <2>2. /\ UNCHANGED <<archive, checked, next>>
          /\ pc = "entries" /\ pc' = "copy"
          /\ tree' = IF Reached.kind = "link" THEN tree ELSE tree \cup {FileNode(Reached)}
      BY <1>7, <2>1, FileIsFree DEF Open, FileNode
    <2>3. PICK n \in Nat : n + 1 = next
      <3>1. next - 1 \in Nat /\ (next - 1) + 1 = next BY <1>0 DEF Within
      <3> QED BY <3>1
    <2>4. Reached = entries[n + 1] BY <2>3 DEF Reached
    <2>5. tree = {DirNode(q) : q \in Dirs} \cup {FileNode(entries[i]) : i \in Kind(n, "file")}
      BY <1>0, <2>2, <2>3 DEF Stores, Prepared
    <2>6. Kind(n + 1, "file") = IF Reached.kind = "link" THEN Kind(n, "file")
                                ELSE Kind(n, "file") \cup {n + 1}
      BY <2>1, <2>4, KindGrows
    <2>7. tree' = {DirNode(q) : q \in Dirs}
                  \cup {FileNode(entries[i]) : i \in Kind(n + 1, "file")}
      BY <2>2, <2>4, <2>5, <2>6
    <2> QED BY <2>2, <2>3, <2>7, DirsFrame, ZenonT(30) DEF Stores, Prepared
  <1>8. CASE Copy
    <2>1. UNCHANGED <<archive, checked, tree>> /\ pc = "copy" BY <1>8 DEF Copy
    <2>2. \/ pc' = "entries" /\ next' = next + 1
          \/ code' # "none" /\ pc' \in {"failed", "returned"}
      BY <1>8, CopyIs DEF Fail
    <2>3. tree = {DirNode(q) : q \in Dirs}
                 \cup {FileNode(entries[i]) : i \in Kind(next, "file")}
      BY <1>0, <2>1 DEF Stores, Prepared, Within
    <2>4. \A n \in Nat : n + 1 = next + 1 => n = next BY <1>0 DEF Within
    <2> QED BY <2>1, <2>2, <2>3, <2>4, DirsFrame DEF Stores, Prepared
  <1>9. CASE Return \/ Cancel \/ UNCHANGED vars
    <2>1. UNCHANGED <<archive, checked, tree, next, code>> BY <1>9 DEF Return, Cancel
    <2>2. \/ pc = "entries" /\ pc' = "returned"
          \/ UNCHANGED pc
      BY <1>9 DEF Return, Cancel
    <2>3. /\ Prepared' => Prepared
          /\ pc' = "copy" <=> pc = "copy"
          /\ pc' = "dirs" <=> pc = "dirs"
      BY <1>9 DEF Return, Cancel, Prepared
    <2> QED BY <1>0, <2>1, <2>3, DirsFrame DEF Stores
  <1> QED BY <1>1, <1>2, <1>3, <1>4, <1>5, <1>6, <1>7, <1>8, <1>9 DEF Next

\* The result after one more entry.
LEMMA DoneFrame ==
    ASSUME UNCHANGED <<archive, checked, result>>, NEW n
    PROVE Done(n)' <=> Done(n)
  BY DEF Done, Kind, Countable, Sums, entries, checked, result

\* The sum after the next entry.
LEMMA BalanceGrows ==
    ASSUME Within, NEW n \in Nat, n + 1 = next, next <= Len(entries),
           \E t : Sums(t, Len(entries)) /\ declared = t[Len(entries)] /\ extracted = t[n],
           extracted' = extracted + Reached.declared, UNCHANGED <<archive, declared>>
    PROVE (\E t : Sums(t, Len(entries)) /\ declared = t[Len(entries)] /\ extracted = t[n + 1])'
  <1>1. PICK t : Sums(t, Len(entries)) /\ declared = t[Len(entries)] /\ extracted = t[n]
    OBVIOUS
  <1>2. n + 1 \in 1..Len(entries) /\ (n + 1) - 1 = n BY ArchiveIs
  <1>3. t[n + 1] = t[n] + entries[n + 1].declared BY <1>1, <1>2 DEF Sums
  <1>4. entries' = entries BY DEF entries
  <1>5. extracted' = t[n + 1] BY <1>1, <1>3 DEF Reached
  <1> QED BY <1>1, <1>4, <1>5 DEF Sums

\* A link is recorded behind those before it.
LEMMA LinkDone ==
    ASSUME IInv, NEW n \in Nat, n + 1 = next, next <= Len(entries), Done(n),
           Reached.kind = "link", rejected' = Append(rejected, Reached), UNCHANGED files,
           extracted' = extracted + Reached.declared, UNCHANGED <<archive, checked>>
    PROVE Done(n + 1)'
  <1>1. Reached = entries[n + 1] BY DEF Reached
  <1>2. entries' = entries /\ \A m, k : Kind(m, k)' = Kind(m, k) BY DirsFrame
  <1>3. /\ Kind(n + 1, "file") = Kind(n, "file")
        /\ Kind(n + 1, "link") = Kind(n, "link") \cup {n + 1}
        /\ Cardinality(Kind(n + 1, "link")) = Cardinality(Kind(n, "link")) + 1
    BY <1>1, KindGrows
  <1>4. rejected \in Seq(Entry) /\ Reached \in Entry /\ Len(rejected) \in Nat
    BY ReachedIs DEF IInv, Shape
  <1>5. files' = {FileOf(entries[i]) : i \in Kind(n + 1, "file")} BY <1>3 DEF Done
  <1>6. /\ Len(rejected') = Cardinality(Kind(n + 1, "link"))
        /\ rejected'[Cardinality(Kind(n + 1, "link"))] = entries[n + 1]
        /\ \A i \in 1..Len(rejected) : rejected'[i] = rejected[i]
    BY <1>1, <1>3, <1>4 DEF Done
  <1>7. ASSUME NEW i \in Kind(n + 1, "link")
        PROVE rejected'[Cardinality(Kind(i, "link"))] = entries[i]
    <2>1. CASE i = n + 1 BY <1>6, <2>1
    <2>2. CASE i \in Kind(n, "link")
      <3>1. i \in 1..n /\ i \in Kind(i, "link") /\ Kind(i, "link") \subseteq Kind(n, "link")
        BY <2>2 DEF Kind
      <3>2. IsFiniteSet(Kind(n, "link")) /\ IsFiniteSet(Kind(i, "link"))
        BY <3>1, KindGrows
      <3>3. Cardinality(Kind(i, "link")) <= Cardinality(Kind(n, "link"))
        BY <3>1, <3>2, FS_Subset
      <3>4. Cardinality(Kind(i, "link")) \in Nat \ {0}
        BY <3>1, <3>2, FS_CardinalityType, FS_EmptySet
      <3>5. Cardinality(Kind(i, "link")) \in 1..Len(rejected) BY <1>4, <3>3, <3>4 DEF Done
      <3> QED BY <1>6, <2>2, <3>5 DEF Done
    <2> QED BY <1>3, <2>1, <2>2
  <1>8. Cardinality(files') + Len(rejected') = Cardinality(Countable(n + 1))
    <2>1. Cardinality(Countable(n + 1)) = Cardinality(Countable(n)) + 1
      BY <1>1, CountableGrows DEF Counted
    <2>2. Cardinality(files) \in Nat BY FS_CardinalityType DEF IInv, Shape
    <2>3. Len(rejected') = Len(rejected) + 1 BY <1>4
    <2> QED BY <1>4, <2>1, <2>2, <2>3 DEF Done
  <1>9. (\E t : Sums(t, Len(entries)) /\ declared = t[Len(entries)] /\ extracted = t[n + 1])'
    BY BalanceGrows DEF Done, IInv, checked
  <1>10. Countable(n + 1)' = Countable(n + 1) BY <1>2 DEF Countable
  <1> QED BY <1>2, <1>5, <1>6, <1>7, <1>8, <1>9, <1>10, ZenonT(30) DEF Done

\* A regular entry adds a file with a new name.
LEMMA FileDone ==
    ASSUME IInv, NEW n \in Nat, n + 1 = next, next <= Len(entries), Done(n), pc = "copy",
           Reached.kind = "file", files' = files \cup {FileOf(Reached)}, UNCHANGED rejected,
           extracted' = extracted + Reached.declared, UNCHANGED <<archive, checked>>
    PROVE Done(n + 1)'
  <1>1. Reached = entries[n + 1] BY DEF Reached
  <1>2. entries' = entries /\ \A m, k : Kind(m, k)' = Kind(m, k) BY DirsFrame
  <1>3. /\ Kind(n + 1, "link") = Kind(n, "link")
        /\ Kind(n + 1, "file") = Kind(n, "file") \cup {n + 1}
    BY <1>1, KindGrows
  <1>4. files' = {FileOf(entries[i]) : i \in Kind(n + 1, "file")} BY <1>1, <1>3 DEF Done
  <1>5. FileOf(Reached) \notin files
    <2> SUFFICES ASSUME FileOf(Reached) \in files PROVE FALSE OBVIOUS
    <2>1. PICK i \in Kind(n, "file") : FileOf(Reached) = FileOf(entries[i]) BY DEF Done
    <2>2. Normal(Reached.path) = Normal(entries[i].path) BY <2>1 DEF FileOf
    <2>3. Len(entries) \in Nat /\ archive \in Archive BY ArchiveIs DEF IInv
    <2>4. i \in 1..n /\ i \in 1..Len(entries) /\ n + 1 \in 1..Len(entries) BY <2>3 DEF Kind
    <2>5. Reached.path \in Paths /\ entries[i].path \in Paths BY <1>1, <2>3, <2>4, EntryIs
    <2>6. Folded(Reached.path) = Folded(entries[i].path) BY <2>2, <2>5, NormalIs
    <2>7. AllCoexist(Len(entries)) BY <2>3 DEF IInv, Checks, Passed, Admitted
    <2>8. Coexist(entries[i], entries[n + 1])
      <3>1. i \in 1..((n + 1) - 1) BY <2>4
      <3> QED BY <2>4, <2>7, <3>1 DEF AllCoexist
    <2> QED BY <1>1, <2>6, <2>8 DEF Coexist
  <1>6. Cardinality(files') + Len(rejected') = Cardinality(Countable(n + 1))
    <2>1. Cardinality(Countable(n + 1)) = Cardinality(Countable(n)) + 1
      BY <1>1, CountableGrows DEF Counted
    <2>2. Cardinality(files) \in Nat /\ IsFiniteSet(files) /\ Len(rejected) \in Nat
      BY FS_CardinalityType DEF IInv, Shape
    <2>3. Cardinality(files \cup {FileOf(Reached)}) = Cardinality(files) + 1
      BY <1>5, <2>2, FS_AddElement
    <2> QED BY <2>1, <2>2, <2>3 DEF Done
  <1>7. (\E t : Sums(t, Len(entries)) /\ declared = t[Len(entries)] /\ extracted = t[n + 1])'
    BY BalanceGrows DEF Done, IInv, checked
  <1>8. Countable(n + 1)' = Countable(n + 1) BY <1>2 DEF Countable
  <1>9. Len(rejected') = Cardinality(Kind(n + 1, "link"))
        /\ \A i \in Kind(n + 1, "link") : rejected'[Cardinality(Kind(i, "link"))] = entries[i]
    BY <1>3 DEF Done
  <1> QED BY <1>2, <1>4, <1>6, <1>7, <1>8, <1>9 DEF Done

\* A directory adds nothing.
LEMMA DirDone ==
    ASSUME IInv, NEW n \in Nat, n + 1 = next, next <= Len(entries), Done(n), pc = "entries",
           Reached.kind = "dir", UNCHANGED <<archive, checked, result>>
    PROVE Done(n + 1)'
  <1>1. Reached = entries[n + 1] BY DEF Reached
  <1>2. entries' = entries /\ \A m, k : Kind(m, k)' = Kind(m, k) BY DirsFrame
  <1>3. Kind(n + 1, "link") = Kind(n, "link") /\ Kind(n + 1, "file") = Kind(n, "file")
    BY <1>1, KindGrows
  <1>4. Cardinality(Countable(n + 1)) = Cardinality(Countable(n))
    <2>1. Cardinality(Countable(n)) \in Nat BY CountableGrows
    <2>2. Counted(entries[n + 1]) = 0 BY <1>1 DEF Counted
    <2>3. Cardinality(Countable(n + 1)) = Cardinality(Countable(n)) + Counted(entries[n + 1])
      BY CountableGrows
    <2>4. \A k \in Nat : k + 0 = k OBVIOUS
    <2> QED BY <2>1, <2>2, <2>3, <2>4
  <1>5. Reached.declared = 0
    <2>1. Len(entries) \in Nat BY ArchiveIs DEF IInv
    <2>2. n + 1 \in 1..Len(entries) BY <2>1
    <2> QED BY <1>1, <2>1, <2>2 DEF IInv, Checks, Passed, Admitted
  <1>6. extracted' = extracted + Reached.declared BY <1>5 DEF result, IInv, Within
  <1>7. (\E t : Sums(t, Len(entries)) /\ declared = t[Len(entries)] /\ extracted = t[n + 1])'
    BY <1>6, BalanceGrows DEF Done, IInv, checked
  <1>8. Countable(n + 1)' = Countable(n + 1) BY <1>2 DEF Countable
  <1> QED BY <1>2, <1>3, <1>4, <1>7, <1>8 DEF Done, result

\* The result, step by step.
LEMMA ResultsStay == IInv /\ [Next]_vars => Results'
  <1> SUFFICES ASSUME IInv, [Next]_vars PROVE Results' OBVIOUS
  <1> USE DEF vars, checked
  <1>0. Within /\ Results /\ Ending /\ Shape /\ Len(entries) \in Nat BY ArchiveIs DEF IInv
  <1>1. CASE OpenReader \/ (Admit /\ Refusal(Reached) # "none") \/ Cleanup \/ IOFails \/ Stop
    BY <1>1, FailureEnds DEF Results
  <1>2. CASE (Admit /\ Refusal(Reached) = "none") \/ MakeDest \/ MakeDir
    <2>1. pc' \in {"preflight", "dirs", "failed", "returned"} /\ (MakeDir => pc' = "dirs")
          /\ (Admit /\ Refusal(Reached) = "none" => pc' = "preflight")
          /\ (MakeDest => pc' = "dirs")
      BY <1>2, DirIsFree DEF Admit, MakeDest, MakeDir
    <2> QED BY <1>2, <2>1 DEF Results, Prepared
  <1>3. PICK n \in Nat : n + 1 = next
    <2>1. next - 1 \in Nat /\ (next - 1) + 1 = next BY <1>0 DEF Within
    <2> QED BY <2>1
  <1>4. \A m \in Nat : m + 1 = next => m = n BY <1>3
  <1>5. \A m \in Nat : m + 1 = next + 1 => m = n + 1 BY <1>3
  <1>6. CASE DirsMade
    <2>1. /\ UNCHANGED <<archive, checked, result, next>> /\ pc = "dirs"
          /\ files = {} /\ rejected = <<>> /\ extracted = 0 /\ next = 1
      BY <1>0, <1>6 DEF DirsMade, Ending
    <2>2. n = 0 BY <1>3, <2>1
    <2>3. Done(0)
      <3>1. 1..0 = {} OBVIOUS
      <3>2. Kind(0, "file") = {} /\ Kind(0, "link") = {} /\ Countable(0) = {}
        BY <3>1 DEF Kind, Countable
      <3>3. Cardinality({}) = 0 /\ Len(<<>>) = 0 BY FS_EmptySet, EmptySeq
      <3>4. Admitted(Len(entries)) BY <1>0, <2>1 DEF IInv, Checks, Passed
      <3>5. \E t : Sums(t, Len(entries)) /\ declared = t[Len(entries)] /\ extracted = t[0]
        BY <2>1, <3>4 DEF Admitted, Sums
      <3>6. files = {FileOf(entries[i]) : i \in Kind(0, "file")} BY <2>1, <3>2
      <3>7. Len(rejected) = 0 /\ Cardinality(files) = 0 BY <2>1, <3>3
      <3>8. Len(rejected) = Cardinality(Kind(0, "link")) BY <3>2, <3>3, <3>7
      <3>9. Cardinality(files) + Len(rejected) = Cardinality(Countable(0))
        <4>1. Cardinality(Countable(0)) = 0 BY <3>2, <3>3
        <4> QED BY <3>7, <4>1
      <3>10. \A i \in Kind(0, "link") : rejected[Cardinality(Kind(i, "link"))] = entries[i]
        BY <3>2
      <3> QED BY <3>5, <3>6, <3>8, <3>9, <3>10 DEF Done
    <2>4. Done(0)' BY <2>1, <2>3, DoneFrame
    <2> QED BY <1>4, <2>1, <2>2, <2>4 DEF Results
  <1>7. CASE SkipDir
    <2>1. /\ UNCHANGED <<archive, checked, result>> /\ pc = "entries"
          /\ next' = next + 1 /\ next <= Len(entries) /\ Reached.kind = "dir"
      BY <1>7 DEF SkipDir
    <2>2. Done(n) BY <1>0, <1>3, <2>1 DEF Results, Prepared
    <2>3. Done(n + 1)' BY <1>3, <2>1, <2>2, DirDone
    <2> QED BY <1>5, <2>1, <2>3 DEF Results
  <1>8. CASE Copy
    <2>1. UNCHANGED <<archive, checked>> /\ pc = "copy" /\ next <= Len(entries)
      BY <1>0, <1>8 DEF Copy, Within
    <2>2. Done(n) BY <1>0, <1>3, <2>1 DEF Results, Prepared
    <2>3. PICK c \in Copies(Reached) :
            /\ extracted' = extracted + c.n
            /\ \/ Fail(c.code) /\ c.code # "none"
               \/ /\ c.code = "none" /\ pc' = "entries" /\ next' = next + 1
                  /\ \/ /\ Reached.kind = "link" /\ UNCHANGED files
                        /\ rejected' = Append(rejected, Reached)
                     \/ /\ Reached.kind # "link" /\ UNCHANGED rejected
                        /\ files' = files \cup {FileOf([Reached EXCEPT !.actual = c.n])}
      BY <1>8, CopyIs
    <2>4. CASE c.code # "none"
      BY <2>3, <2>4 DEF Fail, Results, Prepared
    <2>5. CASE c.code = "none"
      <3>1. Reached \in Entry BY <1>0, <2>1, ReachedIs
      <3>2. c.n = Reached.actual /\ Reached.actual = Reached.declared BY <2>5, CopyEnds
      <3>3. [Reached EXCEPT !.actual = c.n] = Reached BY <3>1, <3>2 DEF Entry
      <3>4. Reached.kind \in {"file", "link"} BY <1>0, <2>1, <3>1 DEF Ending, Entry
      <3>5. next' = next + 1 BY <2>3, <2>5 DEF Fail
      <3>6. Done(n + 1)'
        <4>1. CASE Reached.kind = "link"
          <5>1. /\ rejected' = Append(rejected, Reached) /\ UNCHANGED files
                /\ extracted' = extracted + Reached.declared
            BY <2>3, <2>5, <3>2, <4>1
          <5> QED BY <1>3, <2>1, <2>2, <4>1, <5>1, LinkDone
        <4>2. CASE Reached.kind = "file"
          <5>1. /\ files' = files \cup {FileOf(Reached)} /\ UNCHANGED rejected
                /\ extracted' = extracted + Reached.declared
            BY <2>3, <2>5, <3>2, <3>3, <4>2
          <5> QED BY <1>3, <2>1, <2>2, <4>2, <5>1, FileDone
        <4> QED BY <3>4, <4>1, <4>2
      <3> QED BY <1>5, <3>5, <3>6 DEF Results
    <2> QED BY <2>4, <2>5
  <1>9. CASE Open \/ Return \/ Cancel \/ UNCHANGED vars
    <2>1. UNCHANGED <<archive, checked, result, next>> BY <1>9 DEF Open, Return, Cancel
    <2>2. Prepared' => Prepared BY <1>9 DEF Open, Return, Cancel, Prepared
    <2>3. Prepared => Done(n) BY <1>0, <1>3 DEF Results
    <2> QED BY <1>4, <2>1, <2>2, <2>3, DoneFrame DEF Results
  <1> QED BY <1>1, <1>2, <1>6, <1>7, <1>8, <1>9 DEF Next

\* ------------------------------------------------------------ the theorems

\* Before the archive is opened nothing is known, made or extracted.
LEMMA Initially == Init => IInv
  <1> SUFFICES ASSUME Init PROVE IInv OBVIOUS
  <1>1. Within BY WithinInitially
  <1>2. Len(entries) \in Nat BY <1>1, ArchiveIs
  <1>3. Shape
    <2>1. IsFiniteSet(files) /\ Cardinality(files) = 0 BY FS_EmptySet DEF Init
    <2>2. rejected \in Seq(Entry) /\ Len(rejected) = 0 BY EmptySeq DEF Init
    <2>3. next = 1 /\ 1 \in 1..(Len(entries) + 1) BY <1>2 DEF Init
    <2>4. Len(rejected) + Cardinality(files) < next BY <2>1, <2>2, <2>3
    <2>5. declared \in 0..MaxDeclaredBytes /\ preFiles \in 0..MaxEntries /\ preFiles < next
      BY <2>3, ExtractAssumption DEF Init
    <2>6. /\ dest \in BOOLEAN /\ ctx \in BOOLEAN /\ broke \subseteq {"io", "cleanup"}
          /\ code \in Codes /\ pc = "open" /\ tree = {}
      BY DEF Init, Codes
    <2> QED BY <2>1, <2>2, <2>3, <2>4, <2>5, <2>6 DEF Shape
  <1>4. Ending BY DEF Init, Ending
  <1>5. Checks /\ Stores /\ Results BY DEF Init, Checks, Stores, Results, Passed, Prepared
  <1> QED BY <1>1, <1>3, <1>4, <1>5 DEF IInv

\* Every step keeps the invariant.
LEMMA Induction == IInv /\ [Next]_vars => IInv'
  BY WithinStays, ShapeStays, EndingStays, ChecksStay, StoresStay, ResultsStay DEF IInv

\* Extract always satisfies it.
LEMMA Invariant == Spec => []IInv
  BY Initially, Induction, PTL DEF Spec

\* The control point and the counters stay what they should be: no loop runs past the
\* entries, and the bytes left for declarations never become negative (zip.go:276-330).
THEOREM TypeCorrect == Spec => []TypeOK
  <1>1. IInv => TypeOK
    <2> SUFFICES ASSUME IInv PROVE TypeOK OBVIOUS
    <2>1. archive \in Archive BY ArchiveIs DEF IInv
    <2>2. extracted \in Nat BY ExtractAssumption DEF IInv, Within
    <2> QED BY <2>1, <2>2 DEF IInv, Within, Shape, TypeOK
  <1> QED BY Invariant, <1>1, PTL

\* Preflight admits only archives that a volume without case or normalization can hold,
\* and refuses as duplicates only archives that it cannot (zip.go:652-677).
THEOREM CollisionsAreAlwaysExact == Spec => []CollisionsAreExact
  <1>1. IInv => CollisionsAreExact
    <2> SUFFICES ASSUME IInv PROVE CollisionsAreExact OBVIOUS
    <2>1. Len(entries) \in Nat BY ArchiveIs DEF IInv
    <2>2. pc \in {"dirs", "entries", "copy"} => AllCoexist(Len(entries))
      BY <2>1 DEF IInv, Checks, Passed, Admitted
    <2>3. code = "archive_duplicate_path" => ~AllCoexist(next) BY DEF IInv, Ending
    <2> QED BY <2>2, <2>3 DEF CollisionsAreExact
  <1> QED BY Invariant, <1>1, PTL

\* Whatever the archive, archive_io_error is only reported when the file system fails:
\* the directories and files of an admitted archive are never in each other's way.
THEOREM IOErrorsAreFaults == Spec => []IOOnlyFromFaults
  <1>1. IInv => IOOnlyFromFaults BY DEF IInv, Ending, IOOnlyFromFaults
  <1> QED BY Invariant, <1>1, PTL

\* A failed extraction leaves no destination, unless removing it fails as well.
THEOREM FailureAlwaysRemoves == Spec => []FailureRemoves
  <1>1. IInv => FailureRemoves BY DEF IInv, Ending, FailureRemoves
  <1> QED BY Invariant, <1>1, PTL

\* A success accounts for every entry of the archive exactly once, whatever the archive
\* and the limits, and leaves nothing else on disk.
THEOREM ResultIsAlwaysComplete == Spec => []ResultIsComplete
  <1>1. IInv => ResultIsComplete
    <2> SUFFICES ASSUME IInv, pc = "returned", code = "none" PROVE ResultIsComplete
      BY DEF ResultIsComplete
    <2>1. PICK n \in Nat : n = Len(entries) BY ArchiveIs DEF IInv
    <2>2. next = n + 1 BY <2>1 DEF IInv, Ending
    <2>3. Done(n) BY <2>2 DEF IInv, Results, Prepared
    <2>4. extracted = declared BY <2>1, <2>3 DEF Done
    <2>5. tree = {DirNode(p) : p \in Dirs} \cup {FileNode(entries[i]) : i \in Kind(n, "file")}
      BY <2>2 DEF IInv, Stores, Prepared
    <2>6. files = {FileOf(entries[i]) : i \in Kind(n, "file")} BY <2>3 DEF Done
    <2>7. {o.name : o \in tree} = Dirs \cup {f.name : f \in files}
      <3>1. \A p \in Dirs : DirNode(p) \in tree /\ DirNode(p).name = p
        BY <2>5 DEF DirNode
      <3>2. \A i \in Kind(n, "file") :
               /\ FileNode(entries[i]) \in tree /\ FileOf(entries[i]) \in files
               /\ FileNode(entries[i]).name = FileOf(entries[i]).name
        BY <2>5, <2>6 DEF FileNode, FileOf
      <3>3. ASSUME NEW o \in tree PROVE o.name \in Dirs \cup {f.name : f \in files}
        <4>1. CASE \E p \in Dirs : o = DirNode(p) BY <3>1, <4>1
        <4>2. CASE \E i \in Kind(n, "file") : o = FileNode(entries[i]) BY <3>2, <4>2
        <4> QED BY <2>5, <4>1, <4>2
      <3>4. ASSUME NEW p \in Dirs PROVE p \in {o.name : o \in tree} BY <3>1
      <3>5. ASSUME NEW f \in files PROVE f.name \in {o.name : o \in tree}
        <4>1. PICK i \in Kind(n, "file") : f = FileOf(entries[i]) BY <2>6
        <4> QED BY <3>2, <4>1
      <3> QED BY <3>3, <3>4, <3>5
    <2>8. files = {[name |-> Normal(entries[i].path), size |-> entries[i].actual] :
                     i \in Kind(n, "file")}
      BY <2>6 DEF FileOf
    <2> QED BY <2>1, <2>3, <2>4, <2>7, <2>8 DEF Done, ResultIsComplete
  <1> QED BY Invariant, <1>1, PTL

\* A success has as many files as preflight counted, those that processArchive reserved
\* in max_files (scan.go:311, 371-374).
THEOREM CountsAlwaysAgree == Spec => []CountsAgree
  <1>1. IInv => CountsAgree
    <2> SUFFICES ASSUME IInv, pc = "returned", code = "none"
                 PROVE preFiles = Cardinality(files) + Len(rejected)
      BY DEF CountsAgree
    <2>1. PICK n \in Nat : n = Len(entries) BY ArchiveIs DEF IInv
    <2>2. next = n + 1 BY <2>1 DEF IInv, Ending
    <2>3. Done(n) BY <2>2 DEF IInv, Results, Prepared
    <2>4. Admitted(n) BY <2>1 DEF IInv, Checks, Passed
    <2> QED BY <2>3, <2>4 DEF Done, Admitted
  <1> QED BY Invariant, <1>1, PTL

\* However the headers of an archive lie, Extract never inflates more bytes than
\* MaxTotalBytes, nor MaxFileBytes into one file (zip.go:246-247, 679-714).
THEOREM BudgetTheorem == Spec => []BudgetKept
  <1>1. Within => BudgetKept BY ExtractAssumption DEF Within, BudgetKept
  <1> QED BY WithinInitially, WithinStays, <1>1, PTL DEF Spec
==============================================================================
