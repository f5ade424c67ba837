------------------------- MODULE SessionTreeProofs -------------------------
(***************************************************************************)
(* The session manager, for any files, kinds of entry, faults and number   *)
(* of entries: a file read back holds what was reported as written, and    *)
(* flushed means that it is the tree in memory.                            *)
(*                                                                         *)
(* Neither is inductive.  That a file read back is what was written needs  *)
(* that nothing written looks like a header or a broken line; that a walk  *)
(* up the tree ends needs that a parent is older than its child, in memory *)
(* and in every file; and appending one line is right only behind a line   *)
(* that is terminated.                                                     *)
(***************************************************************************)
EXTENDS SessionTree, SubsequenceProofs

Lines == Entry \cup {Header, Junk}

(* A parent is older than its child, numbers are given once, and a label   *)
(* has a target.                                                           *)
Proper(e, n) == e.parent < e.id /\ e.id < n /\ (e.kind = "label" => e.ref # Root)

(* What is in memory or in a file: proper entries in the order they were   *)
(* made, numbered below n, with no header but in front.                    *)
Sound(s, n) ==
    /\ \A i \in DOMAIN s : s[i] \in Entry => Proper(s[i], n)
    /\ \A i, j \in DOMAIN s : s[i] \in Entry /\ s[j] \in Entry /\ i < j => s[i].id < s[j].id
    /\ \A i \in DOMAIN s : i > 1 => s[i] # Header

AllSound ==
    /\ Sound(entries, nextId) /\ leaf < nextId
    /\ \A f \in File : Sound(disk[f].lines, nextId)

NoFileNoLines == \A f \in File : ~disk[f].exists => disk[f].lines = <<>>

(* While flushed is set and no append has failed, the file ends with a     *)
(* terminated line and holds the tree behind a header.                     *)
FlushedInv ==
    up /\ flushed /\ disk[file].exists /\ file \notin poisoned =>
        /\ disk[file].tail = "clean" /\ HasHeader(disk[file])
        /\ LoadEntries(disk[file]) = entries

SavedInv ==
    \A f \in File \ poisoned : saved[f] \subseteq IdsOf(LoadEntries(disk[f]))

TreeInv == TypeOK /\ AllSound /\ NoFileNoLines /\ FlushedInv /\ SavedInv
-----------------------------------------------------------------------------
(* Recursion towards smaller numbers.                                      *)

(* Outside D a value is given; inside D it is computed by step from the    *)
(* value at the smaller number par.                                        *)
Descends(V, D, par, base, step) ==
    /\ D \subseteq Nat /\ par \in [D -> Nat] /\ \A i \in D : par[i] < i
    /\ base \in [Nat -> V] /\ step \in [D -> [V -> V]]

Computes(w, D, par, base, step) ==
    \A i \in Nat : w[i] = IF i \in D THEN step[i][w[par[i]]] ELSE base[i]

(* A function that is computed from its values at smaller numbers exists.  *)
LEMMA DescentExists ==
    ASSUME NEW V, NEW D, NEW par, NEW base, NEW step, Descends(V, D, par, base, step)
    PROVE  \E w \in [Nat -> V] : Computes(w, D, par, base, step)
<1>0. /\ D \subseteq Nat /\ par \in [D -> Nat] /\ \A i \in D : par[i] < i
      /\ base \in [Nat -> V] /\ step \in [D -> [V -> V]]
  BY DEF Descends
<1> USE <1>0
<1> DEFINE Right(g, i) == g[i] = IF i \in D THEN step[i][g[par[i]]] ELSE base[i]
           G(n) == {g \in [0..n -> V] : \A i \in 0..n : Right(g, i)}
<1>1. \A n \in Nat : G(n) # {}
  <2> DEFINE B == {n \in Nat : G(n) = {}}
  <2>1. SUFFICES ASSUME B # {} PROVE FALSE
    OBVIOUS
  <2>2. PICK n \in B : \A m \in B : n <= m
    <3> HIDE DEF B
    <3>1. B \subseteq Nat
      BY DEF B
    <3> QED
      BY <2>1, <3>1, LeastNumber
  <2>3. n \in Nat /\ G(n) = {}
    OBVIOUS
  <2>4. CASE n = 0
    <3>1. 0 \notin D
      OBVIOUS
    <3> DEFINE g == [i \in 0..0 |-> base[0]]
    <3>2. g \in [0..n -> V] /\ \A i \in 0..n : Right(g, i)
      BY <2>4, <3>1
    <3> QED
      BY <2>3, <3>2
  <2>5. CASE n # 0
    <3>1. n - 1 \in Nat /\ G(n - 1) # {}
      <4>1. n - 1 \in Nat /\ ~(n <= n - 1)
        BY <2>3, <2>5
      <4> HIDE DEF G
      <4> QED
        BY <2>2, <4>1
    <3>2. PICK g \in [0..(n - 1) -> V] : \A i \in 0..(n - 1) : Right(g, i)
      BY <3>1
    <3> DEFINE h == [i \in 0..n |-> IF i < n THEN g[i] ELSE IF n \in D THEN step[n][g[par[n]]] ELSE base[n]]
    <3>3. n \in D => par[n] \in 0..(n - 1) /\ g[par[n]] \in V /\ step[n][g[par[n]]] \in V
      <4>1. ASSUME n \in D PROVE par[n] \in 0..(n - 1)
        BY <4>1, <2>3
      <4> QED
        BY <4>1, <3>2
    <3>4. h \in [0..n -> V]
      <4>1. \A i \in 0..n : i < n => i \in 0..(n - 1)
        BY <2>3
      <4> QED
        BY <3>3, <4>1
    <3>5. ASSUME NEW i \in 0..n PROVE Right(h, i)
      <4>1. CASE i < n
        <5>1. i \in 0..(n - 1) /\ h[i] = g[i]
          BY <2>3, <4>1
        <5>2. ASSUME i \in D PROVE par[i] \in 0..n /\ par[i] < n /\ h[par[i]] = g[par[i]]
          BY <2>3, <4>1, <5>2
        <5> QED
          BY <3>2, <5>1, <5>2
      <4>2. CASE i = n
        <5>1. ASSUME n \in D PROVE h[par[n]] = g[par[n]]
          BY <2>3, <3>3, <5>1
        <5> QED
          BY <4>2, <5>1, <2>3
      <4> QED
        BY <4>1, <4>2, <2>3
    <3> HIDE DEF h
    <3> QED
      BY <2>3, <3>4, <3>5
  <2> QED
    BY <2>4, <2>5
<1>2. ASSUME NEW n \in Nat, NEW m \in Nat, n <= m, NEW g \in G(n), NEW h \in G(m)
      PROVE  \A i \in 0..n : g[i] = h[i]
  <2> DEFINE B == {i \in 0..n : g[i] # h[i]}
  <2>1. SUFFICES ASSUME B # {} PROVE FALSE
    OBVIOUS
  <2>2. PICK i \in B : \A j \in B : i <= j
    <3> HIDE DEF B
    <3>1. B \subseteq Nat
      BY DEF B
    <3> QED
      BY <2>1, <3>1, LeastNumber
  <2>3. i \in 0..n /\ i \in 0..m /\ g[i] # h[i] /\ Right(g, i) /\ Right(h, i)
    BY <1>2
  <2>4. i \in D
    BY <2>3
  <2>5. par[i] \in 0..n /\ par[i] < i
    BY <2>3, <2>4
  <2>6. par[i] \notin B
    BY <2>2, <2>5, <2>3
  <2> QED
    BY <2>3, <2>4, <2>5, <2>6
<1> DEFINE c == [n \in Nat |-> CHOOSE g : g \in G(n)]
           w == [n \in Nat |-> c[n][n]]
<1>3. \A n \in Nat : c[n] \in G(n)
  BY <1>1
<1>4. \A n \in Nat : c[n] \in [0..n -> V] /\ (\A i \in 0..n : Right(c[n], i)) /\ n \in 0..n
  <2> HIDE DEF c
  <2> TAKE n \in Nat
  <2>1. c[n] \in G(n)
    BY <1>3
  <2> QED
    BY <2>1
<1>5. \A n \in Nat : \A i \in 0..n : c[n][i] = w[i]
  <2> TAKE n \in Nat
  <2> TAKE i \in 0..n
  <2>1. i \in Nat /\ i <= n /\ i \in 0..i
    OBVIOUS
  <2>2. c[i] \in G(i) /\ c[n] \in G(n)
    BY <1>3, <2>1
  <2> HIDE DEF c, G
  <2>3. c[i][i] = c[n][i]
    BY <1>2, <2>1, <2>2
  <2> QED
    BY <2>1, <2>3
<1> HIDE DEF c
<1>6. w \in [Nat -> V]
  BY <1>4
<1>7. ASSUME NEW i \in Nat PROVE Right(w, i)
  <2>1. w[i] = c[i][i] /\ Right(c[i], i)
    BY <1>4
  <2>2. ASSUME i \in D PROVE c[i][par[i]] = w[par[i]]
    <3>1. par[i] \in 0..i
      BY <2>2
    <3> QED
      BY <1>5, <3>1
  <2> QED
    BY <2>1, <2>2
<1> HIDE DEF w
<1> QED
  BY <1>6, <1>7 DEF Computes
-----------------------------------------------------------------------------
(* Walks up the tree.                                                      *)

(* The entry with a number is one of the entries and has that number.      *)
LEMMA EntryFound ==
    ASSUME NEW es \in Seq(Entry), NEW id \in IdsOf(es)
    PROVE  /\ EntryOf(es, id) \in Entry /\ EntryOf(es, id).id = id
           /\ \E i \in DOMAIN es : es[i] = EntryOf(es, id)
<1>1. \E i \in DOMAIN es : es[i].id = id
  BY DEF IdsOf
<1>2. PICK i \in DOMAIN es : i = CHOOSE j \in DOMAIN es : es[j].id = id
  BY <1>1
<1>3. es[i].id = id
  BY <1>1, <1>2
<1>4. es[i] \in Entry
  OBVIOUS
<1> QED
  BY <1>2, <1>3, <1>4 DEF EntryOf

(* Numbers of entries are numbers, and Root is older than all of them.     *)
LEMMA EntryNumbers ==
    ASSUME NEW e \in Entry
    PROVE  /\ e.id \in Id /\ e.id \in Nat /\ e.id > 0 /\ e.parent \in Id \cup {Root} /\ e.parent \in Nat
           /\ e.ref \in Id \cup {Root} /\ e.on \in BOOLEAN /\ e # Junk /\ e # Header
<1>1. /\ e.id \in Id /\ e.parent \in Id \cup {Root} /\ e.ref \in Id \cup {Root} /\ e.on \in BOOLEAN
  BY DEF Entry
<1>2. Junk.id = 0 /\ Header.id = 0
  BY DEF Junk, Header, Line, Root
<1> QED
  BY <1>1, <1>2, SessionTreeAssumption DEF Id, Root

(* A branch is the branch of the parent followed by the entry (getBranch). *)
LEMMA BranchUnfolds ==
    ASSUME NEW es \in Seq(Entry), NEW n, Sound(es, n)
    PROVE  \A i \in Nat :
             /\ GetBranch(es, i) = IF i \in IdsOf(es)
                                   THEN Append(GetBranch(es, EntryOf(es, i).parent), EntryOf(es, i))
                                   ELSE <<>>
             /\ GetBranch(es, i) \in Seq(Entry)
<1> DEFINE D == IdsOf(es)
           par == [i \in D |-> EntryOf(es, i).parent]
           base == [i \in Nat |-> <<>>]
           step == [i \in D |-> [v \in Seq(Entry) |-> Append(v, EntryOf(es, i))]]
<1>1. /\ D \subseteq Nat
      /\ \A i \in D : EntryOf(es, i) \in Entry /\ EntryOf(es, i).parent \in Nat /\ EntryOf(es, i).parent < i
  <2>1. ASSUME NEW i \in D
        PROVE  i \in Nat /\ EntryOf(es, i) \in Entry /\ EntryOf(es, i).parent \in Nat /\ EntryOf(es, i).parent < i
    <3>1. PICK k \in DOMAIN es : es[k] = EntryOf(es, i) /\ es[k].id = i /\ es[k] \in Entry
      BY EntryFound
    <3>2. es[k].parent < es[k].id
      BY <3>1 DEF Sound, Proper
    <3> QED
      BY <3>1, <3>2, EntryNumbers
  <2> QED
    BY <2>1
<1> HIDE DEF D
<1>2. par \in [D -> Nat] /\ \A i \in D : par[i] < i
  BY <1>1
<1>3. base \in [Nat -> Seq(Entry)]
  OBVIOUS
<1>4. step \in [D -> [Seq(Entry) -> Seq(Entry)]]
  BY <1>1
<1> HIDE DEF par, base, step
<1>5. PICK w \in [Nat -> Seq(Entry)] : \A i \in Nat : w[i] = IF i \in D THEN step[i][w[par[i]]] ELSE base[i]
  <2>1. Descends(Seq(Entry), D, par, base, step)
    BY <1>1, <1>2, <1>3, <1>4 DEF Descends
  <2>2. \E w \in [Nat -> Seq(Entry)] : Computes(w, D, par, base, step)
    BY <2>1, DescentExists, Zenon
  <2> QED
    BY <2>2 DEF Computes
<1> DEFINE F(g) == [i \in Nat |-> IF i \notin IdsOf(es) THEN <<>>
                                  ELSE Append(g[EntryOf(es, i).parent], EntryOf(es, i))]
           walk == CHOOSE g : g = F(g)
<1>6. \A i \in Nat : w[i] = F(w)[i]
  <2> TAKE i \in Nat
  <2>1. CASE i \in D
    <3>1. w[par[i]] \in Seq(Entry)
      BY <1>2, <2>1
    <3> QED
      BY <1>5, <2>1, <3>1 DEF D, par, step
  <2>2. CASE i \notin D
    BY <1>5, <2>2 DEF D, base
  <2> QED
    BY <2>1, <2>2
<1>7. w = F(w)
  BY <1>6
<1>8. walk = F(walk)
  <2> HIDE DEF F
  <2> QED
    BY <1>7
<1>9. \A i : GetBranch(es, i) = walk[i]
  BY DEF GetBranch
<1> HIDE DEF walk
<1>10. \A i \in Nat : walk[i] = IF i \notin D THEN <<>> ELSE Append(walk[EntryOf(es, i).parent], EntryOf(es, i))
  BY <1>8 DEF D
<1>11. \A i \in Nat : walk[i] \in Seq(Entry)
  <2> DEFINE B == {i \in Nat : walk[i] \notin Seq(Entry)}
  <2>1. SUFFICES ASSUME B # {} PROVE FALSE
    OBVIOUS
  <2>2. PICK i \in B : \A j \in B : i <= j
    <3>1. B \subseteq Nat
      OBVIOUS
    <3> HIDE DEF B
    <3> QED
      BY <2>1, <3>1, LeastNumber
  <2>3. i \in Nat /\ walk[i] \notin Seq(Entry)
    OBVIOUS
  <2>a. <<>> \in Seq(Entry)
    OBVIOUS
  <2>b. i \in D
    BY <1>10, <2>3, <2>a, Zenon
  <2> DEFINE p == EntryOf(es, i).parent
  <2>c. p \in Nat /\ p < i /\ ~(i <= p) /\ EntryOf(es, i) \in Entry
    BY <1>1, <2>3, <2>b
  <2> HIDE DEF p
  <2>4. walk[p] \in Seq(Entry)
    BY <2>2, <2>c
  <2>5. Append(walk[p], EntryOf(es, i)) \in Seq(Entry)
    BY <2>4, <2>c
  <2>6. walk[i] = Append(walk[p], EntryOf(es, i))
    BY <1>10, <2>3, <2>b, Zenon DEF p
  <2> QED
    BY <2>3, <2>5, <2>6, Zenon
<1>12. ASSUME NEW i \in Nat
       PROVE  GetBranch(es, i) = IF i \in D THEN Append(GetBranch(es, EntryOf(es, i).parent), EntryOf(es, i)) ELSE <<>>
  <2>1. GetBranch(es, EntryOf(es, i).parent) = walk[EntryOf(es, i).parent] /\ GetBranch(es, i) = walk[i]
    BY <1>9, Zenon
  <2>2. CASE i \in D
    BY <1>10, <2>1, <2>2, Zenon
  <2>3. CASE i \notin D
    BY <1>10, <2>1, <2>3, Zenon
  <2> QED
    BY <2>2, <2>3, Zenon
<1>13. \A i \in Nat : GetBranch(es, i) \in Seq(Entry)
  BY <1>9, <1>11, Zenon
<1> QED
  BY <1>12, <1>13 DEF D
-----------------------------------------------------------------------------
(* What keeps a sequence of lines sound.                                   *)

(* More numbers given out.                                                 *)
LEMMA SoundLater ==
    ASSUME NEW s \in Seq(Lines), NEW n \in Nat, NEW m \in Nat, n <= m, Sound(s, n)
    PROVE  Sound(s, m)
<1>1. ASSUME NEW i \in DOMAIN s, s[i] \in Entry PROVE Proper(s[i], m)
  <2>1. Proper(s[i], n) /\ s[i].id \in Nat
    BY <1>1, EntryNumbers DEF Sound
  <2> QED
    BY <2>1 DEF Proper
<1> QED
  BY <1>1 DEF Sound

(* Filtering: the members that are left are in order.                      *)
LEMMA SoundKept ==
    ASSUME NEW s \in Seq(Lines), NEW S, NEW n, Sound(s, n)
    PROVE  Sound(Keep(s, S), n)
<1> DEFINE k == Keep(s, S)
<1>1. PICK f : ReadAt(f, k, s, S)
  BY KeepIndices
<1>2. DOMAIN k = 1 .. Len(k) /\ Len(k) \in Nat
  BY KeepIndices
<1> HIDE DEF k
<1>3. \A i \in DOMAIN k : f[i] \in DOMAIN s /\ f[i] \in Nat /\ f[i] >= 1 /\ k[i] = s[f[i]]
  BY <1>1, <1>2 DEF ReadAt, KeptAt
<1>4. \A i, j \in DOMAIN k : i < j => f[i] < f[j]
  BY <1>1, <1>2 DEF ReadAt
<1>5. \A i \in DOMAIN k : i > 1 => f[i] > 1
  BY <1>2, <1>3, <1>4
<1>6. Sound(k, n)
  BY <1>3, <1>4, <1>5 DEF Sound
<1> QED
  BY <1>6 DEF k

(* Cutting off lines at the end.                                           *)
LEMMA SoundPrefix ==
    ASSUME NEW s \in Seq(Lines), NEW k \in 0 .. Len(s), NEW n, Sound(s, n)
    PROVE  SubSeq(s, 1, k) \in Seq(Lines) /\ Sound(SubSeq(s, 1, k), n)
<1>1. /\ SubSeq(s, 1, k) \in Seq(Lines) /\ DOMAIN SubSeq(s, 1, k) = 1 .. k
      /\ \A i \in 1 .. k : SubSeq(s, 1, k)[i] = s[i] /\ i \in DOMAIN s
  OBVIOUS
<1> QED
  BY <1>1 DEF Sound

(* Appending a new entry.                                                  *)
LEMMA SoundNew ==
    ASSUME NEW s \in Seq(Lines), NEW n \in Nat, NEW e \in Entry, e.id = n, Proper(e, n + 1), Sound(s, n)
    PROVE  Append(s, e) \in Seq(Lines) /\ Sound(Append(s, e), n + 1)
<1> DEFINE t == Append(s, e)
<1>0. Append(s, e) \in Seq(Lines)
  BY DEF Lines
<1>1. /\ Len(s) \in Nat /\ DOMAIN s = 1 .. Len(s) /\ DOMAIN t = 1 .. (Len(s) + 1)
      /\ t[Len(s) + 1] = e
      /\ \A i \in 1 .. Len(s) : t[i] = s[i]
  OBVIOUS
<1> HIDE DEF t
<1>2. Sound(s, n + 1)
  BY SoundLater
<1>3. ASSUME NEW i \in DOMAIN t PROVE (t[i] \in Entry => Proper(t[i], n + 1)) /\ (i > 1 => t[i] # Header)
  <2>1. CASE i \in 1 .. Len(s)
    BY <1>1, <1>2, <2>1 DEF Sound
  <2>2. CASE i = Len(s) + 1
    BY <1>1, <2>2, EntryNumbers
  <2> QED
    BY <1>1, <2>1, <2>2
<1>4. ASSUME NEW i \in DOMAIN t, NEW j \in DOMAIN t, t[i] \in Entry, t[j] \in Entry, i < j
      PROVE  t[i].id < t[j].id
  <2>1. i \in DOMAIN s /\ t[i] = s[i]
    BY <1>1, <1>4
  <2>2. CASE j \in 1 .. Len(s)
    BY <1>1, <1>4, <2>1, <2>2 DEF Sound
  <2>3. CASE j = Len(s) + 1
    BY <1>1, <1>4, <2>1, <2>3 DEF Sound, Proper
  <2> QED
    BY <1>1, <2>2, <2>3
<1>5. Sound(t, n + 1)
  BY <1>3, <1>4 DEF Sound
<1> QED
  BY <1>0, <1>5 DEF t

(* A line that does not parse disturbs nothing.                            *)
LEMMA SoundJunk ==
    ASSUME NEW s \in Seq(Lines), NEW n, Sound(s, n)
    PROVE  Append(s, Junk) \in Seq(Lines) /\ Sound(Append(s, Junk), n)
<1> DEFINE t == Append(s, Junk)
<1>0. t \in Seq(Lines)
  BY DEF Lines
<1>1. /\ Len(s) \in Nat /\ DOMAIN s = 1 .. Len(s) /\ DOMAIN t = 1 .. (Len(s) + 1)
      /\ t[Len(s) + 1] = Junk
      /\ \A i \in 1 .. Len(s) : t[i] = s[i]
  OBVIOUS
<1>2. Junk \notin Entry /\ Junk # Header
  BY EntryNumbers DEF Junk, Header, Line
<1> HIDE DEF t
<1>3. \A i \in DOMAIN t : t[i] # Junk => i \in DOMAIN s /\ t[i] = s[i]
  BY <1>1
<1>4. Sound(t, n)
  BY <1>2, <1>3 DEF Sound
<1> QED
  BY <1>0, <1>4 DEF t

(* Writing entries behind a header.                                        *)
LEMMA SoundRewritten ==
    ASSUME NEW es \in Seq(Entry), NEW n, Sound(es, n)
    PROVE  <<Header>> \o es \in Seq(Lines) /\ Sound(<<Header>> \o es, n)
<1> DEFINE t == <<Header>> \o es
<1>0. t \in Seq(Lines)
  BY DEF Lines
<1>1. /\ Len(es) \in Nat /\ DOMAIN es = 1 .. Len(es) /\ DOMAIN t = 1 .. (Len(es) + 1)
      /\ t[1] = Header
      /\ \A i \in 2 .. Len(es) + 1 : t[i] = es[i - 1] /\ i - 1 \in DOMAIN es
  OBVIOUS
<1>2. \A i \in 1 .. Len(es) : es[i] \in Entry /\ es[i] # Header
  BY EntryNumbers
<1>3. Header \notin Entry
  BY EntryNumbers
<1> HIDE DEF t
<1>4. ASSUME NEW i \in DOMAIN t PROVE (t[i] \in Entry => Proper(t[i], n)) /\ (i > 1 => t[i] # Header)
  BY <1>1, <1>2, <1>3 DEF Sound
<1>5. ASSUME NEW i \in DOMAIN t, NEW j \in DOMAIN t, t[i] \in Entry, t[j] \in Entry, i < j
      PROVE  t[i].id < t[j].id
  <2>1. i \in 2 .. Len(es) + 1 /\ j \in 2 .. Len(es) + 1 /\ i - 1 < j - 1
    BY <1>1, <1>3, <1>5
  <2> QED
    BY <1>1, <1>2, <2>1 DEF Sound
<1>6. Sound(t, n)
  BY <1>4, <1>5 DEF Sound
<1> QED
  BY <1>0, <1>6 DEF t
-----------------------------------------------------------------------------
(* Loading a file.                                                         *)

(* What parses is the header and the entries.                              *)
LEMMA ParsedLines ==
    ASSUME NEW d, d.lines \in Seq(Lines)
    PROVE  /\ Parsed(d) = Keep(d.lines, Entry \cup {Header})
           /\ Parsed(d) \in Seq(Entry \cup {Header})
<1> DEFINE s == d.lines
           S == ToSet(s) \ {Junk}
           R == Entry \cup {Header}
<1>1. Junk \notin R
  BY EntryNumbers DEF Junk, Header, Line
<1>2. \A i \in 1 .. Len(s) : s[i] \in Lines /\ s[i] \in ToSet(s)
  BY DEF ToSet
<1>3. KeptAt(s, S) = KeptAt(s, R)
  BY <1>1, <1>2 DEF KeptAt, Lines
<1>4. Keep(s, S) = Keep(s, R)
  <2> HIDE DEF S, R
  <2> QED
    BY <1>3, KeepSame
<1> DEFINE k == Keep(s, R)
<1>5. k \in Seq(Lines) /\ ToSet(k) = ToSet(s) \cap R
  <2> HIDE DEF R
  <2> QED
    BY KeepMembers
<1> HIDE DEF k
<1>6. \A i \in 1 .. Len(k) : k[i] \in R
  BY <1>5 DEF ToSet
<1>7. k \in Seq(R)
  <2> HIDE DEF R
  <2> QED
    BY <1>5, <1>6
<1> QED
  BY <1>4, <1>7 DEF Parsed, k

(* What is loaded depends on the lines alone.                              *)
LEMMA SameLines ==
    ASSUME NEW d, NEW c, d.lines = c.lines
    PROVE  LoadEntries(d) = LoadEntries(c) /\ (HasHeader(d) <=> HasHeader(c))
BY DEF LoadEntries, HasHeader, Parsed

(* loadEntriesFromFile gives entries in the order they were made.          *)
LEMMA LoadedSound ==
    ASSUME NEW d, d.lines \in Seq(Lines), NEW n, Sound(d.lines, n)
    PROVE  LoadEntries(d) \in Seq(Entry) /\ Sound(LoadEntries(d), n)
<1> DEFINE p == Parsed(d)
<1>1. p \in Seq(Entry \cup {Header}) /\ Sound(p, n)
  BY ParsedLines, SoundKept
<1> HIDE DEF p
<1>2. CASE HasHeader(d)
  <2> DEFINE t == Tail(p)
  <2>0. p # <<>>
    BY <1>2 DEF HasHeader, p
  <2>1. /\ Len(p) \in Nat /\ Len(p) > 0 /\ DOMAIN p = 1 .. Len(p)
        /\ Len(t) = Len(p) - 1 /\ DOMAIN t = 1 .. (Len(p) - 1)
        /\ \A i \in 1 .. (Len(p) - 1) : t[i] = p[i + 1] /\ i + 1 \in DOMAIN p /\ i + 1 > 1
    BY <1>1, <2>0
  <2>2. \A i \in 1 .. (Len(p) - 1) : t[i] \in Entry
    BY <1>1, <2>1 DEF Sound
  <2>t. t \in Seq(Entry \cup {Header})
    BY <1>1, <2>0
  <2> HIDE DEF t
  <2>3. t \in Seq(Entry)
    BY <2>t, <2>1, <2>2
  <2>4. Header \notin Entry
    BY EntryNumbers
  <2>5. \A i \in DOMAIN t : Proper(t[i], n) /\ t[i] # Header
    BY <1>1, <2>1, <2>2, <2>4 DEF Sound
  <2>6. ASSUME NEW i \in DOMAIN t, NEW j \in DOMAIN t, i < j PROVE t[i].id < t[j].id
    <3>1. i + 1 \in DOMAIN p /\ j + 1 \in DOMAIN p /\ i + 1 < j + 1 /\ t[i] = p[i + 1] /\ t[j] = p[j + 1]
      BY <2>1, <2>6
    <3> QED
      BY <1>1, <2>1, <2>2, <3>1 DEF Sound
  <2>7. Sound(t, n)
    BY <2>5, <2>6 DEF Sound
  <2> QED
    BY <1>2, <2>3, <2>7 DEF LoadEntries, t, p
<1>3. CASE ~HasHeader(d)
  <2>1. LoadEntries(d) = <<>>
    BY <1>3 DEF LoadEntries
  <2> QED
    BY <2>1 DEF Sound
<1> QED
  BY <1>2, <1>3

(* A file just written is read back as it was written.                     *)
LEMMA LoadRewritten ==
    ASSUME NEW d, NEW es \in Seq(Entry), d.lines = <<Header>> \o es
    PROVE  HasHeader(d) /\ LoadEntries(d) = es
<1> DEFINE s == <<Header>> \o es
           R == Entry \cup {Header}
<1>1. s \in Seq(Lines) /\ s \in Seq(R)
  BY DEF Lines
<1>2. \A i \in 1 .. Len(s) : s[i] \in R
  BY <1>1
<1>3. Keep(s, R) = s
  <2> HIDE DEF s, R
  <2> QED
    BY <1>1, <1>2, KeepAll
<1>4. Parsed(d) = s
  BY <1>1, <1>3, ParsedLines
<1>5. s # <<>> /\ s[1] = Header /\ Tail(s) = es
  OBVIOUS
<1> HIDE DEF s
<1> QED
  BY <1>4, <1>5 DEF HasHeader, LoadEntries

(* A line appended to the file is an entry appended to what is loaded.     *)
LEMMA LoadAppended ==
    ASSUME NEW d, NEW c, d.lines \in Seq(Lines), NEW e \in Entry, c.lines = Append(d.lines, e)
    PROVE  /\ HasHeader(d) => HasHeader(c) /\ LoadEntries(c) = Append(LoadEntries(d), e)
           /\ IdsOf(LoadEntries(d)) \subseteq IdsOf(LoadEntries(c))
<1> DEFINE s == d.lines
           R == Entry \cup {Header}
           p == Parsed(d)
           q == Parsed(c)
<1>1. p = Keep(s, R) /\ p \in Seq(R)
  BY ParsedLines
<1>2. q = Keep(Append(s, e), R)
  <2>1. c.lines \in Seq(Lines)
    BY DEF Lines
  <2> QED
    BY <2>1, ParsedLines
<1>3. e \in Lines /\ e \in R
  BY DEF Lines
<1>4. q = Append(p, e)
  <2> HIDE DEF R, p, q
  <2> QED
    BY <1>1, <1>2, <1>3, KeepAppend
<1> HIDE DEF p, q
<1>5. ASSUME HasHeader(d) PROVE HasHeader(c) /\ LoadEntries(c) = Append(LoadEntries(d), e)
  <2>1. p # <<>> /\ p[1] = Header
    BY <1>5 DEF HasHeader, p
  <2>2. q # <<>> /\ q[1] = Header /\ Tail(q) = Append(Tail(p), e)
    <3>1. Len(p) \in Nat /\ Len(p) > 0 /\ Len(q) = Len(p) + 1
      BY <1>1, <1>3, <1>4, <2>1
    <3>2. Tail(q) = Append(Tail(p), e)
      BY <1>1, <1>3, <1>4, <2>1, HeadTailAppend
    <3>3. 1 \in 1 .. Len(p) /\ q[1] = p[1]
      BY <1>1, <1>3, <1>4, <3>1
    <3>4. q # <<>>
      BY <3>1
    <3> QED
      BY <2>1, <3>2, <3>3, <3>4
  <2> QED
    BY <2>1, <2>2 DEF HasHeader, LoadEntries, p, q
<1>6. CASE HasHeader(d)
  <2> DEFINE l == LoadEntries(d)
  <2>1. l \in Seq(R)
    BY <1>1, <1>6 DEF LoadEntries, HasHeader, p
  <2> HIDE DEF l
  <2>2. \A i \in DOMAIN l : i \in DOMAIN Append(l, e) /\ Append(l, e)[i] = l[i]
    BY <2>1, <1>3
  <2>3. IdsOf(l) \subseteq IdsOf(Append(l, e))
    BY <2>2 DEF IdsOf
  <2> QED
    BY <1>5, <1>6, <2>3 DEF l
<1>7. CASE ~HasHeader(d)
  <2>1. LoadEntries(d) = <<>> /\ DOMAIN <<>> = {}
    BY <1>7 DEF LoadEntries
  <2>2. IdsOf(<<>>) = {}
    BY <2>1 DEF IdsOf
  <2>3. IdsOf(LoadEntries(d)) = {}
    BY <2>1, <2>2, Zenon
  <2> QED
    BY <1>5, <2>3
<1> QED
  BY <1>5, <1>6, <1>7

(* A broken line is skipped.                                               *)
LEMMA LoadJunk ==
    ASSUME NEW d, NEW c, d.lines \in Seq(Lines), c.lines = Append(d.lines, Junk)
    PROVE  LoadEntries(c) = LoadEntries(d) /\ (HasHeader(c) <=> HasHeader(d))
<1> DEFINE s == d.lines
           R == Entry \cup {Header}
<1>1. Junk \in Lines /\ Junk \notin R
  BY EntryNumbers DEF Junk, Header, Line, Lines
<1>2. c.lines \in Seq(Lines)
  BY <1>1
<1>3. Parsed(d) = Keep(s, R) /\ Parsed(c) = Keep(Append(s, Junk), R)
  BY <1>2, ParsedLines
<1>4. Parsed(c) = Parsed(d)
  <2> HIDE DEF R
  <2> QED
    BY <1>1, <1>3, KeepAppend
<1> QED
  BY <1>4 DEF LoadEntries, HasHeader

(* repairJsonlDamage leaves what a load gives and a sound file.            *)
LEMMA Repaired ==
    ASSUME NEW d, d.lines \in Seq(Lines), NEW n, Sound(d.lines, n),
           d \in [exists : BOOLEAN, lines : Seq(Lines), tail : {"clean", "cut", "whole"}]
    PROVE  /\ Repair(d) \in [exists : BOOLEAN, lines : Seq(Lines), tail : {"clean", "cut", "whole"}]
           /\ Repair(d).tail = "clean" /\ Repair(d).exists = d.exists
           /\ Sound(Repair(d).lines, n)
           /\ LoadEntries(Repair(d)) = LoadEntries(d) /\ (HasHeader(Repair(d)) <=> HasHeader(d))
<1> DEFINE s == d.lines
           k == Len(s)
           r == Repair(d)
<1>0. k \in Nat
  OBVIOUS
<1>1. CASE d.tail = "clean" /\ k > 0 /\ s[k] = Junk
  <2>1. r = [d EXCEPT !.tail = "clean", !.lines = Front(s)]
    BY <1>1 DEF Repair
  <2>2. Front(s) = SubSeq(s, 1, k - 1) /\ k - 1 \in 0 .. Len(s)
    BY <1>0, <1>1 DEF Front
  <2>3. Front(s) \in Seq(Lines) /\ Sound(Front(s), n)
    BY <2>2, SoundPrefix
  <2>4. s = Append(Front(s), Junk)
    BY <1>0, <1>1, <2>2
  <2>5. r.lines = Front(s) /\ r.tail = "clean" /\ r.exists = d.exists
    BY <2>1
  <2>6. r \in [exists : BOOLEAN, lines : Seq(Lines), tail : {"clean", "cut", "whole"}]
    BY <2>1, <2>3
  <2> HIDE DEF r
  <2>7. LoadEntries(d) = LoadEntries(r) /\ (HasHeader(d) <=> HasHeader(r))
    BY <2>3, <2>4, <2>5, LoadJunk
  <2> QED
    BY <2>3, <2>5, <2>6, <2>7 DEF r
<1>2. CASE ~(d.tail = "clean" /\ k > 0 /\ s[k] = Junk)
  <2>1. r = [d EXCEPT !.tail = "clean", !.lines = s]
    BY <1>2 DEF Repair
  <2>2. r.lines = s /\ r.tail = "clean" /\ r.exists = d.exists
    BY <2>1
  <2>3. r \in [exists : BOOLEAN, lines : Seq(Lines), tail : {"clean", "cut", "whole"}]
    BY <2>1
  <2> HIDE DEF r
  <2>4. LoadEntries(r) = LoadEntries(d) /\ (HasHeader(r) <=> HasHeader(d))
    BY <2>2, SameLines
  <2> QED
    BY <2>2, <2>3, <2>4 DEF r
<1> QED
  BY <1>1, <1>2
-----------------------------------------------------------------------------
(* Branches, clones and forks.                                             *)

(* A branch consists of entries of the tree, in the order they were made.  *)
LEMMA BranchSound ==
    ASSUME NEW es \in Seq(Entry), NEW n, Sound(es, n), NEW i \in Nat
    PROVE  /\ GetBranch(es, i) \in Seq(Entry) /\ Sound(GetBranch(es, i), n)
           /\ \A k \in DOMAIN GetBranch(es, i) : GetBranch(es, i)[k].id <= i /\ GetBranch(es, i)[k].id \in IdsOf(es)
<1> DEFINE b(j) == GetBranch(es, j)
           P(j) == Sound(b(j), n) /\ \A k \in DOMAIN b(j) : b(j)[k].id <= j /\ b(j)[k].id \in IdsOf(es)
           B == {j \in Nat : ~P(j)}
<1>1. SUFFICES ASSUME B # {} PROVE FALSE
  BY BranchUnfolds
<1>2. PICK j \in B : \A k \in B : j <= k
  <2>1. B \subseteq Nat
    OBVIOUS
  <2> HIDE DEF B
  <2> QED
    BY <1>1, <2>1, LeastNumber
<1>3. j \in Nat /\ ~P(j) /\ b(j) \in Seq(Entry)
  BY BranchUnfolds
<1>4. j \in IdsOf(es)
  <2> SUFFICES ASSUME j \notin IdsOf(es) PROVE FALSE
    OBVIOUS
  <2>1. b(j) = <<>> /\ DOMAIN <<>> = {}
    BY <1>3, BranchUnfolds
  <2> HIDE DEF b
  <2> QED
    BY <1>3, <2>1 DEF Sound
<1> DEFINE e == EntryOf(es, j)
           p == e.parent
           c == b(p)
<1>5. e \in Entry /\ e.id = j /\ p \in Nat /\ Proper(e, n) /\ p < j
  <2>1. PICK k \in DOMAIN es : es[k] = e /\ e \in Entry /\ e.id = j
    BY <1>4, EntryFound
  <2>2. Proper(e, n)
    BY <2>1 DEF Sound
  <2> QED
    BY <2>1, <2>2, EntryNumbers DEF Proper
<1>6. b(j) = Append(c, e) /\ c \in Seq(Entry)
  BY <1>3, <1>4, <1>5, BranchUnfolds
<1>7. P(p)
  <2>1. ~(j <= p)
    BY <1>3, <1>5
  <2> HIDE DEF P
  <2> QED
    BY <1>2, <1>5, <2>1
<1>8. Sound(c, n) /\ \A k \in DOMAIN c : c[k].id <= p /\ c[k].id \in IdsOf(es)
  BY <1>7
<1> DEFINE t == b(j)
<1> HIDE DEF b, e, p, c
<1>9. /\ Len(c) \in Nat /\ DOMAIN c = 1 .. Len(c) /\ DOMAIN t = 1 .. (Len(c) + 1)
      /\ t[Len(c) + 1] = e /\ \A k \in 1 .. Len(c) : t[k] = c[k] /\ c[k] \in Entry
  BY <1>5, <1>6
<1> HIDE DEF t
<1>10. \A k \in 1 .. Len(c) : t[k].id \in Nat /\ t[k].id < j /\ t[k].id \in IdsOf(es)
  BY <1>3, <1>5, <1>8, <1>9, EntryNumbers
<1>11. \A k \in DOMAIN t : t[k].id <= j /\ t[k].id \in IdsOf(es)
  BY <1>3, <1>4, <1>5, <1>9, <1>10
<1>12. ASSUME NEW k \in DOMAIN t PROVE Proper(t[k], n) /\ t[k] # Header
  <2>1. CASE k \in 1 .. Len(c)
    BY <1>8, <1>9, <2>1, EntryNumbers DEF Sound
  <2>2. CASE k = Len(c) + 1
    BY <1>5, <1>9, <2>2, EntryNumbers
  <2> QED
    BY <1>9, <2>1, <2>2
<1>13. ASSUME NEW k \in DOMAIN t, NEW l \in DOMAIN t, k < l PROVE t[k].id < t[l].id
  <2>1. k \in 1 .. Len(c)
    BY <1>9, <1>13
  <2>2. CASE l \in 1 .. Len(c)
    BY <1>8, <1>9, <1>13, <2>1, <2>2 DEF Sound
  <2>3. CASE l = Len(c) + 1
    BY <1>5, <1>9, <1>10, <2>1, <2>3
  <2> QED
    BY <1>9, <2>2, <2>3
<1>14. Sound(t, n)
  BY <1>12, <1>13 DEF Sound
<1> QED
  BY <1>3, <1>11, <1>14 DEF t, b

(* w holds the entries of es that are not of the kind, and no others.      *)
LeavesOut(w, es, kind) ==
    /\ \A k \in DOMAIN w : w[k].kind # kind /\ \E i \in DOMAIN es : es[i] = w[k]
    /\ \A i \in DOMAIN es : es[i].kind # kind => \E k \in DOMAIN w : w[k] = es[i]

(* Leaving out the entries of a kind.                                      *)
LEMMA WithoutSound ==
    ASSUME NEW es \in Seq(Entry), NEW kind, NEW n, Sound(es, n)
    PROVE  /\ Without(es, kind) \in Seq(Entry)
           /\ Sound(Without(es, kind), n)
           /\ LeavesOut(Without(es, kind), es, kind)
<1> DEFINE S == {e \in ToSet(es) : e.kind # kind}
           w == Keep(es, S)
<1>1. es \in Seq(Lines)
  BY DEF Lines
<1>2. w \in Seq(Entry) /\ ToSet(w) = ToSet(es) \cap S /\ Sound(w, n)
  <2> HIDE DEF S
  <2> QED
    BY <1>1, KeepMembers, SoundKept
<1>3. ToSet(w) = S
  BY <1>2
<1> HIDE DEF w
<1>4. \A k \in DOMAIN w : w[k] \in S
  BY <1>2, <1>3 DEF ToSet
<1>5. \A e \in S : \E k \in DOMAIN w : w[k] = e
  BY <1>2, <1>3 DEF ToSet
<1>6. \A i \in DOMAIN es : es[i].kind # kind => es[i] \in S
  BY DEF ToSet
<1>7. \A e \in S : e.kind # kind /\ \E i \in DOMAIN es : es[i] = e
  BY DEF ToSet
<1>8. Without(es, kind) = w
  BY DEF Without, w
<1> HIDE DEF S
<1>9. LeavesOut(w, es, kind)
  BY <1>4, <1>5, <1>6, <1>7 DEF LeavesOut
<1> QED
  BY <1>2, <1>8, <1>9

(* Only entries have labels (_buildIndex).                                 *)
LEMMA LabelsAreIds ==
    ASSUME NEW es \in Seq(Entry), NEW n, Sound(es, n)
    PROVE  LabelsOf(es) \subseteq Id
<1> SUFFICES ASSUME NEW t \in LabelsOf(es) PROVE t \in Id
  OBVIOUS
<1>1. PICK i \in DOMAIN es : es[i].kind = "label" /\ t = es[i].ref
  BY DEF LabelsOf
<1>2. es[i] \in Entry /\ es[i].ref # Root /\ es[i].ref \in Id \cup {Root}
  BY <1>1, EntryNumbers DEF Sound, Proper
<1> QED
  BY <1>1, <1>2

(* The last entry is the leaf (_buildIndex).                               *)
LEMMA LeafSound ==
    ASSUME NEW es \in Seq(Entry), NEW n \in Nat, n > 0, Sound(es, n)
    PROVE  LeafOf(es) \in Id \cup {Root} /\ LeafOf(es) < n
<1>1. CASE es = <<>>
  BY <1>1 DEF LeafOf, Root
<1>2. CASE es # <<>>
  <2>1. Len(es) \in DOMAIN es /\ es[Len(es)] \in Entry /\ LeafOf(es) = es[Len(es)].id
    BY <1>2 DEF LeafOf
  <2> QED
    BY <2>1, EntryNumbers DEF Sound, Proper
<1> QED
  BY <1>1, <1>2
(* The path a clone copies.                                                *)
LEMMA PathSound ==
    ASSUME TypeOK, Sound(entries, nextId), NEW at \in Nat
    PROVE  PathTo(at) \in Seq(Entry) /\ Sound(PathTo(at), nextId)
<1>1. entries \in Seq(Entry)
  BY DEF TypeOK
<1>2. GetBranch(entries, at) \in Seq(Entry) /\ Sound(GetBranch(entries, at), nextId)
  BY <1>1, BranchSound
<1> HIDE DEF TypeOK
<1> QED
  BY <1>2, WithoutSound DEF PathTo

(* A clone writes at most one label entry for each label.                  *)
LEMMA LabelCount ==
    ASSUME TypeOK, NEW path \in Seq(Entry), Sound(path, nextId)
    PROVE  /\ LabelEntries(path) = [i \in 1 .. Len(Keep(Ids(path), labels)) |-> LabelEntries(path)[i]]
           /\ Len(Keep(Ids(path), labels)) \in Nat
           /\ Len(Keep(Ids(path), labels)) <= Cardinality(labels) /\ Cardinality(labels) \in Nat
           /\ \A i \in 1 .. Len(Keep(Ids(path), labels)) : Keep(Ids(path), labels)[i] \in labels
<1> DEFINE ids == Ids(path)
           ts == Keep(ids, labels)
<1>1. ids \in Seq(Id)
  <2>1. \A i \in 1 .. Len(path) : path[i].id \in Id
    BY EntryNumbers
  <2> QED
    BY <2>1 DEF Ids
<1>2. IsInjective(ids)
  <2>1. ASSUME NEW i \in DOMAIN path, NEW j \in DOMAIN path, path[i].id = path[j].id PROVE i = j
    <3>1. ~(i < j) /\ ~(j < i)
      BY <2>1, EntryNumbers DEF Sound
    <3> QED
      BY <3>1
  <2> QED
    BY <2>1 DEF Ids, IsInjective
<1> HIDE DEF ids
<1>3. ts \in Seq(Id) /\ ToSet(ts) = ToSet(ids) \cap labels /\ IsInjective(ts)
  BY <1>1, <1>2, KeepMembers
<1>4. \A i \in 1 .. Len(ts) : ts[i] \in labels
  <2> HIDE DEF ts
  <2> QED
    BY <1>3 DEF ToSet
<1>5. IsFiniteSet(labels) /\ Cardinality(labels) \in Nat
  <2>0. 1 \in Int /\ MaxEntries \in Int
    BY SessionTreeAssumption
  <2>1. labels \in SUBSET Id /\ IsFiniteSet(Id)
    BY <2>0, FS_Interval DEF TypeOK, Id
  <2> QED
    BY <2>1, FS_Subset, FS_CardinalityType
<1>6. Len(ts) \in Nat /\ Len(ts) <= Cardinality(labels)
  <2> HIDE DEF ts
  <2>0. Len(ts) \in Nat /\ DOMAIN ts = 1 .. Len(ts)
    BY <1>3
  <2>1. ts \in [1 .. Len(ts) -> labels]
    BY <1>3, <1>4
  <2>2. ts \in Injection(1 .. Len(ts), labels)
    BY <1>3, <2>1 DEF Injection, IsInjective
  <2>3. Cardinality(1 .. Len(ts)) <= Cardinality(labels)
    BY <1>5, <2>2, FS_Injection
  <2>4. Cardinality(1 .. Len(ts)) = Len(ts)
    <3>1. \A c \in Nat : Cardinality(1 .. c) = c
      BY FS_Interval
    <3> QED
      BY <2>0, <3>1
  <2> QED
    BY <2>0, <2>3, <2>4
<1>7. DOMAIN ts = 1 .. Len(ts)
  BY <1>3
<1>8. LabelEntries(path) = [i \in 1 .. Len(ts) |-> LabelEntries(path)[i]]
  BY <1>7 DEF LabelEntries, ids
<1> QED
  BY <1>4, <1>5, <1>6, <1>8 DEF ids

(* createBranchedSession makes a sound session, its labels numbered anew.  *)
LEMMA BranchedSound ==
    ASSUME TypeOK, Sound(entries, nextId), NEW at \in Nat,
           nextId + Cardinality(labels) <= MaxEntries + 1
    PROVE  /\ BranchedEntries(at) \in Seq(Entry)
           /\ nextId + Len(LabelEntries(PathTo(at))) \in 1 .. MaxEntries + 1
           /\ nextId <= nextId + Len(LabelEntries(PathTo(at)))
           /\ Sound(BranchedEntries(at), nextId + Len(LabelEntries(PathTo(at))))
<1> DEFINE path == PathTo(at)
           ls == LabelEntries(path)
           ts == Keep(Ids(path), labels)
           k == Len(path)
           m == Len(ts)
           n == nextId
           es == path \o ls
<1>1. path \in Seq(Entry) /\ Sound(path, n) /\ k \in Nat
  BY PathSound
<1> HIDE DEF path
<1>2. /\ m \in Nat /\ m <= Cardinality(labels) /\ Cardinality(labels) \in Nat
      /\ \A i \in 1 .. m : ts[i] \in labels
      /\ ls = [i \in 1 .. m |-> ls[i]]
  BY <1>1, LabelCount
<1>3. n \in Nat /\ n > 0 /\ MaxEntries \in Nat /\ n + m <= MaxEntries + 1
  BY <1>2, SessionTreeAssumption DEF TypeOK
<1>4. LeafOf(path) \in Id \cup {Root} /\ LeafOf(path) < n
  BY <1>1, <1>3, LeafSound
<1>d. DOMAIN ts = 1 .. m
  BY <1>1, <1>2, KeepIndices DEF Ids
<1>5. \A i \in 1 .. m :
        ls[i] = [id |-> n + i - 1, parent |-> IF i = 1 THEN LeafOf(path) ELSE n + i - 2,
                 kind |-> "label", ref |-> ts[i], on |-> TRUE]
  BY <1>d DEF LabelEntries
<1> HIDE DEF ls, ts, m
<1>6. ASSUME NEW i \in 1 .. m
      PROVE  ls[i] \in Entry /\ Proper(ls[i], n + m) /\ ls[i].id = n + i - 1
  <2>1. n + i - 1 \in Id /\ (i # 1 => n + i - 2 \in Id)
    BY <1>2, <1>3 DEF Id
  <2>2. ts[i] \in Id /\ ts[i] # Root
    BY <1>2, <1>3 DEF TypeOK, Id, Root
  <2> DEFINE q == IF i = 1 THEN LeafOf(path) ELSE n + i - 2
             d == n + i - 1
  <2>a. q \in Id \cup {Root} /\ d \in Id
    BY <1>4, <2>1
  <2>b. ls[i] = [id |-> d, parent |-> q, kind |-> "label", ref |-> ts[i], on |-> TRUE]
    BY <1>5
  <2>q. q = (IF i = 1 THEN LeafOf(path) ELSE n + i - 2) /\ d = n + i - 1
    OBVIOUS
  <2> HIDE DEF q, d
  <2>3. ls[i] \in Entry
    BY <2>a, <2>b, <2>2 DEF Entry
  <2>c. ls[i].id = d /\ ls[i].parent = q /\ ls[i].ref = ts[i]
    BY <2>b
  <2>4. /\ ls[i].id = n + i - 1 /\ ls[i].parent = (IF i = 1 THEN LeafOf(path) ELSE n + i - 2)
        /\ ls[i].ref = ts[i]
    BY <2>c, <2>q
  <2>5. LeafOf(path) \in Nat
    BY <1>3, <1>4 DEF Id, Root
  <2>6. ls[i].parent < ls[i].id /\ ls[i].id < n + m
    BY <1>2, <1>3, <1>4, <2>4, <2>5
  <2> QED
    BY <2>2, <2>3, <2>4, <2>6 DEF Proper
<1>7. ls \in Seq(Entry) /\ Len(ls) = m
  BY <1>2, <1>6
<1>8. /\ es \in Seq(Entry) /\ DOMAIN es = 1 .. (k + m)
      /\ \A i \in 1 .. k : es[i] = path[i] /\ i \in DOMAIN path
      /\ \A i \in k + 1 .. k + m : es[i] = ls[i - k] /\ i - k \in 1 .. m
  BY <1>1, <1>2, <1>7
<1> HIDE DEF es
<1>9. Sound(path, n + m)
  <2>1. path \in Seq(Lines)
    BY <1>1 DEF Lines
  <2> QED
    BY <1>1, <1>2, <1>3, <2>1, SoundLater
<1>10. ASSUME NEW i \in DOMAIN es PROVE Proper(es[i], n + m) /\ es[i] # Header
  <2>1. CASE i \in 1 .. k
    BY <1>1, <1>8, <1>9, <2>1, EntryNumbers DEF Sound
  <2>2. CASE i \in k + 1 .. k + m
    BY <1>6, <1>8, <2>2, EntryNumbers
  <2> QED
    BY <1>1, <1>2, <1>8, <2>1, <2>2
<1>11. ASSUME NEW i \in DOMAIN es, NEW j \in DOMAIN es, i < j PROVE es[i].id < es[j].id
  <2>1. CASE j \in 1 .. k
    BY <1>1, <1>8, <1>11, <2>1 DEF Sound
  <2>2. CASE i \in 1 .. k /\ j \in k + 1 .. k + m
    <3>1. es[i].id \in Nat /\ es[i].id < n
      BY <1>1, <1>8, <2>2, EntryNumbers DEF Sound, Proper
    <3>2. j - k \in 1 .. m /\ es[j].id = n + (j - k) - 1
      BY <1>6, <1>8, <2>2
    <3> QED
      BY <1>1, <1>2, <1>3, <3>1, <3>2
  <2>3. CASE i \in k + 1 .. k + m /\ j \in k + 1 .. k + m
    <3>1. i - k \in 1 .. m /\ j - k \in 1 .. m /\ es[i].id = n + (i - k) - 1 /\ es[j].id = n + (j - k) - 1
      BY <1>6, <1>8, <2>3
    <3>2. i \in Nat /\ j \in Nat
      BY <1>1, <1>2, <1>8
    <3> QED
      BY <1>1, <1>3, <1>11, <3>1, <3>2
  <2> QED
    BY <1>1, <1>2, <1>8, <1>11, <2>1, <2>2, <2>3
<1>12. Sound(es, n + m)
  BY <1>10, <1>11 DEF Sound
<1>13. BranchedEntries(at) = es
  BY DEF BranchedEntries, es, ls, path
<1>14. nextId + Len(LabelEntries(PathTo(at))) = n + m
  BY <1>7 DEF ls, path
<1> QED
  BY <1>2, <1>3, <1>8, <1>12, <1>13, <1>14
(* forkFrom's liveParent, as a function.                                   *)
Dropped(es) == {i \in IdsOf(es) : EntryOf(es, i).kind = "git"}
IsLive(live, es) ==
    /\ live \in [Nat -> Nat]
    /\ \A i \in Nat : live[i] = IF i \in Dropped(es) THEN live[EntryOf(es, i).parent] ELSE i
    /\ \A i \in Nat : live[i] <= i

(* A fork is its source without the git entries, each entry linked to the  *)
(* nearest ancestor that is left.                                          *)
LEMMA ForkShape ==
    ASSUME NEW es \in Seq(Entry), NEW n, Sound(es, n)
    PROVE  \E live : /\ IsLive(live, es)
                     /\ ForkEntries(es) = [i \in DOMAIN Without(es, "git") |->
                          [Without(es, "git")[i] EXCEPT !.parent = live[@]]]
<1> DEFINE D == Dropped(es)
           par == [i \in D |-> EntryOf(es, i).parent]
           base == [i \in Nat |-> i]
           step == [i \in D |-> [v \in Nat |-> v]]
<1>1. D \subseteq Nat /\ \A i \in D : EntryOf(es, i).parent \in Nat /\ EntryOf(es, i).parent < i
  <2>1. ASSUME NEW i \in D PROVE i \in Nat /\ EntryOf(es, i).parent \in Nat /\ EntryOf(es, i).parent < i
    <3>1. i \in IdsOf(es)
      BY DEF Dropped
    <3>2. PICK k \in DOMAIN es : es[k] = EntryOf(es, i) /\ es[k].id = i /\ es[k] \in Entry
      BY <3>1, EntryFound
    <3>3. es[k].parent < es[k].id
      BY <3>2 DEF Sound, Proper
    <3> QED
      BY <3>2, <3>3, EntryNumbers
  <2> QED
    BY <2>1
<1> HIDE DEF D
<1>2. par \in [D -> Nat] /\ \A i \in D : par[i] < i
  BY <1>1
<1>3. base \in [Nat -> Nat] /\ step \in [D -> [Nat -> Nat]]
  OBVIOUS
<1> HIDE DEF par, base, step
<1>4. PICK w \in [Nat -> Nat] : \A i \in Nat : w[i] = IF i \in D THEN step[i][w[par[i]]] ELSE base[i]
  <2>1. Descends(Nat, D, par, base, step)
    BY <1>1, <1>2, <1>3 DEF Descends
  <2>2. \E w \in [Nat -> Nat] : Computes(w, D, par, base, step)
    BY <2>1, DescentExists, Zenon
  <2> QED
    BY <2>2 DEF Computes
<1> DEFINE F(g) == [i \in Nat |-> IF i \in IdsOf(es) /\ EntryOf(es, i).kind = "git"
                                  THEN g[EntryOf(es, i).parent] ELSE i]
           live == CHOOSE g : g = F(g)
<1>5. \A i \in Nat : w[i] = F(w)[i]
  <2> TAKE i \in Nat
  <2>1. CASE i \in D
    <3>1. par[i] \in Nat /\ w[par[i]] \in Nat
      BY <1>2, <2>1
    <3> QED
      BY <1>4, <2>1, <3>1 DEF D, Dropped, par, step
  <2>2. CASE i \notin D
    BY <1>4, <2>2 DEF D, Dropped, base
  <2> QED
    BY <2>1, <2>2
<1>6. live = F(live)
  <2>1. w = F(w)
    BY <1>5
  <2> HIDE DEF F
  <2> QED
    BY <2>1
<1>7. ForkEntries(es) = [i \in DOMAIN Without(es, "git") |-> [Without(es, "git")[i] EXCEPT !.parent = live[@]]]
  BY DEF ForkEntries
<1> HIDE DEF live
<1>8. \A i \in Nat : live[i] = IF i \in D THEN live[EntryOf(es, i).parent] ELSE i
  BY <1>6 DEF D, Dropped
<1> HIDE DEF F
<1>9. \A i \in Nat : live[i] \in Nat /\ live[i] <= i
  <2> DEFINE B == {i \in Nat : ~(live[i] \in Nat /\ live[i] <= i)}
  <2>1. SUFFICES ASSUME B # {} PROVE FALSE
    OBVIOUS
  <2>0. B \subseteq Nat /\ \A j \in Nat : j \in B <=> ~(live[j] \in Nat /\ live[j] <= j)
    OBVIOUS
  <2> HIDE DEF B
  <2>2. PICK i \in B : \A j \in B : i <= j
    BY <2>0, <2>1, LeastNumber
  <2>3. i \in Nat /\ ~(live[i] \in Nat /\ live[i] <= i)
    BY <2>0, Zenon
  <2>4. i \in D
    <3>1. i \notin D => live[i] = i
      BY <1>8, <2>3, Zenon
    <3>2. \A v \in Nat : v <= v
      OBVIOUS
    <3> QED
      BY <2>3, <3>1, <3>2, Zenon
  <2> DEFINE p == EntryOf(es, i).parent
  <2>5. p \in Nat /\ p < i /\ ~(i <= p) /\ live[i] = live[p]
    <3>1. p \in Nat /\ p < i
      BY <1>1, <2>4
    <3>2. live[i] = live[p]
      BY <1>8, <2>3, <2>4, Zenon
    <3>3. \A x, y \in Nat : y < x => ~(x <= y)
      OBVIOUS
    <3> QED
      BY <2>3, <3>1, <3>2, <3>3, Zenon
  <2> HIDE DEF p
  <2>6. live[p] \in Nat /\ live[p] <= p
    BY <2>0, <2>2, <2>5, Zenon
  <2>7. \A v \in Nat : v <= p => v <= i
    BY <2>3, <2>5
  <2>8. live[i] \in Nat /\ live[i] <= i
    BY <2>5, <2>6, <2>7, Zenon
  <2> QED
    BY <2>3, <2>8, Zenon
<1>10. live \in [Nat -> Nat]
  <2>1. live = [i \in Nat |-> live[i]]
    BY <1>6 DEF F
  <2> QED
    BY <1>9, <2>1
<1>11. IsLive(live, es)
  BY <1>8, <1>9, <1>10 DEF IsLive, D
<1> QED
  BY <1>7, <1>11

(* A fork of a sound session is sound.                                     *)
LEMMA ForkSound ==
    ASSUME NEW es \in Seq(Entry), NEW n, Sound(es, n)
    PROVE  ForkEntries(es) \in Seq(Entry) /\ Sound(ForkEntries(es), n)
<1> DEFINE w == Without(es, "git")
           fk == ForkEntries(es)
<1>1. w \in Seq(Entry) /\ Sound(w, n)
  BY WithoutSound, Zenon
<1>2. PICK live : IsLive(live, es) /\ fk = [i \in DOMAIN w |-> [w[i] EXCEPT !.parent = live[@]]]
  BY ForkShape
<1> HIDE DEF w, fk
<1>3. ASSUME NEW i \in DOMAIN w
      PROVE  /\ fk[i] \in Entry /\ fk[i] # Header /\ Proper(fk[i], n)
             /\ fk[i].id = w[i].id
  <2> DEFINE q == live[w[i].parent]
  <2>1. w[i] \in Entry /\ Proper(w[i], n) /\ w[i].parent \in Nat /\ w[i].parent \in Id \cup {Root}
    BY <1>1, EntryNumbers DEF Sound
  <2>2. q \in Nat /\ q <= w[i].parent
    BY <1>2, <2>1 DEF IsLive
  <2>3. q \in Id \cup {Root}
    BY <2>1, <2>2, SessionTreeAssumption DEF Id, Root
  <2>4. fk[i] = [w[i] EXCEPT !.parent = q]
    BY <1>2
  <2> HIDE DEF q
  <2>5. fk[i] \in Entry /\ fk[i].id = w[i].id /\ fk[i].parent = q /\ fk[i].kind = w[i].kind /\ fk[i].ref = w[i].ref
    BY <2>1, <2>3, <2>4 DEF Entry
  <2>6. q < w[i].id
    BY <2>1, <2>2, EntryNumbers DEF Proper
  <2> QED
    BY <2>1, <2>5, <2>6, EntryNumbers DEF Proper
<1>4. DOMAIN fk = 1 .. Len(w) /\ DOMAIN w = 1 .. Len(w) /\ Len(w) \in Nat
  BY <1>1, <1>2
<1>5. fk \in Seq(Entry)
  <2>1. fk = [i \in 1 .. Len(w) |-> fk[i]]
    BY <1>2, <1>4
  <2> QED
    BY <1>3, <1>4, <2>1
<1>6. Sound(fk, n)
  BY <1>1, <1>3, <1>4 DEF Sound
<1> QED
  BY <1>5, <1>6 DEF fk
-----------------------------------------------------------------------------
(* Writing.                                                                *)

Tails == {"clean", "cut", "whole"}
Files == [exists : BOOLEAN, lines : Seq(Lines), tail : Tails]

(* A file that can be on the disk once the numbers below n are given out.  *)
GoodFile(d, n) == d \in Files /\ Sound(d.lines, n) /\ (~d.exists => d.lines = <<>>)

(* Dropping the last line, if there is one.                                *)
LEMMA SoundFront ==
    ASSUME NEW s \in Seq(Lines), NEW n, Sound(s, n)
    PROVE  Front(s) \in Seq(Lines) /\ Sound(Front(s), n)
<1>1. CASE Len(s) = 0
  <2>1. Front(s) = <<>>
    BY <1>1 DEF Front
  <2> QED
    BY <2>1 DEF Sound
<1>2. CASE Len(s) # 0
  <2>1. Len(s) - 1 \in 0 .. Len(s) /\ Front(s) = SubSeq(s, 1, Len(s) - 1)
    BY <1>2 DEF Front
  <2> QED
    BY <2>1, SoundPrefix
<1> QED
  BY <1>1, <1>2

(* The file written anew.                                                  *)
LEMMA GoodRewritten ==
    ASSUME NEW es \in Seq(Entry), NEW n, Sound(es, n)
    PROVE  /\ GoodFile(Rewritten(es), n) /\ Rewritten(es).exists /\ Rewritten(es).tail = "clean"
           /\ HasHeader(Rewritten(es)) /\ LoadEntries(Rewritten(es)) = es
<1>1. /\ Rewritten(es).exists = TRUE /\ Rewritten(es).tail = "clean"
      /\ Rewritten(es).lines = <<Header>> \o es
  BY DEF Rewritten
<1>2. <<Header>> \o es \in Seq(Lines) /\ Sound(<<Header>> \o es, n)
  BY SoundRewritten
<1>3. Rewritten(es) \in Files
  BY <1>2 DEF Rewritten, Files, Tails
<1> QED
  BY <1>1, <1>2, <1>3, LoadRewritten DEF GoodFile

(* A line appended in full.                                                *)
LEMMA GoodAppended ==
    ASSUME NEW n \in Nat, NEW d, GoodFile(d, n), d.exists,
           NEW e \in Entry, e.id = n, Proper(e, n + 1)
    PROVE  /\ GoodFile(AppendLine(d, e), n + 1) /\ AppendLine(d, e).exists
           /\ d.tail = "clean" =>
                AppendLine(d, e).tail = "clean" /\ AppendLine(d, e).lines = Append(d.lines, e)
<1> DEFINE c == AppendLine(d, e)
           s == CASE d.tail = "clean" -> Append(d.lines, e)
                  [] d.tail = "cut"   -> Append(d.lines, Junk)
                  [] d.tail = "whole" -> Append(Front(d.lines), Junk)
<1>0. d \in Files /\ d.lines \in Seq(Lines) /\ Sound(d.lines, n) /\ d.tail \in Tails /\ n + 1 \in Nat /\ n <= n + 1
  BY DEF GoodFile, Files
<1>1. c = [d EXCEPT !.tail = "clean", !.lines = s]
  BY DEF AppendLine
<1>2. /\ d.tail = "clean" => s = Append(d.lines, e)
      /\ d.tail = "cut" => s = Append(d.lines, Junk)
      /\ d.tail = "whole" => s = Append(Front(d.lines), Junk)
  OBVIOUS
<1> HIDE DEF s
<1>3. s \in Seq(Lines) /\ Sound(s, n + 1)
  <2>1. CASE d.tail = "clean"
    BY <1>0, <1>2, <2>1, SoundNew
  <2>2. CASE d.tail = "cut"
    BY <1>0, <1>2, <2>2, SoundJunk, SoundLater
  <2>3. CASE d.tail = "whole"
    <3>1. Front(d.lines) \in Seq(Lines) /\ Sound(Front(d.lines), n)
      BY <1>0, SoundFront
    <3>2. s \in Seq(Lines) /\ Sound(s, n)
      BY <1>2, <2>3, <3>1, SoundJunk
    <3> QED
      BY <1>0, <3>2, SoundLater
  <2> QED
    BY <1>0, <2>1, <2>2, <2>3 DEF Tails
<1>4. c \in Files /\ c.lines = s /\ c.tail = "clean" /\ c.exists = d.exists
  BY <1>0, <1>1, <1>3 DEF Files, Tails
<1> HIDE DEF c
<1> QED
  BY <1>2, <1>3, <1>4 DEF GoodFile, c

(* A line cut short: behind a terminated line nothing is lost.             *)
LEMMA GoodPartial ==
    ASSUME NEW n \in Nat, NEW d, GoodFile(d, n), d.exists,
           NEW e \in Entry, e.id = n, Proper(e, n + 1), NEW c \in PartialLines(d, e)
    PROVE  /\ GoodFile(c, n + 1) /\ c.exists
           /\ d.tail = "clean" => IdsOf(LoadEntries(d)) \subseteq IdsOf(LoadEntries(c))
<1>0. d \in Files /\ d.lines \in Seq(Lines) /\ Sound(d.lines, n) /\ d.tail \in Tails /\ n + 1 \in Nat /\ n <= n + 1
  BY DEF GoodFile, Files
<1>1. Sound(d.lines, n + 1)
  BY <1>0, SoundLater
<1>2. CASE c = d
  BY <1>0, <1>1, <1>2 DEF GoodFile
<1>3. CASE d.tail = "clean" /\ c = [d EXCEPT !.tail = "cut"]
  <2>1. c \in Files /\ c.lines = d.lines /\ c.exists = d.exists
    BY <1>0, <1>3 DEF Files, Tails
  <2>2. LoadEntries(c) = LoadEntries(d)
    BY <2>1, SameLines
  <2> QED
    BY <1>0, <1>1, <2>1, <2>2 DEF GoodFile
<1>4. CASE d.tail = "clean" /\ c = [d EXCEPT !.tail = "whole", !.lines = Append(@, e)]
  <2>1. Append(d.lines, e) \in Seq(Lines) /\ Sound(Append(d.lines, e), n + 1)
    BY <1>0, SoundNew
  <2>2. c \in Files /\ c.lines = Append(d.lines, e) /\ c.exists = d.exists
    BY <1>0, <1>4, <2>1 DEF Files, Tails
  <2>3. IdsOf(LoadEntries(d)) \subseteq IdsOf(LoadEntries(c))
    BY <1>0, <2>2, LoadAppended
  <2> QED
    BY <2>1, <2>2, <2>3 DEF GoodFile
<1>5. CASE d.tail = "whole" /\ c = [d EXCEPT !.tail = "cut", !.lines = Front(@)]
  <2>1. Front(d.lines) \in Seq(Lines) /\ Sound(Front(d.lines), n + 1)
    BY <1>0, <1>1, SoundFront
  <2>2. c \in Files /\ c.lines = Front(d.lines) /\ c.exists = d.exists
    BY <1>0, <1>5, <2>1 DEF Files, Tails
  <2> QED
    BY <1>5, <2>1, <2>2 DEF GoodFile
<1>6. \/ c = d
      \/ d.tail = "clean" /\ c = [d EXCEPT !.tail = "cut"]
      \/ d.tail = "clean" /\ c = [d EXCEPT !.tail = "whole", !.lines = Append(@, e)]
      \/ d.tail = "whole" /\ c = [d EXCEPT !.tail = "cut", !.lines = Front(@)]
  <2>1. CASE d.tail = "clean"
    BY <2>1 DEF PartialLines
  <2>2. CASE d.tail = "cut"
    BY <2>2 DEF PartialLines
  <2>3. CASE d.tail = "whole"
    BY <2>3 DEF PartialLines
  <2> QED
    BY <1>0, <2>1, <2>2, <2>3 DEF Tails
<1> QED
  BY <1>2, <1>3, <1>4, <1>5, <1>6
(* What one write may do to the file of the session.  n is what nextId     *)
(* will be, es the entries written.                                        *)
Outcome(o, es, n) ==
    /\ GoodFile(o.d, n) /\ o.flushed \in BOOLEAN
    /\ o.how \in {"replaced", "deferred", "failed", "appended", "torn"}
    /\ o.how = "replaced" => o.flushed /\ o.d = Rewritten(es)
    /\ o.how = "deferred" => ~o.flushed /\ o.d = disk[file]
    /\ o.how = "failed" => /\ o.d = disk[file] /\ (o.flushed => flushed) /\ (o.flushed => ~disk[file].exists)
                           /\ MayFail("error")
    /\ o.how = "appended" => /\ flushed /\ o.flushed /\ disk[file].exists /\ o.d.exists
                             /\ es = Append(entries, es[Len(es)]) /\ es[Len(es)] \in Entry
                             /\ disk[file].tail = "clean" =>
                                  o.d.tail = "clean" /\ o.d.lines = Append(disk[file].lines, es[Len(es)])
    /\ o.how = "torn" => /\ flushed /\ disk[file].exists /\ o.d.exists /\ MayFail("error")
                         /\ disk[file].tail = "clean" =>
                              IdsOf(LoadEntries(disk[file])) \subseteq IdsOf(LoadEntries(o.d))

(* flushNow writes everything or nothing.                                  *)
LEMMA RewriteOutcome ==
    ASSUME NEW n, NEW es \in Seq(Entry), Sound(es, n), GoodFile(disk[file], n),
           NEW fl \in BOOLEAN, fl => flushed /\ ~disk[file].exists,
           NEW o \in RewriteOutcomes(es, disk[file], fl)
    PROVE  Outcome(o, es, n) /\ o.how \in {"replaced", "failed"}
<1>1. CASE o = [d |-> Rewritten(es), flushed |-> TRUE, how |-> "replaced"]
  <2>1. o.d = Rewritten(es) /\ o.flushed = TRUE /\ o.how = "replaced"
    BY <1>1
  <2> QED
    BY <2>1, GoodRewritten DEF Outcome
<1>2. CASE MayFail("error") /\ o = [d |-> disk[file], flushed |-> fl, how |-> "failed"]
  <2>1. o.d = disk[file] /\ o.flushed = fl /\ o.how = "failed"
    BY <1>2
  <2> QED
    BY <1>2, <2>1 DEF Outcome
<1> QED
  BY <1>1, <1>2 DEF RewriteOutcomes

(* _persist writes everything, one line, part of a line or nothing.        *)
LEMMA PersistOutcome ==
    ASSUME TypeOK, NEW e \in Entry, e.id = nextId, Proper(e, nextId + 1),
           Sound(Append(entries, e), nextId + 1), GoodFile(disk[file], nextId),
           NEW assistant, NEW o \in PersistOutcomes(Append(entries, e), assistant, e)
    PROVE  Outcome(o, Append(entries, e), nextId + 1)
<1> DEFINE es == Append(entries, e)
           d == disk[file]
           n == nextId
<1>0. n \in Nat /\ es \in Seq(Entry) /\ flushed \in BOOLEAN /\ es[Len(es)] = e
  BY SessionTreeAssumption DEF TypeOK
<1>1. GoodFile(d, n + 1)
  <2>1. d \in Files /\ d.lines \in Seq(Lines) /\ n + 1 \in Nat /\ n <= n + 1
    BY <1>0 DEF GoodFile, Files
  <2> QED
    BY <1>0, <2>1, SoundLater DEF GoodFile
<1>2. CASE o = [d |-> d, flushed |-> FALSE, how |-> "deferred"]
  <2>1. o.d = d /\ o.flushed = FALSE /\ o.how = "deferred"
    BY <1>2
  <2> QED
    BY <1>1, <2>1 DEF Outcome
<1>3. CASE (~flushed \/ ~d.exists) /\ o \in RewriteOutcomes(es, d, flushed)
  BY <1>0, <1>1, <1>3, RewriteOutcome
<1>4. CASE flushed /\ d.exists /\ o = [d |-> AppendLine(d, e), flushed |-> TRUE, how |-> "appended"]
  <2> DEFINE c == AppendLine(d, e)
  <2>1. GoodFile(c, n + 1) /\ c.exists /\ (d.tail = "clean" => c.tail = "clean" /\ c.lines = Append(d.lines, e))
    <3>1. n \in Nat /\ GoodFile(d, n) /\ d.exists /\ e.id = n /\ Proper(e, n + 1)
      BY <1>0, <1>4
    <3> HIDE DEF n, d
    <3> QED
      BY <3>1, GoodAppended
  <2> HIDE DEF c
  <2>2. o.d = c /\ o.flushed = TRUE /\ o.how = "appended"
    BY <1>4 DEF c
  <2> QED
    BY <1>0, <1>4, <2>1, <2>2 DEF Outcome
<1>5. CASE /\ flushed /\ d.exists /\ MayFail("error")
           /\ \E p \in PartialLines(d, e) : o = [d |-> p, flushed |-> TRUE, how |-> "torn"]
  <2>1. PICK p \in PartialLines(d, e) : o = [d |-> p, flushed |-> TRUE, how |-> "torn"]
    BY <1>5
  <2>2. o.d = p /\ o.flushed = TRUE /\ o.how = "torn"
    BY <2>1
  <2>3. GoodFile(p, n + 1) /\ p.exists /\ (d.tail = "clean" => IdsOf(LoadEntries(d)) \subseteq IdsOf(LoadEntries(p)))
    BY <1>0, <1>5, GoodPartial
  <2> QED
    BY <1>5, <2>2, <2>3 DEF Outcome
<1> QED
  <2>1. CASE ~assistant /\ e.kind # "state"
    BY <1>2, <2>1 DEF PersistOutcomes
  <2>2. CASE ~(~assistant /\ e.kind # "state") /\ (~flushed \/ ~d.exists)
    BY <1>3, <2>2 DEF PersistOutcomes
  <2>3. CASE ~(~assistant /\ e.kind # "state") /\ ~(~flushed \/ ~d.exists)
    BY <1>4, <1>5, <2>3 DEF PersistOutcomes
  <2> QED
    BY <2>1, <2>2, <2>3
-----------------------------------------------------------------------------
(* One step.                                                               *)

(* The disk.                                                               *)
FilesGood(n) == disk \in [File -> Files] /\ \A f \in File : GoodFile(disk[f], n)

(* What TreeInv says of the files and the numbers.                         *)
LEMMA FilesOfInv ==
    ASSUME TreeInv
    PROVE  /\ FilesGood(nextId) /\ nextId \in Nat /\ nextId > 0 /\ entries \in Seq(Entry)
           /\ Sound(entries, nextId) /\ file \in File /\ saved \in [File -> SUBSET Id] /\ poisoned \subseteq File
BY SessionTreeAssumption DEF TreeInv, TypeOK, AllSound, NoFileNoLines, FilesGood, GoodFile, Files, Tails, Lines

(* Writing one file leaves the others alone.                               *)
LEMMA FilesReplaced ==
    ASSUME NEW n \in Nat, NEW m \in Nat, n <= m, FilesGood(n), NEW f \in File, NEW c, GoodFile(c, m),
           disk' = [disk EXCEPT ![f] = c]
    PROVE  /\ disk' \in [File -> Files] /\ \A g \in File : GoodFile(disk'[g], m)
           /\ disk'[f] = c /\ \A g \in File : g # f => disk'[g] = disk[g]
<1>1. disk \in [File -> Files] /\ c \in Files
  BY DEF FilesGood, GoodFile
<1>2. disk' \in [File -> Files] /\ disk'[f] = c /\ \A g \in File : g # f => disk'[g] = disk[g]
  BY <1>1
<1>3. ASSUME NEW g \in File, g # f PROVE GoodFile(disk'[g], m)
  <2>1. disk'[g] = disk[g] /\ GoodFile(disk[g], n) /\ disk[g].lines \in Seq(Lines)
    BY <1>2, <1>3 DEF FilesGood, GoodFile, Files
  <2>2. Sound(disk[g].lines, m)
    BY <2>1, SoundLater DEF GoodFile
  <2> QED
    BY <2>1, <2>2 DEF GoodFile
<1> QED
  BY <1>2, <1>3

(* Files stay good when more numbers are given out.                        *)
LEMMA FilesKept ==
    ASSUME NEW n \in Nat, NEW m \in Nat, n <= m, FilesGood(n), disk' = disk
    PROVE  disk' \in [File -> Files] /\ \A g \in File : GoodFile(disk'[g], m) /\ disk'[g] = disk[g]
<1>1. ASSUME NEW g \in File PROVE GoodFile(disk[g], m)
  <2>1. GoodFile(disk[g], n) /\ disk[g].lines \in Seq(Lines)
    BY DEF FilesGood, GoodFile, Files
  <2>2. Sound(disk[g].lines, m)
    BY <2>1, SoundLater DEF GoodFile
  <2> QED
    BY <2>1, <2>2 DEF GoodFile
<1> QED
  BY <1>1 DEF FilesGood

(* What TreeInv says of the next state, part by part.                      *)
MemoryGood ==
    /\ up \in BOOLEAN /\ file \in File /\ entries \in Seq(Entry) /\ leaf \in Id \cup {Root} /\ labels \subseteq Id
    /\ hasAssistant \in BOOLEAN /\ flushed \in BOOLEAN
    /\ nextId \in 1 .. MaxEntries + 1 /\ Sound(entries, nextId) /\ leaf < nextId

RestGood == faults \in 0 .. MaxFaults /\ saved \in [File -> SUBSET Id] /\ poisoned \subseteq File

(* TreeInv, part by part.                                                  *)
LEMMA InvParts == TreeInv <=> MemoryGood /\ RestGood /\ FilesGood(nextId) /\ FlushedInv /\ SavedInv
BY DEF TreeInv, TypeOK, AllSound, NoFileNoLines, MemoryGood, RestGood, FilesGood, GoodFile, Files, Tails, Lines

(* The same in the next state.                                             *)
LEMMA InvPartsNext ==
    TreeInv' <=> /\ MemoryGood' /\ RestGood' /\ FlushedInv' /\ SavedInv'
                 /\ disk' \in [File -> Files] /\ \A f \in File : GoodFile(disk'[f], nextId')
BY DEF TreeInv, TypeOK, AllSound, NoFileNoLines, MemoryGood, RestGood, FilesGood, GoodFile, Files, Tails, Lines

(* SavedInv of the next state.                                             *)
LEMMA SavedNext ==
    SavedInv' <=> \A g \in File \ poisoned' : saved'[g] \subseteq IdsOf(LoadEntries(disk'[g]))
BY DEF SavedInv, IdsOf, LoadEntries, HasHeader, Parsed

(* When one file changes, only its saved entries are in question.          *)
LEMMA SavedStep ==
    ASSUME SavedInv, NEW f \in File,
           \A g \in File : g # f => disk'[g] = disk[g] /\ saved'[g] = saved[g] /\ (g \in poisoned => g \in poisoned'),
           f \notin poisoned' => saved'[f] \subseteq IdsOf(LoadEntries(disk'[f]))
    PROVE  SavedInv'
<1>1. ASSUME NEW g \in File, g \notin poisoned' PROVE saved'[g] \subseteq IdsOf(LoadEntries(disk'[g]))
  <2>1. CASE g = f
    BY <1>1, <2>1
  <2>2. CASE g # f
    <3>1. disk'[g] = disk[g] /\ saved'[g] = saved[g] /\ g \in File \ poisoned
      BY <1>1, <2>2
    <3>2. saved[g] \subseteq IdsOf(LoadEntries(disk[g]))
      BY <3>1 DEF SavedInv
    <3> QED
      BY <3>1, <3>2, Zenon
  <2> QED
    BY <2>1, <2>2
<1> QED
  BY <1>1, SavedNext

(* FlushedInv of the next state.                                           *)
LEMMA FlushedNext ==
    FlushedInv' <=> (up' /\ flushed' /\ disk'[file'].exists /\ file' \notin poisoned' =>
        /\ disk'[file'].tail = "clean" /\ HasHeader(disk'[file'])
        /\ LoadEntries(disk'[file']) = entries')
BY DEF FlushedInv, HasHeader, LoadEntries, Parsed

(* The numbers of a longer sequence.                                       *)
LEMMA IdsAppend ==
    ASSUME NEW es \in Seq(Entry), NEW e \in Entry
    PROVE  IdsOf(Append(es, e)) = IdsOf(es) \cup {e.id}
<1>1. /\ DOMAIN Append(es, e) = DOMAIN es \cup {Len(es) + 1} /\ Append(es, e)[Len(es) + 1] = e
      /\ \A i \in DOMAIN es : Append(es, e)[i] = es[i]
  OBVIOUS
<1> QED
  BY <1>1 DEF IdsOf

(* Numbers of entries are in Id.                                           *)
LEMMA IdsAreIds ==
    ASSUME NEW es \in Seq(Entry)
    PROVE  IdsOf(es) \subseteq Id
BY EntryNumbers DEF IdsOf

(* The outcome of a write, whichever it is, keeps the invariant.           *)
LEMMA TakeStep ==
    ASSUME TreeInv, up, NEW m \in Nat, nextId <= m, NEW es \in Seq(Entry), Sound(es, m),
           NEW o, Outcome(o, es, m), Take(es, o),
           up' = up, file' = file, entries' = es
    PROVE  /\ RestGood' /\ FlushedInv' /\ SavedInv' /\ flushed' \in BOOLEAN
           /\ disk' \in [File -> Files] /\ \A f \in File : GoodFile(disk'[f], m)
<1>0. /\ FilesGood(nextId) /\ nextId \in Nat /\ file \in File /\ saved \in [File -> SUBSET Id]
      /\ poisoned \subseteq File /\ entries \in Seq(Entry)
  BY FilesOfInv
<1>1. GoodFile(o.d, m) /\ disk' = [disk EXCEPT ![file] = o.d] /\ flushed' = o.flushed /\ o.flushed \in BOOLEAN
  BY DEF Outcome, Take
<1>2. /\ disk' \in [File -> Files] /\ \A g \in File : GoodFile(disk'[g], m)
      /\ disk'[file] = o.d /\ \A g \in File : g # file => disk'[g] = disk[g]
  BY <1>0, <1>1, FilesReplaced
<1>3. faults' \in 0 .. MaxFaults
  BY SessionTreeAssumption DEF TreeInv, TypeOK, Take, Failed, Outcome, MayFail
<1>4. FlushedInv /\ SavedInv
  BY DEF TreeInv
<1>5. CASE o.how = "replaced"
  <2>1. /\ saved' = [saved EXCEPT ![file] = IdsOf(es)] /\ poisoned' = poisoned \ {file}
        /\ o.d = Rewritten(es)
    BY <1>5 DEF Take, Outcome
  <2>2. HasHeader(o.d) /\ LoadEntries(o.d) = es /\ o.d.tail = "clean"
    BY <2>1, GoodRewritten
  <2>3. IdsOf(es) \subseteq Id
    BY IdsAreIds
  <2>4. RestGood'
    BY <1>0, <1>3, <2>1, <2>3 DEF RestGood
  <2>5. SavedInv'
    <3>1. saved'[file] = IdsOf(es) /\ \A g \in File : g # file => saved'[g] = saved[g] /\ (g \in poisoned => g \in poisoned')
      BY <1>0, <2>1
    <3> QED
      BY <1>0, <1>2, <1>4, <2>2, <3>1, SavedStep
  <2>6. FlushedInv'
    BY <1>2, <2>2, FlushedNext
  <2> QED
    BY <1>1, <1>2, <2>4, <2>5, <2>6
<1>6. CASE o.how \in {"deferred", "failed"}
  <2>1. saved' = saved /\ poisoned' = poisoned /\ o.d = disk[file] /\ (o.flushed => ~disk[file].exists)
    BY <1>6 DEF Take, Outcome
  <2>2. RestGood'
    BY <1>0, <1>3, <2>1 DEF RestGood
  <2>3. SavedInv'
    <3>1. \A g \in File : disk'[g] = disk[g] /\ saved'[g] = saved[g] /\ (g \in poisoned => g \in poisoned')
      BY <1>2, <2>1
    <3>2. file \notin poisoned' => saved'[file] \subseteq IdsOf(LoadEntries(disk'[file]))
      BY <1>0, <1>4, <2>1, <3>1 DEF SavedInv
    <3> QED
      BY <1>0, <1>4, <3>1, <3>2, SavedStep
  <2>4. FlushedInv'
    BY <1>1, <1>2, <2>1, FlushedNext
  <2> QED
    BY <1>1, <1>2, <2>2, <2>3, <2>4
<1>7. CASE o.how = "appended"
  <2> DEFINE e == es[Len(es)]
  <2>1. /\ saved' = [saved EXCEPT ![file] = @ \cup {e.id}] /\ poisoned' = poisoned
        /\ flushed /\ disk[file].exists /\ es = Append(entries, e) /\ e \in Entry
        /\ disk[file].tail = "clean" => o.d.tail = "clean" /\ o.d.lines = Append(disk[file].lines, e)
    BY <1>7 DEF Take, Outcome
  <2> HIDE DEF e
  <2>2. e.id \in Id
    BY <2>1, EntryNumbers
  <2>3. RestGood'
    BY <1>0, <1>3, <2>1, <2>2 DEF RestGood
  <2>4. ASSUME file \notin poisoned
        PROVE  o.d.tail = "clean" /\ HasHeader(o.d) /\ LoadEntries(o.d) = es
    <3>1. disk[file].tail = "clean" /\ HasHeader(disk[file]) /\ LoadEntries(disk[file]) = entries
      BY <1>4, <2>1, <2>4 DEF FlushedInv
    <3>2. disk[file].lines \in Seq(Lines)
      BY <1>0 DEF FilesGood, GoodFile, Files
    <3> QED
      BY <2>1, <3>1, <3>2, LoadAppended
  <2>5. SavedInv'
    <3>1. /\ saved'[file] = saved[file] \cup {e.id}
          /\ \A g \in File : g # file => disk'[g] = disk[g] /\ saved'[g] = saved[g] /\ (g \in poisoned => g \in poisoned')
      BY <1>0, <1>2, <2>1
    <3>2. ASSUME file \notin poisoned' PROVE saved'[file] \subseteq IdsOf(LoadEntries(disk'[file]))
      <4>1. saved[file] \subseteq IdsOf(LoadEntries(disk[file])) /\ LoadEntries(disk[file]) = entries
        BY <1>0, <1>4, <2>1, <3>2 DEF SavedInv, FlushedInv
      <4>2. IdsOf(es) = IdsOf(entries) \cup {e.id} /\ LoadEntries(disk'[file]) = es
        <5>1. IdsOf(Append(entries, e)) = IdsOf(entries) \cup {e.id}
          BY <1>0, <2>1, IdsAppend
        <5>2. LoadEntries(disk'[file]) = es
          BY <1>2, <2>1, <2>4, <3>2
        <5> QED
          BY <2>1, <5>1, <5>2
      <4> QED
        BY <3>1, <4>1, <4>2
    <3> QED
      BY <1>0, <1>4, <3>1, <3>2, SavedStep
  <2>6. FlushedInv'
    BY <1>2, <2>1, <2>4, FlushedNext
  <2> QED
    BY <1>1, <1>2, <2>3, <2>5, <2>6
<1>8. CASE o.how = "torn"
  <2>1. saved' = saved /\ poisoned' = poisoned \cup {file}
    BY <1>8 DEF Take
  <2>2. RestGood'
    BY <1>0, <1>3, <2>1 DEF RestGood
  <2>3. SavedInv'
    <3>1. \A g \in File : g # file => disk'[g] = disk[g] /\ saved'[g] = saved[g] /\ (g \in poisoned => g \in poisoned')
      BY <1>2, <2>1
    <3>2. file \in poisoned'
      BY <2>1
    <3> QED
      BY <1>0, <1>4, <3>1, <3>2, SavedStep
  <2>4. FlushedInv'
    BY <2>1, FlushedNext
  <2> QED
    BY <1>1, <1>2, <2>2, <2>3, <2>4
<1> QED
  BY <1>5, <1>6, <1>7, <1>8 DEF Outcome

(* A new entry.                                                            *)
LEMMA NewEntrySound ==
    ASSUME TreeInv, nextId <= MaxEntries, NEW kind \in Kinds \cup {"summary"}, NEW parent \in Id \cup {Root},
           parent < nextId, NEW ref \in Id \cup {Root}, kind = "label" => ref # Root, NEW on \in BOOLEAN,
           NEW e, e = NewEntry(kind, parent, ref, on)
    PROVE  /\ e \in Entry /\ e.id = nextId /\ e.kind = kind /\ e.ref = ref /\ Proper(e, nextId + 1)
           /\ Append(entries, e) \in Seq(Entry) /\ Sound(Append(entries, e), nextId + 1)
           /\ nextId + 1 \in 1 .. MaxEntries + 1 /\ nextId <= nextId + 1 /\ nextId + 1 \in Nat
           /\ GoodFile(disk[file], nextId) /\ TypeOK
<1>0. /\ nextId \in Nat /\ nextId > 0 /\ entries \in Seq(Entry) /\ Sound(entries, nextId)
      /\ file \in File /\ FilesGood(nextId) /\ MaxEntries \in Nat
  BY FilesOfInv, SessionTreeAssumption
<1>1. /\ e.id = nextId /\ e.parent = parent /\ e.kind = kind /\ e.ref = ref
  BY DEF NewEntry
<1>2. e \in Entry
  <2>1. nextId \in Id
    BY <1>0 DEF Id
  <2> QED
    BY <2>1 DEF NewEntry, Entry
<1>3. Proper(e, nextId + 1)
  BY <1>0, <1>1 DEF Proper
<1>4. entries \in Seq(Lines)
  BY <1>0 DEF Lines
<1>5. Sound(Append(entries, e), nextId + 1)
  BY <1>0, <1>1, <1>2, <1>3, <1>4, SoundNew
<1>6. GoodFile(disk[file], nextId) /\ TypeOK
  BY <1>0 DEF FilesGood, TreeInv
<1>7. nextId + 1 \in 1 .. MaxEntries + 1 /\ nextId <= nextId + 1 /\ nextId + 1 \in Nat
  BY <1>0
<1>8. Append(entries, e) \in Seq(Entry)
  BY <1>0, <1>2
<1> QED
  BY <1>1, <1>2, <1>3, <1>5, <1>6, <1>7, <1>8

(* The append* methods keep the invariant, whatever the write does.        *)
LEMMA AppendStep ==
    ASSUME TreeInv, NEW kind \in Kinds \cup {"summary"}, NEW parent \in Id \cup {Root},
           parent < nextId, NEW ref \in Id \cup {Root}, kind = "label" => ref # Root, NEW on \in BOOLEAN,
           AppendEntry(kind, parent, ref, on)
    PROVE  TreeInv'
<1> DEFINE e == NewEntry(kind, parent, ref, on)
           es == Append(entries, e)
           assistant == hasAssistant \/ kind = "assistant"
<1>1. up /\ nextId <= MaxEntries /\ nextId' = nextId + 1 /\ up' = up /\ file' = file
  BY DEF AppendEntry
<1>2. PICK o \in PersistOutcomes(es, assistant, e) :
        /\ Take(es, o)
        /\ entries' = es /\ leaf' = e.id /\ hasAssistant' = assistant
        /\ labels' = IF kind = "label" /\ ~Failed(o) THEN LabelsOf(<<e>>) \cup (labels \ {ref}) ELSE labels
  BY DEF AppendEntry
<1>3. /\ e \in Entry /\ e.id = nextId /\ e.kind = kind /\ e.ref = ref /\ Proper(e, nextId + 1)
      /\ es \in Seq(Entry) /\ Sound(es, nextId + 1)
      /\ nextId + 1 \in 1 .. MaxEntries + 1 /\ nextId <= nextId + 1 /\ nextId + 1 \in Nat
      /\ GoodFile(disk[file], nextId) /\ TypeOK
  BY <1>1, NewEntrySound
<1> HIDE DEF e
<1>4. Outcome(o, es, nextId + 1)
  BY <1>2, <1>3, PersistOutcome
<1> HIDE DEF es
<1>5. /\ RestGood' /\ FlushedInv' /\ SavedInv' /\ flushed' \in BOOLEAN
      /\ disk' \in [File -> Files] /\ \A f \in File : GoodFile(disk'[f], nextId + 1)
  BY <1>1, <1>2, <1>3, <1>4, TakeStep
<1>6. labels' \subseteq Id
  <2>1. labels \subseteq Id
    BY <1>3 DEF TypeOK
  <2>2. kind = "label" => LabelsOf(<<e>>) \subseteq Id
    BY <1>3 DEF LabelsOf
  <2> QED
    BY <1>2, <2>1, <2>2
<1>7. MemoryGood'
  <2>1. hasAssistant' \in BOOLEAN /\ up \in BOOLEAN /\ file \in File
    BY <1>2, <1>3 DEF TypeOK
  <2>2. leaf' \in Id \cup {Root} /\ leaf' < nextId'
    BY <1>1, <1>2, <1>3, EntryNumbers
  <2> QED
    BY <1>1, <1>2, <1>3, <1>5, <1>6, <2>1, <2>2 DEF MemoryGood, Sound, Proper
<1> QED
  BY <1>1, <1>5, <1>7, InvPartsNext

(* What can be a parent or a reference.                                    *)
LEMMA OlderIds ==
    ASSUME TreeInv
    PROVE  /\ \A i \in IdsOf(entries) \cup {Root, leaf} : i \in Id \cup {Root} /\ i < nextId
           /\ Root \notin IdsOf(entries) /\ IdsOf(GetBranch(entries, leaf)) \subseteq Id
<1>0. /\ nextId \in Nat /\ nextId > 0 /\ entries \in Seq(Entry) /\ Sound(entries, nextId)
      /\ leaf \in Id \cup {Root} /\ leaf < nextId /\ leaf \in Nat
  BY FilesOfInv, SessionTreeAssumption DEF TreeInv, TypeOK, AllSound, Id, Root
<1>1. \A i \in DOMAIN entries : entries[i].id \in Id /\ entries[i].id < nextId /\ entries[i].id # Root
  BY <1>0, EntryNumbers DEF Sound, Proper, Root
<1>2. GetBranch(entries, leaf) \in Seq(Entry)
  BY <1>0, BranchSound
<1>3. IdsOf(GetBranch(entries, leaf)) \subseteq Id
  BY <1>2, IdsAreIds
<1> QED
  BY <1>0, <1>1, <1>3 DEF IdsOf, Root

(* appendMessage and its like.                                             *)
LEMMA AppendMessageStep ==
    ASSUME TreeInv, AppendMessage
    PROVE  TreeInv'
<1>1. PICK kind \in Kinds, on \in BOOLEAN : \E r \in Refs(kind) : AppendEntry(kind, leaf, r, on)
  BY DEF AppendMessage
<1>2. PICK ref \in Refs(kind) : AppendEntry(kind, leaf, ref, on)
  BY <1>1
<1>3. leaf \in Id \cup {Root} /\ leaf < nextId
  BY OlderIds
<1>4. ref \in Id \cup {Root} /\ (kind = "label" => ref # Root)
  BY <1>2, OlderIds DEF Refs
<1> QED
  BY <1>2, <1>3, <1>4, AppendStep

(* branchWithSummary.                                                      *)
LEMMA SummaryStep ==
    ASSUME TreeInv, BranchWithSummary
    PROVE  TreeInv'
<1>1. PICK from \in IdsOf(entries) \cup {Root} : AppendEntry("summary", from, Root, FALSE)
  BY DEF BranchWithSummary
<1>2. from \in Id \cup {Root} /\ from < nextId
  BY OlderIds
<1> QED
  BY <1>1, <1>2, AppendStep

(* flushNow.                                                               *)
LEMMA FlushStep ==
    ASSUME TreeInv, FlushNow
    PROVE  TreeInv'
<1>0. /\ FilesGood(nextId) /\ nextId \in Nat /\ file \in File /\ entries \in Seq(Entry) /\ Sound(entries, nextId)
      /\ GoodFile(disk[file], nextId) /\ flushed \in BOOLEAN
  BY FilesOfInv DEF FilesGood, TreeInv, TypeOK
<1>1. /\ up /\ (flushed => flushed /\ ~disk[file].exists)
      /\ up' = up /\ file' = file /\ entries' = entries /\ nextId' = nextId
      /\ UNCHANGED <<leaf, labels, hasAssistant>>
  BY DEF FlushNow
<1>2. PICK o \in RewriteOutcomes(entries, disk[file], flushed) : Take(entries, o)
  BY DEF FlushNow
<1>3. Outcome(o, entries, nextId)
  BY <1>0, <1>1, RewriteOutcome
<1>4. nextId <= nextId
  BY <1>0
<1>5. /\ RestGood' /\ FlushedInv' /\ SavedInv' /\ flushed' \in BOOLEAN
      /\ disk' \in [File -> Files] /\ \A f \in File : GoodFile(disk'[f], nextId)
  BY <1>0, <1>1, <1>2, <1>3, <1>4, TakeStep
<1>6. MemoryGood
  BY InvParts
<1>7. MemoryGood'
  BY <1>1, <1>5, <1>6 DEF MemoryGood, Sound, Proper
<1> QED
  BY <1>1, <1>5, <1>7, InvPartsNext

(* _appendEntryWithRollback: the second write follows only a deferred one. *)
LEMMA SecondOutcome ==
    ASSUME NEW n, NEW es \in Seq(Entry), Sound(es, n), NEW o, Outcome(o, es, n),
           NEW o2 \in IF ~Failed(o) /\ ~(o.flushed /\ o.d.exists)
                      THEN RewriteOutcomes(es, o.d, o.flushed) ELSE {o}
    PROVE  Outcome(o2, es, n)
<1>1. CASE ~Failed(o) /\ ~(o.flushed /\ o.d.exists)
  <2>1. o.how = "replaced" => o.flushed /\ o.d.exists
    BY DEF Outcome, Rewritten
  <2>2. o.d = disk[file] /\ o.flushed = FALSE /\ GoodFile(disk[file], n)
    BY <1>1, <2>1 DEF Outcome, Failed
  <2>3. o2 \in RewriteOutcomes(es, disk[file], FALSE)
    BY <1>1, <2>2
  <2> QED
    BY <2>2, <2>3, RewriteOutcome
<1>2. CASE ~(~Failed(o) /\ ~(o.flushed /\ o.d.exists))
  BY <1>2
<1> QED
  BY <1>1, <1>2

(* _appendEntryWithRollback, both ways.                                    *)
LEMMA RollbackStep ==
    ASSUME TreeInv, AppendWithRollback
    PROVE  TreeInv'
<1> USE DEF Failed
<1>1. /\ up /\ nextId <= MaxEntries /\ nextId' = nextId + 1 /\ up' = up /\ file' = file
      /\ labels' = labels /\ hasAssistant' = hasAssistant
  BY DEF AppendWithRollback
<1> DEFINE Undone(o2) ==
             /\ Failed(o2) /\ faults' = faults + 1
             /\ \/ /\ disk' = [disk EXCEPT ![file] = Rewritten(entries)] /\ flushed' = TRUE
                   /\ saved' = [saved EXCEPT ![file] = IdsOf(entries)]
                   /\ poisoned' = poisoned \ {file}
                \/ /\ disk' = [disk EXCEPT ![file] = o2.d] /\ flushed' = FALSE
                   /\ UNCHANGED <<saved, poisoned>>
             /\ UNCHANGED <<entries, leaf>>
<1>2. PICK kind \in Kinds :
        LET e == NewEntry(kind, leaf, Root, FALSE)
            es == Append(entries, e)
        IN  /\ kind \in {"message", "plain"}
            /\ \E o \in PersistOutcomes(es, hasAssistant, e) :
               \E o2 \in IF ~Failed(o) /\ ~(o.flushed /\ o.d.exists)
                         THEN RewriteOutcomes(es, o.d, o.flushed) ELSE {o} :
                 \/ ~Failed(o2) /\ Take(es, o2) /\ entries' = es /\ leaf' = e.id
                 \/ Undone(o2)
  BY Zenon DEF AppendWithRollback
<1> DEFINE e == NewEntry(kind, leaf, Root, FALSE)
           es == Append(entries, e)
<1>3. PICK o \in PersistOutcomes(es, hasAssistant, e) :
               \E o2 \in IF ~Failed(o) /\ ~(o.flushed /\ o.d.exists)
                         THEN RewriteOutcomes(es, o.d, o.flushed) ELSE {o} :
                 \/ ~Failed(o2) /\ Take(es, o2) /\ entries' = es /\ leaf' = e.id
                 \/ Undone(o2)
  BY <1>2, Zenon
<1>4. PICK o2 \in IF ~Failed(o) /\ ~(o.flushed /\ o.d.exists)
                  THEN RewriteOutcomes(es, o.d, o.flushed) ELSE {o} :
                 \/ ~Failed(o2) /\ Take(es, o2) /\ entries' = es /\ leaf' = e.id
                 \/ Undone(o2)
  BY <1>3, Zenon
<1>5. /\ e \in Entry /\ e.id = nextId /\ Proper(e, nextId + 1)
      /\ es \in Seq(Entry) /\ Sound(es, nextId + 1)
      /\ nextId + 1 \in 1 .. MaxEntries + 1 /\ nextId <= nextId + 1 /\ nextId + 1 \in Nat
      /\ GoodFile(disk[file], nextId) /\ TypeOK
  <2>1. leaf \in Id \cup {Root} /\ leaf < nextId /\ Root \in Id \cup {Root} /\ FALSE \in BOOLEAN
        /\ (kind = "label" => Root # Root) /\ kind \in Kinds \cup {"summary"}
    BY <1>2, OlderIds
  <2>2. e = NewEntry(kind, leaf, Root, FALSE)
    OBVIOUS
  <2> HIDE DEF e
  <2> QED
    BY <1>1, <2>1, <2>2, NewEntrySound
<1> HIDE DEF e
<1>6. Outcome(o, es, nextId + 1)
  BY <1>3, <1>5, PersistOutcome
<1> HIDE DEF es
<1>7. Outcome(o2, es, nextId + 1)
  BY <1>4, <1>5, <1>6, SecondOutcome
<1>m. MemoryGood /\ RestGood
  BY InvParts
<1>8. CASE Take(es, o2) /\ entries' = es /\ leaf' = e.id
  <2>1. /\ RestGood' /\ FlushedInv' /\ SavedInv' /\ flushed' \in BOOLEAN
        /\ disk' \in [File -> Files] /\ \A f \in File : GoodFile(disk'[f], nextId + 1)
    BY <1>1, <1>5, <1>7, <1>8, TakeStep
  <2>2. leaf' \in Id \cup {Root} /\ leaf' < nextId'
    BY <1>1, <1>5, <1>8, EntryNumbers
  <2>3. MemoryGood'
    BY <1>1, <1>5, <1>8, <1>m, <2>1, <2>2 DEF MemoryGood, Sound, Proper
  <2> QED
    BY <1>1, <2>1, <2>3, InvPartsNext
<1>9. CASE Undone(o2)
  <2>0. /\ FilesGood(nextId) /\ nextId \in Nat /\ file \in File /\ saved \in [File -> SUBSET Id]
        /\ poisoned \subseteq File /\ entries \in Seq(Entry) /\ Sound(entries, nextId) /\ FlushedInv /\ SavedInv
    BY FilesOfInv DEF TreeInv
  <2>1. Sound(entries, nextId + 1)
    BY <1>5, <2>0, SoundLater DEF Lines
  <2>2. faults' \in 0 .. MaxFaults
    BY <1>7, <1>9, SessionTreeAssumption DEF TreeInv, TypeOK, Outcome, MayFail
  <2>3. entries' = entries /\ leaf' = leaf
    BY <1>9
  <2>4. flushed' \in BOOLEAN
    BY <1>9
  <2>5. MemoryGood'
    BY <1>1, <1>5, <1>m, <2>0, <2>1, <2>3, <2>4 DEF MemoryGood, Sound, Proper, Id, Root
  <2>6. CASE /\ disk' = [disk EXCEPT ![file] = Rewritten(entries)] /\ flushed' = TRUE
             /\ saved' = [saved EXCEPT ![file] = IdsOf(entries)]
             /\ poisoned' = poisoned \ {file}
    <3> DEFINE c == Rewritten(entries)
    <3>1. GoodFile(c, nextId + 1) /\ c.tail = "clean" /\ HasHeader(c) /\ LoadEntries(c) = entries
      BY <2>0, <2>1, GoodRewritten
    <3>c. disk' = [disk EXCEPT ![file] = c]
      BY <2>6
    <3> HIDE DEF c
    <3>2. /\ disk' \in [File -> Files] /\ \A g \in File : GoodFile(disk'[g], nextId + 1)
          /\ disk'[file] = c /\ \A g \in File : g # file => disk'[g] = disk[g]
      BY <1>5, <2>0, <3>c, <3>1, FilesReplaced
    <3>3. saved'[file] = IdsOf(entries) /\ \A g \in File : g # file => saved'[g] = saved[g] /\ (g \in poisoned => g \in poisoned')
      BY <2>0, <2>6
    <3>4. SavedInv'
      BY <2>0, <3>1, <3>2, <3>3, SavedStep
    <3>5. FlushedInv'
      BY <1>1, <2>3, <3>1, <3>2, FlushedNext
    <3>6. IdsOf(entries) \subseteq Id
      BY <2>0, IdsAreIds
    <3>7. RestGood'
      BY <2>0, <2>2, <2>6, <3>6 DEF RestGood
    <3> QED
      BY <1>1, <2>5, <3>2, <3>4, <3>5, <3>7, InvPartsNext
  <2>7. CASE disk' = [disk EXCEPT ![file] = o2.d] /\ flushed' = FALSE /\ saved' = saved /\ poisoned' = poisoned
    <3>1. GoodFile(o2.d, nextId + 1)
      BY <1>7 DEF Outcome
    <3>2. /\ disk' \in [File -> Files] /\ \A g \in File : GoodFile(disk'[g], nextId + 1)
          /\ disk'[file] = o2.d /\ \A g \in File : g # file => disk'[g] = disk[g]
      BY <1>5, <2>0, <2>7, <3>1, FilesReplaced
    <3>3. ASSUME file \notin poisoned' PROVE saved'[file] \subseteq IdsOf(LoadEntries(disk'[file]))
      <4>1. saved[file] \subseteq IdsOf(LoadEntries(disk[file]))
        BY <2>0, <2>7, <3>3 DEF SavedInv
      <4>2. IdsOf(LoadEntries(disk[file])) \subseteq IdsOf(LoadEntries(o2.d))
        <5>1. CASE o2.how = "failed"
          <6>1. o2.d = disk[file]
            BY <1>7, <5>1 DEF Outcome
          <6> QED
            BY <6>1
        <5>2. CASE o2.how = "torn"
          <6>1. /\ flushed /\ disk[file].exists
                /\ disk[file].tail = "clean" => IdsOf(LoadEntries(disk[file])) \subseteq IdsOf(LoadEntries(o2.d))
            BY <1>7, <5>2 DEF Outcome
          <6>2. disk[file].tail = "clean"
            BY <1>1, <2>0, <2>7, <3>3, <6>1 DEF FlushedInv
          <6> QED
            BY <6>1, <6>2
        <5> QED
          BY <1>9, <5>1, <5>2
      <4> QED
        BY <2>7, <3>2, <4>1, <4>2
    <3>4. SavedInv'
      BY <2>0, <2>7, <3>2, <3>3, SavedStep
    <3>5. FlushedInv'
      BY <2>7, FlushedNext
    <3>6. RestGood'
      BY <2>0, <2>2, <2>7 DEF RestGood
    <3> QED
      BY <1>1, <2>5, <3>2, <3>4, <3>5, <3>6, InvPartsNext
  <2> QED
    BY <1>9, <2>6, <2>7
<1> QED
  BY <1>4, <1>8, <1>9

(* Writing the file f, or none, in a step that needs no more numbers than  *)
(* are below m.                                                            *)
LEMMA FileStep ==
    ASSUME TreeInv, NEW m \in Nat, nextId <= m, NEW f \in File, NEW c, GoodFile(c, m),
           disk' = [disk EXCEPT ![f] = c], faults' \in 0 .. MaxFaults,
           poisoned' \in {poisoned, poisoned \ {f}}, NEW S \in SUBSET Id, saved' = [saved EXCEPT ![f] = S],
           f \notin poisoned' => S \subseteq IdsOf(LoadEntries(c))
    PROVE  /\ disk'[f] = c /\ RestGood' /\ SavedInv'
           /\ disk' \in [File -> Files] /\ \A g \in File : GoodFile(disk'[g], m)
<1>0. /\ FilesGood(nextId) /\ nextId \in Nat /\ saved \in [File -> SUBSET Id] /\ poisoned \subseteq File /\ SavedInv
  BY FilesOfInv DEF TreeInv
<1>1. /\ disk' \in [File -> Files] /\ \A g \in File : GoodFile(disk'[g], m)
      /\ disk'[f] = c /\ \A g \in File : g # f => disk'[g] = disk[g]
  BY <1>0, FilesReplaced
<1>2. /\ saved' \in [File -> SUBSET Id] /\ saved'[f] = S
      /\ \A g \in File : g # f => saved'[g] = saved[g] /\ (g \in poisoned => g \in poisoned')
  BY <1>0
<1>3. SavedInv'
  BY <1>0, <1>1, <1>2, SavedStep
<1> QED
  BY <1>0, <1>1, <1>2, <1>3 DEF RestGood

(* The disk is left alone.                                                 *)
LEMMA DiskKept ==
    ASSUME TreeInv, NEW m \in Nat, nextId <= m, faults' \in 0 .. MaxFaults, UNCHANGED <<disk, saved, poisoned>>
    PROVE  /\ RestGood' /\ SavedInv'
           /\ disk' \in [File -> Files] /\ \A g \in File : GoodFile(disk'[g], m)
<1>0. /\ FilesGood(nextId) /\ nextId \in Nat /\ saved \in [File -> SUBSET Id] /\ poisoned \subseteq File /\ SavedInv
  BY FilesOfInv DEF TreeInv
<1>1. disk' \in [File -> Files] /\ \A g \in File : GoodFile(disk'[g], m)
  BY <1>0, FilesKept
<1>2. SavedInv'
  BY <1>0, SavedNext DEF SavedInv
<1> QED
  BY <1>0, <1>1, <1>2 DEF RestGood

(* What a session opened on es has in memory (_buildIndex).                *)
LEMMA IndexGood ==
    ASSUME NEW m \in 1 .. MaxEntries + 1, NEW es \in Seq(Entry), Sound(es, m), nextId' = m,
           up' \in BOOLEAN, file' \in File, flushed' \in BOOLEAN,
           entries' = es, leaf' = LeafOf(es), labels' = LabelsOf(es), hasAssistant' = HasAssistant(es)
    PROVE  MemoryGood'
<1>1. m \in Nat /\ m > 0
  BY SessionTreeAssumption
<1>2. leaf' \in Id \cup {Root} /\ leaf' < m /\ labels' \subseteq Id
  BY <1>1, LeafSound, LabelsAreIds
<1>3. hasAssistant' \in BOOLEAN
  BY DEF HasAssistant
<1> QED
  BY <1>2, <1>3 DEF MemoryGood, Sound, Proper

(* A session without entries has nothing to be wrong.                      *)
LEMMA EmptyGood ==
    ASSUME TreeInv, NEW m \in 1 .. MaxEntries + 1, nextId' = m, up' \in BOOLEAN, file' \in File, flushed' \in BOOLEAN,
           entries' = <<>>, leaf' = Root, labels' = {}, hasAssistant' = FALSE
    PROVE  MemoryGood'
<1>1. Root < m /\ <<>> \in Seq(Entry)
  BY SessionTreeAssumption DEF Root
<1>2. \A n : Sound(<<>>, n)
  BY DEF Sound
<1>3. Sound(entries', nextId')
  BY <1>2
<1> QED
  BY <1>1, <1>3 DEF MemoryGood, Sound, Proper

(* branch, resetLeaf and newSession write nothing.                         *)
LEMMA BranchStep ==
    ASSUME TreeInv, Branch
    PROVE  TreeInv'
<1>1. /\ leaf' \in IdsOf(entries) \cup {Root} /\ nextId' = nextId
      /\ UNCHANGED <<up, file, entries, labels, hasAssistant, flushed, disk, nextId, faults, saved, poisoned>>
  BY DEF Branch
<1>2. MemoryGood /\ RestGood /\ FlushedInv /\ nextId \in Nat /\ nextId <= nextId
  BY FilesOfInv, InvParts
<1>3. MemoryGood'
  BY <1>1, <1>2, OlderIds DEF MemoryGood, Sound, Proper
<1>4. /\ RestGood' /\ SavedInv'
      /\ disk' \in [File -> Files] /\ \A g \in File : GoodFile(disk'[g], nextId)
  BY <1>1, <1>2, DiskKept DEF RestGood
<1>5. FlushedInv'
  BY <1>1, <1>2, FlushedNext DEF FlushedInv
<1> QED
  BY <1>1, <1>3, <1>4, <1>5, InvPartsNext

(* newSession.                                                             *)
LEMMA NewSessionStep ==
    ASSUME TreeInv, NewSession
    PROVE  TreeInv'
<1>1. /\ file' \in File /\ up' = up /\ flushed' = FALSE /\ nextId' = nextId
      /\ entries' = <<>> /\ leaf' = Root /\ labels' = {} /\ hasAssistant' = FALSE
      /\ UNCHANGED <<disk, faults, saved, poisoned>>
  BY DEF NewSession, UnusedFiles
<1>2. MemoryGood /\ RestGood /\ nextId \in Nat /\ nextId <= nextId
  BY FilesOfInv, InvParts
<1>3. MemoryGood'
  BY <1>1, <1>2, EmptyGood DEF MemoryGood
<1>4. /\ RestGood' /\ SavedInv'
      /\ disk' \in [File -> Files] /\ \A g \in File : GoodFile(disk'[g], nextId)
  BY <1>1, <1>2, DiskKept DEF RestGood
<1>5. FlushedInv'
  BY <1>1, FlushedNext
<1> QED
  BY <1>1, <1>3, <1>4, <1>5, InvPartsNext

(* The end of a process, between two calls or in an append.                *)
LEMMA ExitStep ==
    ASSUME TreeInv, Exit
    PROVE  TreeInv'
<1>1. /\ file' = file /\ up' = FALSE /\ flushed' = FALSE /\ nextId' = nextId
      /\ entries' = <<>> /\ leaf' = Root /\ labels' = {} /\ hasAssistant' = FALSE
      /\ UNCHANGED <<disk, faults, saved, poisoned>>
  BY DEF Exit, Forget
<1>2. MemoryGood /\ RestGood /\ nextId \in Nat /\ nextId <= nextId
  BY FilesOfInv, InvParts
<1>3. MemoryGood'
  BY <1>1, <1>2, EmptyGood DEF MemoryGood
<1>4. /\ RestGood' /\ SavedInv'
      /\ disk' \in [File -> Files] /\ \A g \in File : GoodFile(disk'[g], nextId)
  BY <1>1, <1>2, DiskKept DEF RestGood
<1>5. FlushedInv'
  BY <1>1, FlushedNext
<1> QED
  BY <1>1, <1>3, <1>4, <1>5, InvPartsNext

(* A line cut short by a crash loses nothing that was saved.               *)
LEMMA CrashStep ==
    ASSUME TreeInv, CrashInAppend
    PROVE  TreeInv'
<1> DEFINE e == NewEntry("message", leaf, Root, FALSE)
           n == nextId
<1>1. /\ up /\ file' = file /\ up' = FALSE /\ flushed' = FALSE /\ nextId' = n + 1 /\ nextId <= MaxEntries
      /\ entries' = <<>> /\ leaf' = Root /\ labels' = {} /\ hasAssistant' = FALSE
      /\ saved' = saved /\ poisoned' = poisoned /\ MayFail("crash") /\ faults' = faults + 1
      /\ flushed /\ disk[file].exists
  BY DEF CrashInAppend, Forget
<1>2. PICK c \in PartialLines(disk[file], e) : disk' = [disk EXCEPT ![file] = c]
  BY DEF CrashInAppend
<1>3. /\ MemoryGood /\ RestGood /\ FlushedInv /\ SavedInv /\ n \in Nat /\ n > 0 /\ file \in File
      /\ GoodFile(disk[file], n) /\ saved \in [File -> SUBSET Id] /\ MaxEntries \in Nat
  BY FilesOfInv, InvParts, SessionTreeAssumption DEF FilesGood
<1>4. e.id = n /\ e \in Entry /\ Proper(e, n + 1)
  <2>1. leaf \in Id \cup {Root} /\ leaf < n /\ leaf \in Nat
    BY OlderIds, <1>3 DEF Id, Root
  <2>2. n \in Id
    BY <1>1, <1>3 DEF Id
  <2>3. e \in Entry
    BY <2>1, <2>2 DEF NewEntry, Entry
  <2> QED
    BY <1>3, <2>1, <2>3 DEF NewEntry, Proper
<1> HIDE DEF e, n
<1>5. /\ GoodFile(c, n + 1)
      /\ disk[file].tail = "clean" => IdsOf(LoadEntries(disk[file])) \subseteq IdsOf(LoadEntries(c))
  BY <1>1, <1>2, <1>3, <1>4, GoodPartial
<1>6. file \notin poisoned' => saved[file] \subseteq IdsOf(LoadEntries(c))
  <2> SUFFICES ASSUME file \notin poisoned PROVE saved[file] \subseteq IdsOf(LoadEntries(c))
    BY <1>1
  <2>1. disk[file].tail = "clean"
    BY <1>1, <1>3 DEF FlushedInv
  <2>2. saved[file] \subseteq IdsOf(LoadEntries(disk[file]))
    BY <1>3 DEF SavedInv
  <2> QED
    BY <1>5, <2>1, <2>2
<1>7. faults' \in 0 .. MaxFaults
  BY <1>1, <1>3, SessionTreeAssumption DEF MayFail, RestGood
<1>8. n + 1 \in Nat /\ n <= n + 1 /\ n + 1 \in 1 .. MaxEntries + 1
  BY <1>1, <1>3 DEF n
<1>9. /\ RestGood' /\ SavedInv'
      /\ disk' \in [File -> Files] /\ \A g \in File : GoodFile(disk'[g], n + 1)
  <2>1. saved' = [saved EXCEPT ![file] = saved[file]] /\ saved[file] \in SUBSET Id
    BY <1>1, <1>3
  <2>2. nextId <= n + 1 /\ poisoned' \in {poisoned, poisoned \ {file}}
    BY <1>1, <1>8 DEF n
  <2> QED
    BY <1>2, <1>3, <1>5, <1>6, <1>7, <1>8, <2>1, <2>2, FileStep
<1>10. FlushedInv'
  BY <1>1, FlushedNext
<1>11. MemoryGood'
  BY <1>1, <1>3, <1>8, EmptyGood DEF MemoryGood
<1> QED
  BY <1>1, <1>9, <1>10, <1>11, InvPartsNext

(* The file is deleted under a live session.                               *)
LEMMA DeleteStep ==
    ASSUME TreeInv, DeleteFile
    PROVE  TreeInv'
<1>1. /\ UNCHANGED <<up, file, entries, leaf, labels, hasAssistant, flushed, nextId>>
      /\ poisoned' = poisoned /\ MayFail("delete") /\ faults' = faults + 1
      /\ disk' = [disk EXCEPT ![file] = NoFile] /\ saved' = [saved EXCEPT ![file] = {}]
  BY DEF DeleteFile
<1>2. MemoryGood /\ RestGood /\ nextId \in Nat /\ nextId <= nextId /\ file \in File
  BY FilesOfInv, InvParts
<1>3. GoodFile(NoFile, nextId) /\ ~NoFile.exists
  BY DEF GoodFile, NoFile, Files, Tails, Sound
<1>4. faults' \in 0 .. MaxFaults
  BY <1>1, <1>2, SessionTreeAssumption DEF MayFail, RestGood
<1>5. /\ disk'[file] = NoFile /\ RestGood' /\ SavedInv'
      /\ disk' \in [File -> Files] /\ \A g \in File : GoodFile(disk'[g], nextId)
  <2>1. {} \in SUBSET Id /\ {} \subseteq IdsOf(LoadEntries(NoFile)) /\ poisoned' \in {poisoned, poisoned \ {file}}
    BY <1>1
  <2> QED
    BY <1>1, <1>2, <1>3, <1>4, <2>1, FileStep
<1>6. FlushedInv'
  BY <1>1, <1>3, <1>5, FlushedNext
<1>7. MemoryGood'
  BY <1>1, <1>2 DEF MemoryGood, Sound, Proper
<1> QED
  BY <1>1, <1>5, <1>6, <1>7, InvPartsNext

(* createBranchedSession.                                                  *)
LEMMA CloneStep ==
    ASSUME TreeInv, NEW at \in Id, CreateBranchedSession(at)
    PROVE  TreeInv'
<1> DEFINE es == BranchedEntries(at)
           m == nextId + Len(LabelEntries(PathTo(at)))
<1>1. /\ up' = up /\ poisoned' = poisoned /\ nextId' = m /\ nextId + Cardinality(labels) <= MaxEntries + 1
      /\ entries' = es /\ leaf' = LeafOf(es) /\ labels' = LabelsOf(es) /\ hasAssistant' = HasAssistant(es)
  BY DEF CreateBranchedSession
<1>2. PICK f \in UnusedFiles :
        /\ file' = f
        /\ \/ /\ disk' = [disk EXCEPT ![f] = Rewritten(es)] /\ saved' = [saved EXCEPT ![f] = IdsOf(es)]
              /\ flushed' = TRUE /\ faults' = faults
           \/ MayFail("error") /\ faults' = faults + 1 /\ UNCHANGED <<disk, saved, flushed>>
           \/ flushed' = FALSE /\ UNCHANGED <<disk, saved, faults>>
  BY DEF CreateBranchedSession
<1>3. /\ MemoryGood /\ RestGood /\ TypeOK /\ Sound(entries, nextId) /\ nextId \in Nat
      /\ at \in Nat /\ MaxEntries \in Nat
  BY FilesOfInv, InvParts, SessionTreeAssumption DEF TreeInv, Id
<1>4. es \in Seq(Entry) /\ m \in 1 .. MaxEntries + 1 /\ nextId <= m /\ Sound(es, m)
  BY <1>1, <1>3, BranchedSound
<1> HIDE DEF es, m
<1>5. m \in Nat /\ f \in File /\ ~disk[f].exists
  BY <1>2, <1>3, <1>4 DEF UnusedFiles
<1>6. flushed' \in BOOLEAN /\ faults' \in 0 .. MaxFaults
  <2>1. flushed' \in BOOLEAN
    BY <1>2, <1>3 DEF MemoryGood
  <2>2. faults' = faults \/ (faults' = faults + 1 /\ faults < MaxFaults)
    BY <1>2 DEF MayFail
  <2> QED
    BY <1>3, <2>1, <2>2, SessionTreeAssumption DEF RestGood
<1>7. MemoryGood'
  BY <1>1, <1>2, <1>3, <1>4, <1>5, <1>6, IndexGood DEF MemoryGood
<1>8. CASE /\ disk' = [disk EXCEPT ![f] = Rewritten(es)] /\ saved' = [saved EXCEPT ![f] = IdsOf(es)]
  <2> DEFINE c == Rewritten(es)
  <2>1. GoodFile(c, m) /\ c.tail = "clean" /\ HasHeader(c) /\ LoadEntries(c) = es
    BY <1>4, GoodRewritten
  <2>2. IdsOf(es) \in SUBSET Id
    BY <1>4, IdsAreIds
  <2>3. disk' = [disk EXCEPT ![f] = c] /\ IdsOf(es) \subseteq IdsOf(LoadEntries(c))
    BY <1>8, <2>1
  <2> HIDE DEF c
  <2>4. /\ disk'[f] = c /\ RestGood' /\ SavedInv'
        /\ disk' \in [File -> Files] /\ \A g \in File : GoodFile(disk'[g], m)
    BY <1>1, <1>4, <1>5, <1>6, <1>8, <2>1, <2>2, <2>3, FileStep
  <2>5. FlushedInv'
    BY <1>1, <1>2, <2>1, <2>4, FlushedNext
  <2> QED
    BY <1>1, <1>7, <2>4, <2>5, InvPartsNext
<1>9. CASE UNCHANGED <<disk, saved>>
  <2>1. /\ RestGood' /\ SavedInv'
        /\ disk' \in [File -> Files] /\ \A g \in File : GoodFile(disk'[g], m)
    BY <1>1, <1>4, <1>5, <1>6, <1>9, DiskKept
  <2>2. FlushedInv'
    BY <1>2, <1>5, <1>9, FlushedNext
  <2> QED
    BY <1>1, <1>7, <2>1, <2>2, InvPartsNext
<1> QED
  BY <1>2, <1>8, <1>9

(* setSessionFile: the file opened is repaired, or replaced if it is not a *)
(* session's, and read back it is what is in memory.                       *)
LEMMA ReopenStep ==
    ASSUME TreeInv, Reopen
    PROVE  TreeInv'
<1>1. PICK f \in File : Open(f)
  BY DEF Reopen
<1> DEFINE d == Repair(disk[f])
           es == LoadEntries(d)
           c == IF ~disk[f].exists THEN disk[f] ELSE IF HasHeader(d) THEN d ELSE Rewritten(<<>>)
           S == IF f \in poisoned THEN IdsOf(es) ELSE saved[f]
<1>2. /\ file' = f /\ up' = TRUE /\ nextId' = nextId /\ faults' = faults
      /\ entries' = es /\ leaf' = LeafOf(es) /\ labels' = LabelsOf(es) /\ hasAssistant' = HasAssistant(es)
      /\ flushed' = disk[f].exists /\ poisoned' = poisoned \ {f}
  BY <1>1 DEF Open
<1>3. /\ MemoryGood /\ RestGood /\ nextId \in Nat /\ nextId <= nextId /\ SavedInv /\ saved \in [File -> SUBSET Id]
      /\ disk \in [File -> Files] /\ GoodFile(disk[f], nextId)
  BY FilesOfInv, InvParts DEF FilesGood
<1>4. disk[f] \in Files /\ disk[f].lines \in Seq(Lines) /\ Sound(disk[f].lines, nextId) /\ disk[f].exists \in BOOLEAN
  BY <1>3 DEF GoodFile, Files
<1>5. /\ d \in Files /\ d.tail = "clean" /\ d.exists = disk[f].exists /\ Sound(d.lines, nextId)
      /\ es = LoadEntries(disk[f]) /\ d.lines \in Seq(Lines)
  BY <1>4, Repaired DEF Files, Tails
<1>6. es \in Seq(Entry) /\ Sound(es, nextId)
  BY <1>5, LoadedSound
<1>7. disk' = [disk EXCEPT ![f] = c]
  BY <1>1 DEF Open
<1>8. saved' = [saved EXCEPT ![f] = S]
  BY <1>1, <1>3 DEF Open
<1>9. /\ GoodFile(c, nextId) /\ LoadEntries(c) = es
      /\ disk[f].exists => c.tail = "clean" /\ HasHeader(c)
  <2>1. CASE ~disk[f].exists
    BY <1>3, <1>5, <2>1
  <2>2. CASE disk[f].exists /\ HasHeader(d)
    BY <1>5, <2>2 DEF GoodFile
  <2>3. CASE disk[f].exists /\ ~HasHeader(d)
    <3>1. es = <<>> /\ c = Rewritten(es)
      BY <2>3 DEF LoadEntries
    <3> QED
      BY <1>6, <3>1, GoodRewritten
  <2> QED
    BY <2>1, <2>2, <2>3
<1>10. S \in SUBSET Id /\ S \subseteq IdsOf(es)
  <2>1. IdsOf(es) \subseteq Id
    BY <1>6, IdsAreIds
  <2>2. f \notin poisoned => saved[f] \subseteq IdsOf(LoadEntries(disk[f]))
    BY <1>3 DEF SavedInv
  <2> QED
    BY <1>3, <1>5, <2>1, <2>2
<1> HIDE DEF d, es, c, S
<1>11. /\ disk'[f] = c /\ RestGood' /\ SavedInv'
       /\ disk' \in [File -> Files] /\ \A g \in File : GoodFile(disk'[g], nextId)
  <2>1. faults' \in 0 .. MaxFaults /\ poisoned' \in {poisoned, poisoned \ {f}} /\ S \subseteq IdsOf(LoadEntries(c))
    BY <1>2, <1>3, <1>9, <1>10 DEF RestGood
  <2> QED
    BY <1>3, <1>7, <1>8, <1>9, <1>10, <2>1, FileStep
<1>12. FlushedInv'
  BY <1>2, <1>9, <1>11, FlushedNext
<1>13. MemoryGood'
  BY <1>2, <1>3, <1>4, <1>6, IndexGood DEF MemoryGood
<1> QED
  BY <1>2, <1>11, <1>12, <1>13, InvPartsNext

(* The entries a fork writes.                                              *)
LEMMA ForkedEntries ==
    ASSUME TreeInv, NEW src \in File
    PROVE  /\ LoadEntries(disk[src]) \in Seq(Entry) /\ Sound(LoadEntries(disk[src]), nextId)
           /\ ForkEntries(LoadEntries(disk[src])) \in Seq(Entry)
           /\ Sound(ForkEntries(LoadEntries(disk[src])), nextId)
<1>1. disk[src].lines \in Seq(Lines) /\ Sound(disk[src].lines, nextId)
  BY FilesOfInv DEF FilesGood, GoodFile, Files
<1>2. LoadEntries(disk[src]) \in Seq(Entry) /\ Sound(LoadEntries(disk[src]), nextId)
  BY <1>1, LoadedSound
<1> QED
  BY <1>2, ForkSound

(* forkFrom.                                                               *)
LEMMA ForkStep ==
    ASSUME TreeInv, NEW src \in File, ForkFrom(src)
    PROVE  TreeInv'
<1> DEFINE es == ForkEntries(LoadEntries(disk[src]))
           c == Rewritten(es)
<1>1. nextId' = nextId /\ faults' = faults /\ poisoned' = poisoned
  BY DEF ForkFrom
<1>2. PICK f \in File :
        /\ up' = TRUE /\ file' = f
        /\ disk' = [disk EXCEPT ![f] = c] /\ saved' = [saved EXCEPT ![f] = IdsOf(es)]
        /\ entries' = es /\ leaf' = LeafOf(es) /\ labels' = LabelsOf(es)
        /\ hasAssistant' = HasAssistant(es) /\ flushed' = TRUE
  BY DEF ForkFrom
<1>3. es \in Seq(Entry) /\ Sound(es, nextId)
  BY ForkedEntries
<1> HIDE DEF es
<1>4. /\ MemoryGood /\ RestGood /\ nextId \in Nat /\ nextId <= nextId
  BY FilesOfInv, InvParts
<1>5. GoodFile(c, nextId) /\ c.tail = "clean" /\ HasHeader(c) /\ LoadEntries(c) = es
  BY <1>3, GoodRewritten
<1>6. IdsOf(es) \in SUBSET Id
  BY <1>3, IdsAreIds
<1> HIDE DEF c
<1>7. /\ disk'[f] = c /\ RestGood' /\ SavedInv'
      /\ disk' \in [File -> Files] /\ \A g \in File : GoodFile(disk'[g], nextId)
  <2>1. faults' \in 0 .. MaxFaults /\ poisoned' \in {poisoned, poisoned \ {f}} /\ IdsOf(es) \subseteq IdsOf(LoadEntries(c))
    BY <1>1, <1>4, <1>5 DEF RestGood
  <2> QED
    BY <1>2, <1>4, <1>5, <1>6, <2>1, FileStep
<1>8. FlushedInv'
  BY <1>2, <1>5, <1>7, FlushedNext
<1>9. MemoryGood'
  BY <1>1, <1>2, <1>3, <1>4, IndexGood DEF MemoryGood
<1> QED
  BY <1>1, <1>7, <1>8, <1>9, InvPartsNext

(* A fork that dies on the way leaves a file with nothing reported saved.  *)
LEMMA ForkDiesStep ==
    ASSUME TreeInv, NEW src \in File, ForkDies(src)
    PROVE  TreeInv'
<1> DEFINE es == ForkEntries(LoadEntries(disk[src]))
           lines == <<Header>> \o es
<1>1. /\ ~up /\ MayFail("crash") /\ faults' = faults + 1
      /\ UNCHANGED <<up, file, entries, leaf, labels, hasAssistant, flushed, nextId, saved, poisoned>>
  BY DEF ForkDies
<1>2. PICK f \in File :
        /\ ~disk[f].exists /\ f \notin poisoned
        /\ \E n \in 0 .. Len(lines) - 1, tail \in {"clean", "cut"} :
             disk' = [disk EXCEPT ![f] = [exists |-> TRUE, lines |-> SubSeq(lines, 1, n), tail |-> tail]]
  BY DEF ForkDies
<1>3. PICK n \in 0 .. Len(lines) - 1, tail \in {"clean", "cut"} :
             disk' = [disk EXCEPT ![f] = [exists |-> TRUE, lines |-> SubSeq(lines, 1, n), tail |-> tail]]
  BY <1>2
<1>4. es \in Seq(Entry) /\ Sound(es, nextId)
  BY ForkedEntries
<1> HIDE DEF es
<1>5. lines \in Seq(Lines) /\ Sound(lines, nextId)
  BY <1>4, SoundRewritten
<1> DEFINE s == SubSeq(lines, 1, n)
           c == [exists |-> TRUE, lines |-> s, tail |-> tail]
<1>6. n \in 0 .. Len(lines)
  BY <1>5
<1> HIDE DEF lines
<1>7. s \in Seq(Lines) /\ Sound(s, nextId)
  BY <1>5, <1>6, SoundPrefix
<1>8. disk' = [disk EXCEPT ![f] = c]
  BY <1>3
<1> HIDE DEF s
<1>9. GoodFile(c, nextId)
  BY <1>7 DEF GoodFile, Files, Tails
<1> HIDE DEF c
<1>10. /\ MemoryGood /\ RestGood /\ nextId \in Nat /\ nextId <= nextId /\ SavedInv
       /\ saved \in [File -> SUBSET Id] /\ GoodFile(disk[f], nextId)
  BY FilesOfInv, InvParts DEF FilesGood
<1>11. saved[f] = {}
  <2>1. disk[f].lines = <<>>
    BY <1>2, <1>10 DEF GoodFile
  <2>2. <<>> \in Seq(Lines)
    OBVIOUS
  <2>3. Parsed(disk[f]) = <<>>
    <3>0. \A i \in 1 .. Len(<<>>) : <<>>[i] \notin ToSet(<<>>) \ {Junk}
      OBVIOUS
    <3>1. Keep(<<>>, ToSet(<<>>) \ {Junk}) = <<>>
      BY <2>2, <3>0, KeepNone
    <3> QED
      BY <2>1, <3>1 DEF Parsed
  <2>4. LoadEntries(disk[f]) = <<>>
    BY <2>3 DEF LoadEntries, HasHeader
  <2>5. IdsOf(<<>>) = {}
    BY DEF IdsOf
  <2> QED
    BY <1>2, <1>10, <2>4, <2>5 DEF SavedInv
<1>12. /\ RestGood' /\ SavedInv'
       /\ disk' \in [File -> Files] /\ \A g \in File : GoodFile(disk'[g], nextId)
  <2>1. faults' \in 0 .. MaxFaults /\ poisoned' \in {poisoned, poisoned \ {f}}
    BY <1>1, <1>10, SessionTreeAssumption DEF RestGood, MayFail
  <2>2. saved' = [saved EXCEPT ![f] = {}]
    BY <1>1, <1>10, <1>11
  <2>3. {} \in SUBSET Id /\ {} \subseteq IdsOf(LoadEntries(c))
    OBVIOUS
  <2> QED
    BY <1>8, <1>9, <1>10, <2>1, <2>2, <2>3, FileStep
<1>13. FlushedInv'
  BY <1>1, FlushedNext
<1>14. MemoryGood'
  BY <1>1, <1>10 DEF MemoryGood, Sound, Proper
<1> QED
  BY <1>1, <1>12, <1>13, <1>14, InvPartsNext
-----------------------------------------------------------------------------
(* The invariant and what it implies.                                      *)

(* Nothing is written and nothing is in memory at first.                   *)
LEMMA TreeInvInit == Init => TreeInv
<1> SUFFICES ASSUME Init PROVE TreeInv
  OBVIOUS
<1>1. Sound(<<>>, 1)
  BY DEF Sound
<1>2. GoodFile(NoFile, 1)
  BY <1>1 DEF GoodFile, NoFile, Files, Tails
<1>3. disk \in [File -> Files] /\ \A f \in File : disk[f] = NoFile
  BY <1>2 DEF Init, GoodFile
<1>4. FilesGood(nextId)
  BY <1>2, <1>3 DEF FilesGood, Init
<1>5. MemoryGood
  <2>1. up = TRUE /\ file \in File /\ entries = <<>> /\ leaf = 0 /\ labels = {} /\ hasAssistant = FALSE /\ flushed = FALSE /\ nextId = 1
    BY DEF Init, Root
  <2>2. Sound(entries, nextId) /\ entries \in Seq(Entry)
    BY <1>1, <2>1
  <2>3. nextId \in 1 .. MaxEntries + 1 /\ leaf < nextId /\ leaf \in Id \cup {Root}
    BY <2>1, SessionTreeAssumption DEF Root
  <2> QED
    BY <2>1, <2>2, <2>3 DEF MemoryGood
<1>r. RestGood
  BY SessionTreeAssumption DEF Init, RestGood
<1>f. FlushedInv
  BY DEF Init, FlushedInv
<1>6. SavedInv
  BY DEF Init, SavedInv
<1> QED
  BY <1>4, <1>5, <1>r, <1>f, <1>6, InvParts

(* Every operation, fault and crash keeps it.                              *)
LEMMA TreeInvStep == TreeInv /\ [Next]_vars => TreeInv'
<1> SUFFICES ASSUME TreeInv, [Next]_vars PROVE TreeInv'
  OBVIOUS
<1>1. CASE AppendMessage
  BY <1>1, AppendMessageStep
<1>2. CASE BranchWithSummary
  BY <1>2, SummaryStep
<1>3. CASE AppendWithRollback
  BY <1>3, RollbackStep
<1>4. CASE FlushNow
  BY <1>4, FlushStep
<1>5. CASE Branch
  BY <1>5, BranchStep
<1>6. CASE \E at \in Id : CreateBranchedSession(at)
  BY <1>6, CloneStep
<1>7. CASE NewSession
  BY <1>7, NewSessionStep
<1>8. CASE Reopen
  BY <1>8, ReopenStep
<1>9. CASE \E src \in File : ForkFrom(src)
  BY <1>9, ForkStep
<1>10. CASE \E src \in File : ForkDies(src)
  BY <1>10, ForkDiesStep
<1>11. CASE Exit
  BY <1>11, ExitStep
<1>12. CASE CrashInAppend
  BY <1>12, CrashStep
<1>13. CASE DeleteFile
  BY <1>13, DeleteStep
<1>14. CASE UNCHANGED vars
  <2>1. MemoryGood /\ RestGood /\ FlushedInv /\ nextId \in Nat /\ nextId <= nextId
    BY FilesOfInv, InvParts
  <2>2. UNCHANGED <<disk, saved, poisoned>> /\ faults' = faults /\ nextId' = nextId
    BY <1>14 DEF vars
  <2>3. /\ RestGood' /\ SavedInv'
        /\ disk' \in [File -> Files] /\ \A g \in File : GoodFile(disk'[g], nextId)
    BY <2>1, <2>2, DiskKept DEF RestGood
  <2>4. MemoryGood'
    BY <1>14, <2>1 DEF vars, MemoryGood, Sound, Proper
  <2>5. FlushedInv'
    BY <1>14, <2>1, FlushedNext DEF vars, FlushedInv
  <2> QED
    BY <2>2, <2>3, <2>4, <2>5, InvPartsNext
<1> QED
  BY <1>1, <1>2, <1>3, <1>4, <1>5, <1>6, <1>7, <1>8, <1>9, <1>10, <1>11, <1>12, <1>13, <1>14 DEF Next

(* The inductive invariant: memory and files hold proper entries in the    *)
(* order they were made, a file that is not there has no lines, and what   *)
(* flushed and the saved entries claim is so.                              *)
THEOREM TreeInvariant == Spec => []TreeInv
BY TreeInvInit, TreeInvStep, PTL DEF Spec

(* The state has its type, in any history of faults.                       *)
THEOREM TreeTypeCorrect == Spec => []TypeOK
<1>1. TreeInv => TypeOK
  BY DEF TreeInv
<1> QED
  BY <1>1, TreeInvariant, PTL

(* While flushed is set and no plain append has failed, the file read back *)
(* is the tree in memory, so that _persist may append one line.            *)
THEOREM FlushedFaithful == Spec => []FlushedIsFaithful
<1>1. TreeInv => FlushedIsFaithful
  BY DEF TreeInv, FlushedInv, FlushedIsFaithful
<1> QED
  BY <1>1, TreeInvariant, PTL

(* What was reported as written is loaded again after repairJsonlDamage,   *)
(* unless a plain append on the file failed.                               *)
THEOREM SavedLoadable == Spec => []SavedIsLoadable
<1>1. TreeInv => SavedIsLoadable
  <2> SUFFICES ASSUME TreeInv, NEW f \in File \ poisoned
               PROVE  saved[f] \subseteq IdsOf(LoadEntries(Repair(disk[f])))
    BY DEF SavedIsLoadable
  <2>1. disk[f] \in Files /\ disk[f].lines \in Seq(Lines) /\ Sound(disk[f].lines, nextId)
    BY FilesOfInv DEF FilesGood, GoodFile, Files
  <2>2. LoadEntries(Repair(disk[f])) = LoadEntries(disk[f])
    BY <2>1, Repaired DEF Files, Tails
  <2>3. saved[f] \subseteq IdsOf(LoadEntries(disk[f]))
    BY DEF TreeInv, SavedInv
  <2> QED
    BY <2>2, <2>3
<1> QED
  BY <1>1, TreeInvariant, PTL
-----------------------------------------------------------------------------
(* A fork has the branches of its source.                                  *)

(* Leaving out a kind, whatever the members of the sequence.               *)
LEMMA WithoutIs ==
    ASSUME NEW s \in Seq(Entry), NEW kind
    PROVE  Without(s, kind) = Keep(s, {e \in Entry : e.kind # kind})
<1> DEFINE S == {e \in ToSet(s) : e.kind # kind}
           R == {e \in Entry : e.kind # kind}
<1>1. KeptAt(s, S) = KeptAt(s, R)
  BY DEF KeptAt, ToSet
<1> HIDE DEF S, R
<1>2. Keep(s, S) = Keep(s, R)
  BY <1>1, KeepSame
<1> QED
  BY <1>2 DEF Without, S, R

(* One more entry is kept or left out.                                     *)
LEMMA WithoutAppend ==
    ASSUME NEW s \in Seq(Entry), NEW e \in Entry, NEW kind
    PROVE  Without(Append(s, e), kind) = IF e.kind # kind THEN Append(Without(s, kind), e) ELSE Without(s, kind)
<1> DEFINE R == {x \in Entry : x.kind # kind}
<1>1. e \in R <=> e.kind # kind
  OBVIOUS
<1>2. Append(s, e) \in Seq(Entry)
  OBVIOUS
<1>3. Without(s, kind) = Keep(s, R) /\ Without(Append(s, e), kind) = Keep(Append(s, e), R)
  BY <1>2, WithoutIs
<1> HIDE DEF R
<1>4. Keep(Append(s, e), R) = IF e \in R THEN Append(Keep(s, R), e) ELSE Keep(s, R)
  BY KeepAppend
<1> QED
  BY <1>1, <1>3, <1>4

(* The numbers of a sequence with one more entry.                          *)
LEMMA NumbersAppend ==
    ASSUME NEW s \in Seq(Entry), NEW e \in Entry
    PROVE  Ids(Append(s, e)) = Append(Ids(s), e.id) /\ Ids(s) \in Seq(Nat)
<1>1. \A i \in DOMAIN s : s[i].id \in Nat
  BY EntryNumbers
<1>2. Ids(s) \in Seq(Nat) /\ Len(Ids(s)) = Len(s) /\ \A i \in 1 .. Len(s) : Ids(s)[i] = s[i].id
  BY <1>1 DEF Ids
<1>3. e.id \in Nat
  BY EntryNumbers
<1> DEFINE t == Append(s, e)
           u == Append(Ids(s), e.id)
<1>4. t \in Seq(Entry) /\ DOMAIN t = 1 .. Len(s) + 1 /\ t[Len(s) + 1] = e /\ \A i \in 1 .. Len(s) : t[i] = s[i]
  OBVIOUS
<1>5. /\ u \in Seq(Nat) /\ DOMAIN u = 1 .. Len(s) + 1 /\ u[Len(s) + 1] = e.id
      /\ \A i \in 1 .. Len(s) : u[i] = Ids(s)[i]
  BY <1>2, <1>3
<1> HIDE DEF t, u
<1>6. Ids(t) = [i \in 1 .. Len(s) + 1 |-> t[i].id]
  BY <1>4 DEF Ids
<1>7. u = [i \in 1 .. Len(s) + 1 |-> u[i]]
  BY <1>5
<1>8. \A i \in 1 .. Len(s) + 1 : u[i] = t[i].id
  <2>1. \A i \in 1 .. Len(s) : u[i] = t[i].id
    BY <1>2, <1>4, <1>5
  <2>2. u[Len(s) + 1] = t[Len(s) + 1].id
    BY <1>4, <1>5
  <2>3. \A i \in 1 .. Len(s) + 1 : i \in 1 .. Len(s) \/ i = Len(s) + 1
    OBVIOUS
  <2> QED
    BY <2>1, <2>2, <2>3
<1> QED
  BY <1>2, <1>6, <1>7, <1>8 DEF t, u

(* A number belongs to one entry.                                          *)
LEMMA NumberedOnce ==
    ASSUME NEW es \in Seq(Entry), NEW n, Sound(es, n), NEW k \in DOMAIN es
    PROVE  es[k].id \in IdsOf(es) /\ EntryOf(es, es[k].id) = es[k]
<1>1. es[k].id \in IdsOf(es)
  BY DEF IdsOf
<1>2. PICK i \in DOMAIN es : es[i] = EntryOf(es, es[k].id) /\ es[i].id = es[k].id
  BY <1>1, EntryFound
<1>3. es[i].id \in Nat /\ es[i] \in Entry /\ es[k] \in Entry
  BY EntryNumbers
<1>4. ~(i < k) /\ ~(k < i)
  BY <1>2, <1>3 DEF Sound
<1>5. i = k
  BY <1>4
<1> QED
  BY <1>1, <1>2, <1>5

(* An entry of the fork is the source's, below its nearest live ancestor.  *)
LEMMA ForkedEntry ==
    ASSUME NEW es \in Seq(Entry), NEW n, Sound(es, n), NEW live, IsLive(live, es),
           ForkEntries(es) = [i \in DOMAIN Without(es, "git") |->
                                [Without(es, "git")[i] EXCEPT !.parent = live[@]]]
    PROVE  /\ IdsOf(ForkEntries(es)) = IdsOf(es) \ Dropped(es)
           /\ \A j \in IdsOf(ForkEntries(es)) :
                EntryOf(ForkEntries(es), j).parent = live[EntryOf(es, j).parent]
<1> DEFINE fk == ForkEntries(es)
           w == Without(es, "git")
<1>1. /\ w \in Seq(Entry)
      /\ \A k \in DOMAIN w : w[k].kind # "git" /\ \E i \in DOMAIN es : es[i] = w[k]
      /\ \A i \in DOMAIN es : es[i].kind # "git" => \E k \in DOMAIN w : w[k] = es[i]
  <2>1. w \in Seq(Entry) /\ LeavesOut(w, es, "git")
    BY WithoutSound, Zenon
  <2> HIDE DEF w
  <2> QED
    BY <2>1 DEF LeavesOut
<1>2. fk \in Seq(Entry)
  BY ForkSound
<1>f. fk = [i \in DOMAIN w |-> [w[i] EXCEPT !.parent = live[@]]]
  OBVIOUS
<1> HIDE DEF fk, w
<1>3. DOMAIN fk = DOMAIN w /\ \A i \in DOMAIN w : fk[i].id = w[i].id /\ fk[i].parent = live[w[i].parent]
  <2>1. \A i \in DOMAIN w : w[i] \in Entry
    BY <1>1
  <2>2. \A x \in Entry : [x EXCEPT !.parent = live[@]].id = x.id /\ [x EXCEPT !.parent = live[@]].parent = live[x.parent]
    BY DEF Entry
  <2> QED
    BY <1>f, <2>1, <2>2
<1>4. \A k \in DOMAIN w : w[k].id \in IdsOf(es) /\ EntryOf(es, w[k].id) = w[k] /\ w[k].id \notin Dropped(es)
  <2> SUFFICES ASSUME NEW k \in DOMAIN w
               PROVE  w[k].id \in IdsOf(es) /\ EntryOf(es, w[k].id) = w[k] /\ w[k].id \notin Dropped(es)
    OBVIOUS
  <2>1. PICK i \in DOMAIN es : es[i] = w[k]
    BY <1>1
  <2>2. es[i].id \in IdsOf(es) /\ EntryOf(es, es[i].id) = es[i]
    BY NumberedOnce
  <2> QED
    BY <1>1, <2>1, <2>2 DEF Dropped
<1>5. IdsOf(fk) = {w[k].id : k \in DOMAIN w}
  BY <1>3 DEF IdsOf
<1>6. ASSUME NEW j \in IdsOf(es) \ Dropped(es) PROVE j \in IdsOf(fk)
  <2>1. EntryOf(es, j).id = j /\ \E i \in DOMAIN es : es[i] = EntryOf(es, j)
    BY EntryFound
  <2>2. EntryOf(es, j).kind # "git"
    BY DEF Dropped
  <2>3. \E k \in DOMAIN w : w[k] = EntryOf(es, j)
    BY <1>1, <2>1, <2>2
  <2> QED
    BY <1>5, <2>1, <2>3
<1>7. IdsOf(fk) = IdsOf(es) \ Dropped(es)
  BY <1>4, <1>5, <1>6
<1>8. ASSUME NEW j \in IdsOf(fk) PROVE EntryOf(fk, j).parent = live[EntryOf(es, j).parent]
  <2>1. PICK i \in DOMAIN fk : fk[i] = EntryOf(fk, j) /\ fk[i].id = j
    BY <1>2, EntryFound
  <2> QED
    BY <1>3, <1>4, <2>1
<1> QED
  BY <1>7, <1>8 DEF fk

(* From any entry of the source, the branch of the fork from its nearest   *)
(* live ancestor is the source's without the git entries.                  *)
LEMMA ForkedBranch ==
    ASSUME NEW es \in Seq(Entry), NEW n, Sound(es, n), NEW live, IsLive(live, es),
           ForkEntries(es) = [i \in DOMAIN Without(es, "git") |->
                                [Without(es, "git")[i] EXCEPT !.parent = live[@]]]
    PROVE  \A i \in Nat : Ids(GetBranch(ForkEntries(es), live[i])) = Ids(Without(GetBranch(es, i), "git"))
<1> DEFINE fk == ForkEntries(es)
           Same(i) == Ids(GetBranch(fk, live[i])) = Ids(Without(GetBranch(es, i), "git"))
           B == {i \in Nat : ~Same(i)}
<1>1. SUFFICES ASSUME B # {} PROVE FALSE
  OBVIOUS
<1>2. PICK j \in B : \A k \in B : j <= k
  <2>1. B \subseteq Nat
    OBVIOUS
  <2> HIDE DEF B
  <2> QED
    BY <1>1, <2>1, LeastNumber
<1> HIDE DEF Same
<1>3. j \in Nat /\ ~Same(j) /\ \A k \in Nat : k < j => Same(k)
  <2>1. j \in Nat /\ ~Same(j)
    BY <1>2
  <2>2. ASSUME NEW k \in Nat, k < j, ~Same(k) PROVE FALSE
    <3>1. k \in B
      BY <2>2
    <3> QED
      BY <1>2, <2>1, <2>2, <3>1
  <2> QED
    BY <2>1, <2>2
<1>4. fk \in Seq(Entry) /\ Sound(fk, n)
  BY ForkSound
<1>5. /\ IdsOf(fk) = IdsOf(es) \ Dropped(es)
      /\ \A k \in IdsOf(fk) : EntryOf(fk, k).parent = live[EntryOf(es, k).parent]
  BY ForkedEntry
<1> HIDE DEF fk, Same, B
<1>6. /\ \A i \in Nat : GetBranch(fk, i) = IF i \in IdsOf(fk)
                            THEN Append(GetBranch(fk, EntryOf(fk, i).parent), EntryOf(fk, i)) ELSE <<>>
      /\ \A i \in Nat : GetBranch(fk, i) \in Seq(Entry)
  BY <1>4, BranchUnfolds
<1>7. /\ \A i \in Nat : GetBranch(es, i) = IF i \in IdsOf(es)
                            THEN Append(GetBranch(es, EntryOf(es, i).parent), EntryOf(es, i)) ELSE <<>>
      /\ \A i \in Nat : GetBranch(es, i) \in Seq(Entry)
  BY BranchUnfolds
<1>8. live \in [Nat -> Nat] /\ \A i \in Nat : live[i] = IF i \in Dropped(es) THEN live[EntryOf(es, i).parent] ELSE i
  BY DEF IsLive
<1>9. Dropped(es) \subseteq IdsOf(es)
  BY DEF Dropped
<1>10. CASE j \notin IdsOf(es)
  <2>1. live[j] = j /\ GetBranch(fk, j) = <<>> /\ GetBranch(es, j) = <<>>
    BY <1>3, <1>5, <1>6, <1>7, <1>8, <1>9, <1>10
  <2>2. Without(<<>>, "git") = <<>>
    <3>1. <<>> \in Seq(Entry) /\ \A i \in 1 .. Len(<<>>) : <<>>[i] \notin {e \in Entry : e.kind # "git"}
      OBVIOUS
    <3>2. Without(<<>>, "git") = Keep(<<>>, {e \in Entry : e.kind # "git"})
      BY <3>1, WithoutIs
    <3> QED
      BY <3>1, <3>2, KeepNone
  <2>3. Same(j)
    BY <2>1, <2>2 DEF Same
  <2> QED
    BY <1>3, <2>3
<1> DEFINE e == EntryOf(es, j)
           p == e.parent
           b == GetBranch(es, p)
<1>11. ASSUME j \in IdsOf(es)
       PROVE  e \in Entry /\ e.id = j /\ p \in Nat /\ p < j /\ b \in Seq(Entry) /\ Same(p) /\ GetBranch(es, j) = Append(b, e)
  <2>1. e \in Entry /\ e.id = j /\ \E i \in DOMAIN es : es[i] = e
    BY <1>11, EntryFound
  <2>2. p \in Nat /\ p < j
    BY <2>1, EntryNumbers DEF Sound, Proper
  <2>3. b \in Seq(Entry) /\ Same(p) /\ GetBranch(es, j) = Append(b, e)
    BY <1>3, <1>7, <1>11, <2>2
  <2> QED
    BY <2>1, <2>2, <2>3
<1>12. CASE j \in Dropped(es)
  <2>1. j \in IdsOf(es) /\ e.kind = "git" /\ live[j] = live[p]
    BY <1>3, <1>8, <1>12 DEF Dropped
  <2>2. e \in Entry /\ b \in Seq(Entry) /\ Same(p) /\ GetBranch(es, j) = Append(b, e)
    BY <1>11, <2>1
  <2>3. Ids(GetBranch(fk, live[p])) = Ids(Without(b, "git"))
    BY <2>2 DEF Same
  <2> HIDE DEF e, p, b
  <2>4. Without(Append(b, e), "git") = Without(b, "git")
    BY <2>1, <2>2, WithoutAppend
  <2>5. Same(j)
    BY <2>1, <2>2, <2>3, <2>4 DEF Same
  <2> QED
    BY <1>3, <2>5
<1>13. CASE j \in IdsOf(es) \ Dropped(es)
  <2> DEFINE x == EntryOf(fk, j)
             c == GetBranch(fk, live[p])
  <2>1. e \in Entry /\ e.id = j /\ p \in Nat /\ b \in Seq(Entry) /\ Same(p) /\ GetBranch(es, j) = Append(b, e)
    BY <1>11, <1>13
  <2>2. e.kind # "git" /\ live[j] = j /\ live[p] \in Nat /\ j \in IdsOf(fk)
    BY <1>3, <1>5, <1>8, <1>13, <2>1 DEF Dropped
  <2>3. x \in Entry /\ x.id = j
    BY <1>4, <2>2, EntryFound
  <2>4. GetBranch(fk, j) = Append(c, x) /\ c \in Seq(Entry)
    BY <1>3, <1>5, <1>6, <2>2
  <2>5. Ids(c) = Ids(Without(b, "git"))
    BY <2>1 DEF Same
  <2> HIDE DEF e, p, b, x, c
  <2>6. Without(Append(b, e), "git") = Append(Without(b, "git"), e)
    BY <2>1, <2>2, WithoutAppend
  <2>7. Without(b, "git") \in Seq(Entry)
    <3>1. Without(b, "git") = Keep(b, {y \in Entry : y.kind # "git"})
      BY <2>1, WithoutIs
    <3> QED
      BY <2>1, <3>1, KeepMembers
  <2>8. Ids(Append(c, x)) = Append(Ids(c), x.id)
    BY <2>3, <2>4, NumbersAppend
  <2>9. Ids(Append(Without(b, "git"), e)) = Append(Ids(Without(b, "git")), e.id)
    BY <2>1, <2>7, NumbersAppend
  <2>10. Same(j)
    BY <2>1, <2>2, <2>3, <2>4, <2>5, <2>6, <2>8, <2>9 DEF Same
  <2> QED
    BY <1>3, <2>10
<1> QED
  BY <1>10, <1>12, <1>13

(* forkFrom links every entry to its nearest ancestor that is not a git    *)
(* entry, so each branch of the source is in the fork.                     *)
THEOREM ForkBranchesKept == Spec => ForkKeepsBranches
<1> DEFINE A == \A src \in File : ForkFrom(src) =>
                  \A id \in IdsOf(entries') :
                    Ids(GetBranch(entries', id))
                    = Ids(Without(GetBranch(LoadEntries(disk[src]), id), "git"))
<1>1. ASSUME TreeInv PROVE A
  <2> SUFFICES ASSUME NEW src \in File, ForkFrom(src), NEW id \in IdsOf(entries')
               PROVE  Ids(GetBranch(entries', id))
                      = Ids(Without(GetBranch(LoadEntries(disk[src]), id), "git"))
    OBVIOUS
  <2> DEFINE es == LoadEntries(disk[src])
  <2>1. es \in Seq(Entry) /\ Sound(es, nextId)
    BY <1>1, ForkedEntries
  <2>2. entries' = ForkEntries(es)
    BY DEF ForkFrom
  <2> HIDE DEF es
  <2>3. PICK live : /\ IsLive(live, es)
                    /\ ForkEntries(es) = [i \in DOMAIN Without(es, "git") |->
                          [Without(es, "git")[i] EXCEPT !.parent = live[@]]]
    BY <2>1, ForkShape
  <2>4. id \in IdsOf(es) \ Dropped(es)
    BY <2>1, <2>2, <2>3, ForkedEntry
  <2>5. id \in Nat
    <3>1. IdsOf(es) \subseteq Id
      BY <2>1, IdsAreIds
    <3> QED
      BY <2>4, <3>1, SessionTreeAssumption DEF Id
  <2>6. live[id] = id
    BY <2>3, <2>4, <2>5 DEF IsLive
  <2>7. Ids(GetBranch(ForkEntries(es), live[id])) = Ids(Without(GetBranch(es, id), "git"))
    BY <2>1, <2>3, <2>5, ForkedBranch
  <2> QED
    BY <2>2, <2>6, <2>7 DEF es
<1>2. TreeInv /\ [Next]_vars => [A]_vars
  BY <1>1
<1> QED
  BY <1>2, TreeInvariant, PTL DEF Spec, ForkKeepsBranches
-----------------------------------------------------------------------------
(* A clone keeps what the model sees.                                      *)

(* What follows and is not kept changes nothing.                           *)
LEMMA KeepBefore ==
    ASSUME NEW T, NEW s \in Seq(T), NEW t \in Seq(T), NEW S, \A i \in 1 .. Len(t) : t[i] \notin S
    PROVE  Keep(s \o t, S) = Keep(s, S)
<1> DEFINE st == s \o t
           k == Keep(s, S)
<1>1. /\ st \in Seq(T) /\ Len(st) = Len(s) + Len(t) /\ \A i \in 1 .. Len(s) : st[i] = s[i]
      /\ \A i \in Len(s) + 1 .. Len(s) + Len(t) : st[i] = t[i - Len(s)] /\ i - Len(s) \in 1 .. Len(t)
  OBVIOUS
<1>2. k \in Seq(T)
  BY KeepMembers
<1>3. PICK f : ReadAt(f, k, s, S)
  BY KeepIndices
<1> HIDE DEF st, k
<1>4. KeptAt(st, S) = KeptAt(s, S)
  <2>1. ASSUME NEW i \in 1 .. Len(st), st[i] \in S PROVE i \in 1 .. Len(s)
    <3>1. CASE i > Len(s)
      <4>1. i \in Len(s) + 1 .. Len(s) + Len(t)
        BY <1>1, <3>1
      <4> QED
        BY <1>1, <2>1, <4>1
    <3> QED
      BY <1>1, <3>1
  <2>2. \A i \in 1 .. Len(s) : i \in 1 .. Len(st)
    BY <1>1
  <2> QED
    BY <1>1, <2>1, <2>2 DEF KeptAt
<1>5. KeptAt(s, S) \subseteq 1 .. Len(s)
  BY DEF KeptAt
<1>6. ReadAt(f, k, st, S)
  BY <1>1, <1>3, <1>4, <1>5 DEF ReadAt
<1> QED
  BY <1>1, <1>2, <1>6, KeepIs DEF st, k

(* Label entries are not part of what the model sees.                      *)
LEMMA ContextBefore ==
    ASSUME NEW s \in Seq(Entry), NEW l \in Seq(Entry), \A i \in 1 .. Len(l) : l[i].kind = "label"
    PROVE  ContextIds(s \o l) = ContextIds(s)
<1> DEFINE R == {e \in Entry : InContext(e)}
<1>1. ASSUME NEW t \in Seq(Entry) PROVE ContextIds(t) = Ids(Keep(t, R))
  <2> DEFINE S == {e \in ToSet(t) : InContext(e)}
  <2>1. KeptAt(t, S) = KeptAt(t, R)
    BY DEF KeptAt, ToSet
  <2> HIDE DEF S, R
  <2>2. Keep(t, S) = Keep(t, R)
    BY <2>1, KeepSame
  <2> QED
    BY <2>2 DEF ContextIds, S
<1>2. \A i \in 1 .. Len(l) : l[i] \notin R
  BY DEF InContext
<1>3. s \o l \in Seq(Entry)
  OBVIOUS
<1> HIDE DEF R
<1>4. Keep(s \o l, R) = Keep(s, R)
  BY <1>2, KeepBefore
<1> QED
  BY <1>1, <1>3, <1>4

(* A set of indices has a last one.                                        *)
LEMMA LastIndex ==
    ASSUME NEW n \in Nat, NEW C, C \subseteq 1 .. n, C # {}
    PROVE  \E i \in C : \A j \in C : j <= i
<1> DEFINE J == {x \in Nat : x <= n /\ n - x \in C}
<1>1. J \subseteq Nat /\ J # {}
  <2>1. PICK i \in C : TRUE
    OBVIOUS
  <2>2. n - i \in Nat /\ n - i <= n /\ n - (n - i) = i
    BY <2>1
  <2>3. n - i \in J
    BY <2>1, <2>2
  <2> QED
    BY <2>3
<1>2. \A j \in C : n - j \in J
  BY SMT
<1>3. \A x \in J : x \in Nat /\ n - x \in C
  OBVIOUS
<1> HIDE DEF J
<1>4. PICK x \in J : \A y \in J : x <= y
  BY <1>1, LeastNumber
<1>5. \A j \in C : j <= n - x
  BY <1>2, <1>3, <1>4
<1> QED
  BY <1>3, <1>5

(* What follows the first k members.                                       *)
LEMMA Rest ==
    ASSUME NEW T, NEW s \in Seq(T), NEW k \in 0 .. Len(s)
    PROVE  LET r == SubSeq(s, k + 1, Len(s))
           IN  r \in Seq(T) /\ Len(r) = Len(s) - k /\ \A i \in 1 .. Len(s) - k : r[i] = s[i + k]
OBVIOUS

(* One sequence behind the other.                                          *)
LEMMA Joined ==
    ASSUME NEW T, NEW s \in Seq(T), NEW t \in Seq(T), NEW n, n = Len(s)
    PROVE  /\ s \o t \in Seq(T) /\ Len(s \o t) = n + Len(t) /\ \A i \in 1 .. n : (s \o t)[i] = s[i]
           /\ \A i \in n + 1 .. n + Len(t) : (s \o t)[i] = t[i - n]
OBVIOUS

(* buildSessionContext is the same for a branch and for the branch with    *)
(* label entries behind it.                                                *)
LEMMA LabelsUnseen ==
    ASSUME NEW b \in Seq(Entry), NEW l \in Seq(Entry), \A i \in 1 .. Len(l) : l[i].kind = "label"
    PROVE  ContextOf(b \o l) = ContextOf(b)
<1> DEFINE p == b \o l
           Marks(q) == {i \in DOMAIN q : q[i].kind = "compaction"}
           last(q) == CHOOSE i \in Marks(q) : \A j \in Marks(q) : j <= i
           kept(q) == {i \in 1 .. last(q) - 1 : q[i].id = q[last(q)].ref}
           first(q) == CHOOSE i \in kept(q) : TRUE
           retained(q) == IF kept(q) = {} THEN <<>> ELSE SubSeq(q, first(q), last(q) - 1)
           Context(q) == IF Marks(q) = {} THEN ContextIds(q)
                         ELSE <<q[last(q)].id>> \o ContextIds(retained(q))
                              \o ContextIds(SubSeq(q, last(q) + 1, Len(q)))
<1>1. \A q : ContextOf(q) = Context(q)
  BY DEF ContextOf
<1>2. /\ p \in Seq(Entry) /\ Len(p) = Len(b) + Len(l) /\ Len(b) \in Nat /\ Len(l) \in Nat /\ DOMAIN p = 1 .. Len(p)
      /\ \A i \in 1 .. Len(b) : p[i] = b[i] /\ i \in DOMAIN p
      /\ \A i \in Len(b) + 1 .. Len(p) : p[i] = l[i - Len(b)] /\ i - Len(b) \in 1 .. Len(l)
  OBVIOUS
<1>3. ContextIds(p) = ContextIds(b)
  BY ContextBefore
<1>c. \A s \in Seq(Entry) : ContextIds(s \o l) = ContextIds(s)
  BY ContextBefore
<1> HIDE DEF p
<1>4. Marks(p) = Marks(b)
  <2>1. \A i \in 1 .. Len(p) : i \in 1 .. Len(b) \/ i \in Len(b) + 1 .. Len(p)
    BY <1>2
  <2>2. \A i \in Len(b) + 1 .. Len(p) : p[i].kind = "label"
    BY <1>2
  <2>3. DOMAIN b = 1 .. Len(b)
    OBVIOUS
  <2> QED
    BY <1>2, <2>1, <2>2, <2>3
<1>5. CASE Marks(b) = {}
  BY <1>1, <1>3, <1>4, <1>5 DEF p
<1>6. CASE Marks(b) # {}
  <2> DEFINE k == last(b)
  <2>1. last(p) = k
    BY <1>4
  <2>2. k \in Marks(b)
    <3>1. Marks(b) \subseteq 1 .. Len(b)
      OBVIOUS
    <3> HIDE DEF Marks
    <3>2. \E i \in Marks(b) : \A j \in Marks(b) : j <= i
      BY <1>2, <1>6, <3>1, LastIndex
    <3> QED
      BY <3>2
  <2>3. k \in 1 .. Len(b) /\ p[k] = b[k]
    BY <1>2, <2>2
  <2> HIDE DEF last, k
  <2>4. kept(p) = kept(b) /\ kept(b) \subseteq 1 .. k - 1
    <3>1. \A i \in 1 .. k - 1 : p[i] = b[i]
      BY <1>2, <2>3
    <3>2. kept(p) = {i \in 1 .. k - 1 : p[i].id = p[k].ref} /\ kept(b) = {i \in 1 .. k - 1 : b[i].id = b[k].ref}
      BY <2>1 DEF k
    <3> QED
      BY <2>3, <3>1, <3>2
  <2>5. first(p) = first(b)
    BY <2>4
  <2>6. retained(p) = retained(b)
    <3>1. CASE kept(b) = {}
      BY <2>4, <3>1
    <3>2. CASE kept(b) # {}
      <4> DEFINE c == first(b)
      <4>1. c \in 1 .. k - 1
        BY <2>4, <3>2
      <4>2. retained(p) = SubSeq(p, c, k - 1) /\ retained(b) = SubSeq(b, c, k - 1)
        BY <2>1, <2>4, <2>5, <3>2 DEF k
      <4> HIDE DEF c
      <4>3. SubSeq(p, c, k - 1) = [i \in 1 .. (k - 1) - c + 1 |-> p[i + c - 1]]
            /\ SubSeq(b, c, k - 1) = [i \in 1 .. (k - 1) - c + 1 |-> b[i + c - 1]]
        BY <1>2, <2>3, <4>1
      <4>4. ASSUME NEW i \in 1 .. (k - 1) - c + 1 PROVE p[i + c - 1] = b[i + c - 1]
        <5>1. i + c - 1 \in 1 .. Len(b)
          BY <1>2, <2>3, <4>1
        <5> QED
          BY <1>2, <5>1
      <4> QED
        BY <4>2, <4>3, <4>4
    <3> QED
      BY <3>1, <3>2
  <2>7. SubSeq(p, k + 1, Len(p)) = SubSeq(b, k + 1, Len(b)) \o l /\ SubSeq(b, k + 1, Len(b)) \in Seq(Entry)
    <3> DEFINE r == SubSeq(b, k + 1, Len(b))
               u == SubSeq(p, k + 1, Len(p))
               v == r \o l
    <3>1. r \in Seq(Entry) /\ Len(r) = Len(b) - k /\ \A i \in 1 .. Len(b) - k : r[i] = b[i + k]
      BY <2>3
    <3>2. u \in Seq(Entry) /\ Len(u) = Len(p) - k /\ \A i \in 1 .. Len(p) - k : u[i] = p[i + k]
      <4>1. k \in 0 .. Len(p)
        BY <1>2, <2>3
      <4> QED
        BY <1>2, <4>1, Rest
    <3> HIDE DEF r, u
    <3>3. /\ v \in Seq(Entry) /\ Len(v) = Len(b) - k + Len(l) /\ \A i \in 1 .. Len(b) - k : v[i] = r[i]
          /\ \A i \in Len(b) - k + 1 .. Len(b) - k + Len(l) : v[i] = l[i - (Len(b) - k)]
      BY <3>1, Joined
    <3> HIDE DEF v
    <3>4. Len(u) = Len(v) /\ Len(u) \in Nat
      BY <1>2, <2>3, <3>2, <3>3
    <3>5. ASSUME NEW i \in 1 .. Len(u) PROVE u[i] = v[i]
      <4>1. CASE i <= Len(b) - k
        BY <1>2, <2>3, <3>1, <3>2, <3>3, <3>5, <4>1
      <4>2. CASE i > Len(b) - k
        <5>1. i + k \in Len(b) + 1 .. Len(p) /\ (i + k) - Len(b) = i - (Len(b) - k)
          BY <1>2, <2>3, <3>2, <3>5, <4>2
        <5>2. i \in Len(b) - k + 1 .. Len(b) - k + Len(l) /\ i \in 1 .. Len(p) - k
          BY <1>2, <2>3, <3>2, <3>5, <4>2
        <5> QED
          BY <1>2, <3>2, <3>3, <5>1, <5>2
      <4> QED
        BY <2>3, <3>1, <4>1, <4>2
    <3>6. u = v
      BY <3>2, <3>3, <3>4, <3>5
    <3> QED
      BY <3>1, <3>6 DEF r, u, v
  <2>8. ContextIds(SubSeq(p, k + 1, Len(p))) = ContextIds(SubSeq(b, k + 1, Len(b)))
    BY <1>c, <2>7
  <2>9. Context(p) = <<b[k].id>> \o ContextIds(retained(b)) \o ContextIds(SubSeq(b, k + 1, Len(b)))
    <3>1. Marks(p) # {}
      BY <1>4, <1>6
    <3>2. Context(p) = <<p[last(p)].id>> \o ContextIds(retained(p)) \o ContextIds(SubSeq(p, last(p) + 1, Len(p)))
      BY <3>1
    <3> HIDE DEF Context, retained
    <3> QED
      BY <2>1, <2>3, <2>6, <2>8, <3>2
  <2>10. Context(b) = <<b[k].id>> \o ContextIds(retained(b)) \o ContextIds(SubSeq(b, k + 1, Len(b)))
    BY <1>6 DEF k
  <2>11. Context(p) = Context(b)
    BY <2>9, <2>10
  <2> HIDE DEF Context
  <2> QED
    BY <1>1, <2>11 DEF p
<1> QED
  BY <1>5, <1>6

(* A path: every entry hangs below the one before it.                      *)
Chain(c) == \A i \in DOMAIN c : i > 1 => c[i].parent = c[i - 1].id

(* A branch is a path that ends with the entry it leads to.                *)
LEMMA BranchChain ==
    ASSUME NEW es \in Seq(Entry), NEW n, Sound(es, n)
    PROVE  \A j \in Nat : /\ Chain(GetBranch(es, j))
                          /\ GetBranch(es, j) # <<>> => GetBranch(es, j)[Len(GetBranch(es, j))].id = j
<1> DEFINE b(j) == GetBranch(es, j)
           P(j) == Chain(b(j)) /\ (b(j) # <<>> => b(j)[Len(b(j))].id = j)
           B == {j \in Nat : ~P(j)}
<1>1. SUFFICES ASSUME B # {} PROVE FALSE
  OBVIOUS
<1> HIDE DEF P
<1>2. PICK j \in B : \A k \in B : j <= k
  <2>1. B \subseteq Nat
    OBVIOUS
  <2> HIDE DEF B
  <2> QED
    BY <1>1, <2>1, LeastNumber
<1>3. j \in Nat /\ ~P(j) /\ \A k \in Nat : k < j => P(k)
  <2>1. j \in Nat /\ ~P(j)
    BY <1>2
  <2>2. ASSUME NEW k \in Nat, k < j, ~P(k) PROVE FALSE
    <3>1. k \in B
      BY <2>2
    <3> QED
      BY <1>2, <2>1, <2>2, <3>1
  <2> QED
    BY <2>1, <2>2
<1> HIDE DEF B
<1>4. /\ \A i \in Nat : b(i) = IF i \in IdsOf(es) THEN Append(b(EntryOf(es, i).parent), EntryOf(es, i)) ELSE <<>>
      /\ \A i \in Nat : b(i) \in Seq(Entry)
  BY BranchUnfolds
<1> HIDE DEF b
<1>5. CASE j \notin IdsOf(es)
  <2>1. b(j) = <<>>
    BY <1>3, <1>4, <1>5
  <2>2. P(j)
    BY <2>1 DEF P, Chain
  <2> QED
    BY <1>3, <2>2
<1>6. CASE j \in IdsOf(es)
  <2> DEFINE e == EntryOf(es, j)
             p == e.parent
             c == b(p)
  <2>1. e \in Entry /\ e.id = j /\ \E i \in DOMAIN es : es[i] = e
    BY <1>6, EntryFound
  <2>2. p \in Nat /\ p < j
    BY <2>1, EntryNumbers DEF Sound, Proper
  <2>3. c \in Seq(Entry) /\ P(p) /\ b(j) = Append(c, e)
    BY <1>3, <1>4, <1>6, <2>2
  <2>4. Chain(c) /\ (c # <<>> => c[Len(c)].id = e.parent)
    BY <2>3 DEF P
  <2> HIDE DEF e, p, c
  <2> DEFINE t == Append(c, e)
  <2>5. /\ t # <<>> /\ Len(t) = Len(c) + 1 /\ DOMAIN t = 1 .. Len(c) + 1 /\ Len(c) \in Nat
        /\ t[Len(c) + 1] = e /\ \A i \in 1 .. Len(c) : t[i] = c[i]
    BY <2>1, <2>3
  <2> HIDE DEF t
  <2>6. Chain(t)
    <3> SUFFICES ASSUME NEW i \in 1 .. Len(c) + 1, i > 1 PROVE t[i].parent = t[i - 1].id
      BY <2>5 DEF Chain
    <3>1. CASE i \in 1 .. Len(c)
      <4>1. i - 1 \in 1 .. Len(c) /\ i \in DOMAIN c
        BY <2>3, <3>1
      <4> QED
        BY <2>4, <2>5, <3>1, <4>1 DEF Chain
    <3>2. CASE i = Len(c) + 1
      <4>1. c # <<>> /\ i - 1 = Len(c) /\ i - 1 \in 1 .. Len(c)
        BY <2>3, <2>5, <3>2
      <4> QED
        BY <2>4, <2>5, <3>2, <4>1
    <3> QED
      BY <2>5, <3>1, <3>2
  <2>7. t[Len(t)].id = j
    BY <2>1, <2>5
  <2>8. b(j) = t
    BY <2>3 DEF t
  <2>9. P(j)
    BY <2>6, <2>7, <2>8 DEF P
  <2> QED
    BY <1>3, <2>9
<1> QED
  BY <1>5, <1>6

(* On a path, the branch of its i-th entry is its first i entries.         *)
LEMMA ChainBranch ==
    ASSUME NEW c \in Seq(Entry), NEW n, Sound(c, n), Chain(c)
    PROVE  \A i \in 1 .. Len(c) : GetBranch(c, c[i].id) = SubSeq(c, 1, i)
<1> DEFINE P(i) == GetBranch(c, c[i].id) = SubSeq(c, 1, i)
           B == {i \in 1 .. Len(c) : ~P(i)}
<1>1. SUFFICES ASSUME B # {} PROVE FALSE
  OBVIOUS
<1> HIDE DEF P
<1>2. PICK j \in B : \A k \in B : j <= k
  <2>1. B \subseteq Nat
    OBVIOUS
  <2> HIDE DEF B
  <2> QED
    BY <1>1, <2>1, LeastNumber
<1>3. j \in 1 .. Len(c) /\ j \in DOMAIN c /\ ~P(j) /\ \A k \in 1 .. Len(c) : k < j => P(k)
  <2>1. j \in 1 .. Len(c) /\ ~P(j) /\ j \in DOMAIN c
    BY <1>2
  <2>2. ASSUME NEW k \in 1 .. Len(c), k < j, ~P(k) PROVE FALSE
    <3>1. k \in B
      BY <2>2
    <3> QED
      BY <1>2, <2>1, <2>2, <3>1
  <2> QED
    BY <2>1, <2>2
<1> HIDE DEF B
<1>4. c[j] \in Entry /\ c[j].id \in IdsOf(c) /\ EntryOf(c, c[j].id) = c[j] /\ c[j].id \in Nat /\ c[j].parent \in Nat
  BY <1>3, NumberedOnce, EntryNumbers
<1>5. GetBranch(c, c[j].id) = Append(GetBranch(c, c[j].parent), c[j])
  BY <1>4, BranchUnfolds
<1>6. CASE j = 1
  <2>1. c[j].parent \notin IdsOf(c)
    <3> SUFFICES ASSUME NEW i \in DOMAIN c, c[i].id = c[j].parent PROVE FALSE
      BY DEF IdsOf
    <3>1. c[j].parent < c[j].id
      BY <1>3, <1>4 DEF Sound, Proper
    <3>2. i > 1 => c[1].id < c[i].id
      BY <1>3, <1>4, <1>6 DEF Sound
    <3>3. c[i].id \in Nat /\ c[i] \in Entry
      BY EntryNumbers
    <3> QED
      BY <1>4, <1>6, <3>1, <3>2, <3>3
  <2>2. GetBranch(c, c[j].parent) = <<>>
    BY <1>4, <2>1, BranchUnfolds
  <2>3. SubSeq(c, 1, 1) = Append(<<>>, c[1])
    <3> DEFINE u == SubSeq(c, 1, 1)
               v == Append(<<>>, c[1])
    <3>1. u \in Seq(Entry) /\ Len(u) = 1 /\ u[1] = c[1]
      BY <1>3, <1>6
    <3>2. v \in Seq(Entry) /\ Len(v) = 1 /\ v[1] = c[1]
      BY <1>4, <1>6
    <3> HIDE DEF u, v
    <3>3. u = v
      BY <3>1, <3>2
    <3> QED
      BY <3>3 DEF u, v
  <2>4. P(j)
    BY <1>5, <1>6, <2>2, <2>3 DEF P
  <2> QED
    BY <1>3, <2>4
<1>7. CASE j > 1
  <2>1. c[j].parent = c[j - 1].id
    BY <1>3, <1>7 DEF Chain
  <2>2. j - 1 \in 1 .. Len(c) /\ j - 1 < j
    BY <1>3, <1>7
  <2>3. GetBranch(c, c[j - 1].id) = SubSeq(c, 1, j - 1)
    BY <1>3, <2>2 DEF P
  <2>4. Append(SubSeq(c, 1, j - 1), c[j]) = SubSeq(c, 1, j)
    BY <1>3, <2>2
  <2>5. P(j)
    BY <1>5, <2>1, <2>3, <2>4 DEF P
  <2> QED
    BY <1>3, <2>5
<1> QED
  BY <1>3, <1>6, <1>7

(* The labels written behind a path continue it.                           *)
LEMMA LabelsLinked ==
    ASSUME TypeOK, NEW path \in Seq(Entry), Sound(path, nextId)
    PROVE  LET ls == LabelEntries(path)
           IN  /\ Len(ls) \in Nat /\ DOMAIN ls = 1 .. Len(ls) /\ ls = [i \in 1 .. Len(ls) |-> ls[i]]
               /\ \A i \in 1 .. Len(ls) :
                    /\ ls[i].kind = "label" /\ ls[i].id = nextId + i - 1
                    /\ ls[i].parent = IF i = 1 THEN LeafOf(path) ELSE nextId + i - 2
<1> DEFINE ls == LabelEntries(path)
           ts == Keep(Ids(path), labels)
           m == Len(ts)
<1>1. m \in Nat /\ ls = [i \in 1 .. m |-> ls[i]]
  BY LabelCount
<1>2. Ids(path) \in Seq(Nat)
  BY EntryNumbers DEF Ids
<1>3. DOMAIN ts = 1 .. m
  BY <1>2, KeepIndices
<1>4. \A i \in 1 .. m :
        ls[i] = [id |-> nextId + i - 1, parent |-> IF i = 1 THEN LeafOf(path) ELSE nextId + i - 2,
                 kind |-> "label", ref |-> ts[i], on |-> TRUE]
  BY <1>3 DEF LabelEntries
<1> HIDE DEF ls, ts
<1>5. Len(ls) = m /\ DOMAIN ls = 1 .. m
  BY <1>1
<1>6. \A i \in 1 .. m : /\ ls[i].kind = "label" /\ ls[i].id = nextId + i - 1
                        /\ ls[i].parent = IF i = 1 THEN LeafOf(path) ELSE nextId + i - 2
  <2> TAKE i \in 1 .. m
  <2> DEFINE q == IF i = 1 THEN LeafOf(path) ELSE nextId + i - 2
             d == nextId + i - 1
  <2>1. ls[i] = [id |-> d, parent |-> q, kind |-> "label", ref |-> ts[i], on |-> TRUE]
    BY <1>4
  <2> HIDE DEF q, d
  <2>2. ls[i].kind = "label" /\ ls[i].id = d /\ ls[i].parent = q
    BY <2>1
  <2> QED
    BY <2>2 DEF q, d
<1> HIDE DEF m
<1> QED
  BY <1>1, <1>5, <1>6 DEF ls

(* The entries of a clone are one path when no label entry was dropped     *)
(* from it, and the branch to its leaf is all of it.                       *)
LEMMA CloneIsChain ==
    ASSUME TreeInv, NEW at \in IdsOf(entries), nextId + Cardinality(labels) <= MaxEntries + 1,
           \A i \in DOMAIN GetBranch(entries, at) : GetBranch(entries, at)[i].kind # "label"
    PROVE  /\ BranchedEntries(at) = GetBranch(entries, at) \o LabelEntries(GetBranch(entries, at))
           /\ GetBranch(BranchedEntries(at), LeafOf(BranchedEntries(at))) = BranchedEntries(at)
           /\ GetBranch(entries, at) \in Seq(Entry) /\ LabelEntries(GetBranch(entries, at)) \in Seq(Entry)
           /\ \A i \in 1 .. Len(LabelEntries(GetBranch(entries, at))) :
                LabelEntries(GetBranch(entries, at))[i].kind = "label"
<1> DEFINE b == GetBranch(entries, at)
           ls == LabelEntries(b)
           c == b \o ls
<1>1. TypeOK /\ entries \in Seq(Entry) /\ Sound(entries, nextId) /\ nextId \in Nat /\ at \in Nat
  BY FilesOfInv, IdsAreIds, SessionTreeAssumption DEF TreeInv, Id
<1>2. b \in Seq(Entry) /\ Sound(b, nextId)
  BY <1>1, BranchSound
<1>3. b # <<>> /\ Chain(b)
  <2>1. EntryOf(entries, at) \in Entry
    BY <1>1, EntryFound
  <2>2. b = Append(GetBranch(entries, EntryOf(entries, at).parent), EntryOf(entries, at))
    BY <1>1, BranchUnfolds
  <2>3. GetBranch(entries, EntryOf(entries, at).parent) \in Seq(Entry)
    BY <1>1, <2>1, EntryNumbers, BranchUnfolds
  <2>4. b # <<>>
    BY <2>1, <2>2, <2>3
  <2>5. Chain(b)
    BY <1>1, BranchChain
  <2> QED
    BY <2>4, <2>5
<1>4. PathTo(at) = b
  <2>1. Without(b, "label") = Keep(b, {e \in Entry : e.kind # "label"})
    BY <1>2, WithoutIs
  <2>2. \A i \in 1 .. Len(b) : b[i] \in {e \in Entry : e.kind # "label"}
    BY <1>2
  <2> HIDE DEF b
  <2>3. Keep(b, {e \in Entry : e.kind # "label"}) = b
    BY <1>2, <2>2, KeepAll
  <2> QED
    BY <2>1, <2>3 DEF PathTo, b
<1>5. BranchedEntries(at) = c
  BY <1>4 DEF BranchedEntries
<1>6. c \in Seq(Entry) /\ Sound(c, nextId + Len(ls))
  BY <1>1, <1>4, <1>5, BranchedSound
<1> HIDE DEF b
<1>7. /\ Len(ls) \in Nat /\ DOMAIN ls = 1 .. Len(ls) /\ ls = [i \in 1 .. Len(ls) |-> ls[i]]
      /\ \A i \in 1 .. Len(ls) :
           /\ ls[i].kind = "label" /\ ls[i].id = nextId + i - 1
           /\ ls[i].parent = IF i = 1 THEN LeafOf(b) ELSE nextId + i - 2
  BY <1>1, <1>2, LabelsLinked
<1> HIDE DEF ls
<1> DEFINE k == Len(b)
           m == Len(ls)
<1>8. /\ DOMAIN c = 1 .. k + m /\ Len(c) = k + m /\ k \in Nat /\ k > 0 /\ m \in Nat
      /\ \A i \in 1 .. k : c[i] = b[i]
      /\ \A i \in k + 1 .. k + m : c[i] = ls[i - k] /\ i - k \in 1 .. m
  <2>1. ls \in Seq({ls[i] : i \in 1 .. Len(ls)})
    BY <1>7
  <2> QED
    BY <1>2, <1>3, <2>1
<1> HIDE DEF c
<1>9. ls \in Seq(Entry)
  <2>1. ASSUME NEW i \in 1 .. m PROVE ls[i] \in Entry
    <3>1. i + k \in k + 1 .. k + m /\ (i + k) - k = i /\ i + k \in DOMAIN c
      BY <1>8
    <3>2. c[i + k] \in Entry
      BY <1>6, <3>1
    <3> QED
      BY <1>8, <3>1, <3>2
  <2> QED
    BY <1>7, <2>1
<1>10. Chain(c)
  <2> SUFFICES ASSUME NEW i \in 1 .. k + m, i > 1 PROVE c[i].parent = c[i - 1].id
    BY <1>8 DEF Chain
  <2>1. CASE i <= k
    <3>1. i \in 1 .. k /\ i - 1 \in 1 .. k /\ i \in DOMAIN b
      BY <1>2, <1>8, <2>1
    <3> QED
      BY <1>3, <1>8, <3>1 DEF Chain
  <2>2. CASE i = k + 1
    <3>1. i \in k + 1 .. k + m /\ i - k = 1 /\ 1 \in 1 .. m /\ i - 1 = k /\ k \in 1 .. k
      BY <1>8, <2>2
    <3>2. c[i] = ls[1] /\ c[i - 1] = b[k]
      BY <1>8, <3>1
    <3>3. ls[1].parent = LeafOf(b)
      BY <1>7, <3>1
    <3>4. LeafOf(b) = b[k].id
      BY <1>3 DEF LeafOf
    <3> QED
      BY <3>2, <3>3, <3>4
  <2>3. CASE i > k + 1
    <3>1. /\ i \in k + 1 .. k + m /\ i - 1 \in k + 1 .. k + m /\ i - k # 1 /\ i - k \in 1 .. m
          /\ (i - 1) - k \in 1 .. m /\ nextId + (i - k) - 2 = nextId + ((i - 1) - k) - 1
      BY <1>1, <1>8, <2>3
    <3>2. c[i] = ls[i - k] /\ c[i - 1] = ls[(i - 1) - k]
      BY <1>8, <3>1
    <3>3. ls[i - k].parent = nextId + (i - k) - 2
      BY <1>7, <3>1
    <3>4. ls[(i - 1) - k].id = nextId + ((i - 1) - k) - 1
      BY <1>7, <3>1
    <3> QED
      BY <3>1, <3>2, <3>3, <3>4
  <2> QED
    BY <1>8, <2>1, <2>2, <2>3
<1>11. GetBranch(c, LeafOf(c)) = c
  <2>1. c # <<>> /\ Len(c) \in 1 .. Len(c) /\ LeafOf(c) = c[Len(c)].id
    BY <1>6, <1>8 DEF LeafOf
  <2>2. GetBranch(c, c[Len(c)].id) = SubSeq(c, 1, Len(c))
    BY <1>6, <1>10, <2>1, ChainBranch
  <2>3. SubSeq(c, 1, Len(c)) = c
    BY <1>6
  <2> QED
    BY <2>1, <2>2, <2>3
<1>12. \A i \in 1 .. Len(ls) : ls[i].kind = "label"
  BY <1>7
<1> QED
  BY <1>2, <1>5, <1>9, <1>11, <1>12 DEF b, ls, c

(* createBranchedSession keeps the conversation the model sees, unless a   *)
(* label entry stands on the path.                                         *)
THEOREM BranchContextKept == Spec => BranchKeepsContext
<1> DEFINE A == \A at \in Id : CreateBranchedSession(at)
                    /\ (\A i \in DOMAIN GetBranch(entries, at) : GetBranch(entries, at)[i].kind # "label")
                  => BuildSessionContext(entries', leaf') = BuildSessionContext(entries, at)
<1>1. ASSUME TreeInv PROVE A
  <2> SUFFICES ASSUME NEW at \in Id, CreateBranchedSession(at),
                      \A i \in DOMAIN GetBranch(entries, at) : GetBranch(entries, at)[i].kind # "label"
               PROVE  BuildSessionContext(entries', leaf') = BuildSessionContext(entries, at)
    OBVIOUS
  <2>1. /\ at \in IdsOf(entries) /\ nextId + Cardinality(labels) <= MaxEntries + 1
        /\ entries' = BranchedEntries(at) /\ leaf' = LeafOf(BranchedEntries(at))
    BY DEF CreateBranchedSession
  <2> DEFINE b == GetBranch(entries, at)
             ls == LabelEntries(b)
             c == BranchedEntries(at)
  <2>2. /\ c = b \o ls /\ GetBranch(c, LeafOf(c)) = c /\ b \in Seq(Entry) /\ ls \in Seq(Entry)
        /\ \A i \in 1 .. Len(ls) : ls[i].kind = "label"
    BY <1>1, <2>1, CloneIsChain
  <2> HIDE DEF b, ls, c
  <2>3. ContextOf(b \o ls) = ContextOf(b)
    BY <2>2, LabelsUnseen
  <2>4. BuildSessionContext(c, LeafOf(c)) = ContextOf(b)
    BY <2>2, <2>3 DEF BuildSessionContext
  <2> QED
    BY <2>1, <2>4 DEF BuildSessionContext, b, c
<1>2. TreeInv /\ [Next]_vars => [A]_vars
  BY <1>1
<1> QED
  BY <1>2, TreeInvariant, PTL DEF Spec, BranchKeepsContext
=============================================================================
