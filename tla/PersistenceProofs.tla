------------------------- MODULE PersistenceProofs -------------------------
(***************************************************************************)
(* A loaded engine says what its document says, and what was saved comes   *)
(* back: proofs about Persistence for every document and every table.      *)
(***************************************************************************)
EXTENDS Persistence, EngineStepProofs, SequenceTheorems

-----------------------------------------------------------------------------
(* Lists of lists.                                                         *)

(* No member of s is in C; the last member of s that is in C is in G.      *)
NoneIn(s, C) == \A i \in DOMAIN s : s[i] \notin C
LastIn(s, C, G) ==
  \E i \in DOMAIN s : s[i] \in G /\ \A j \in DOMAIN s : i < j => s[j] \notin C

(* A list has members of its kind.                                         *)
LEMMA ListFacts ==
  ASSUME NEW Y, NEW s \in Seq(Y)
  PROVE  /\ Len(s) \in Nat /\ DOMAIN s = 1 .. Len(s)
         /\ \A i \in 1 .. Len(s) : s[i] \in Y
OBVIOUS

(* What that means for a list made of two.                                 *)
LEMMA ConcatIn ==
  ASSUME NEW X, NEW s \in Seq(X), NEW r \in Seq(X), NEW C, NEW G
  PROVE  /\ NoneIn(s \o r, C) <=> NoneIn(s, C) /\ NoneIn(r, C)
         /\ LastIn(s \o r, C, G) <=>
              LastIn(r, C, G) \/ (NoneIn(r, C) /\ LastIn(s, C, G))
<1> DEFINE n == Len(s)
           m == Len(r)
           u == s \o r
<1>1. /\ n \in Nat /\ m \in Nat
      /\ DOMAIN s = 1 .. n /\ DOMAIN r = 1 .. m /\ DOMAIN u = 1 .. n + m
      /\ \A i \in 1 .. n : u[i] = s[i]
      /\ \A i \in 1 .. m : u[n + i] = r[i]
  OBVIOUS
<1> HIDE DEF n, m, u
<1>2. \A j \in 1 .. n + m : j \in 1 .. n \/ (j - n \in 1 .. m /\ n + (j - n) = j)
  BY <1>1
<1>3. \A i \in 1 .. m : n + i \in 1 .. n + m
  BY <1>1
<1>4. \A i \in 1 .. n : i \in 1 .. n + m
  BY <1>1
<1>5. NoneIn(u, C) <=> NoneIn(s, C) /\ NoneIn(r, C)
  <2>1. ASSUME NoneIn(u, C) PROVE NoneIn(s, C) /\ NoneIn(r, C)
    BY <1>1, <1>3, <1>4, <2>1 DEF NoneIn
  <2>2. ASSUME NoneIn(s, C), NoneIn(r, C) PROVE NoneIn(u, C)
    BY <1>1, <1>2, <2>2 DEF NoneIn
  <2> QED
    BY <2>1, <2>2
<1>6. ASSUME LastIn(u, C, G)
      PROVE  LastIn(r, C, G) \/ (NoneIn(r, C) /\ LastIn(s, C, G))
  <2>1. PICK i \in 1 .. n + m :
          u[i] \in G /\ \A j \in 1 .. n + m : i < j => u[j] \notin C
    BY <1>1, <1>6 DEF LastIn
  <2>2. CASE i \in 1 .. n
    <3>1. \A j \in 1 .. m : i < n + j
      BY <1>1, <2>2
    <3>2. NoneIn(r, C)
      BY <1>1, <1>3, <2>1, <3>1 DEF NoneIn
    <3>3. LastIn(s, C, G)
      BY <1>1, <1>4, <2>1, <2>2 DEF LastIn
    <3> QED
      BY <3>2, <3>3
  <2>3. CASE i - n \in 1 .. m /\ n + (i - n) = i
    <3>1. r[i - n] \in G
      BY <1>1, <2>1, <2>3
    <3>2. ASSUME NEW j \in 1 .. m, i - n < j PROVE r[j] \notin C
      <4>1. i < n + j /\ n + j \in 1 .. n + m
        BY <1>1, <3>2
      <4> QED
        BY <1>1, <2>1, <4>1
    <3> QED
      BY <1>1, <2>3, <3>1, <3>2 DEF LastIn
  <2> QED
    BY <1>2, <2>2, <2>3
<1>7. ASSUME LastIn(r, C, G) PROVE LastIn(u, C, G)
  <2>1. PICK i \in 1 .. m : r[i] \in G /\ \A j \in 1 .. m : i < j => r[j] \notin C
    BY <1>1, <1>7 DEF LastIn
  <2>2. ASSUME NEW j \in 1 .. n + m, n + i < j PROVE u[j] \notin C
    <3>1. j - n \in 1 .. m /\ i < j - n /\ n + (j - n) = j
      BY <1>1, <2>2
    <3> QED
      BY <1>1, <2>1, <3>1
  <2>3. u[n + i] \in G /\ n + i \in 1 .. n + m
    BY <1>1, <2>1
  <2> QED
    BY <1>1, <2>2, <2>3 DEF LastIn
<1>8. ASSUME NoneIn(r, C), LastIn(s, C, G) PROVE LastIn(u, C, G)
  <2>1. PICK i \in 1 .. n : s[i] \in G /\ \A j \in 1 .. n : i < j => s[j] \notin C
    BY <1>1, <1>8 DEF LastIn
  <2>2. ASSUME NEW j \in 1 .. n + m, i < j PROVE u[j] \notin C
    BY <1>1, <1>2, <1>8, <2>1, <2>2 DEF NoneIn
  <2> QED
    BY <1>1, <1>4, <2>1, <2>2 DEF LastIn
<1> QED
  BY <1>5, <1>6, <1>7, <1>8 DEF u

(* ss is a list of lists of members of X.                                  *)
Lists(X, ss) == /\ Len(ss) \in Nat /\ DOMAIN ss = 1 .. Len(ss)
                /\ \A i \in 1 .. Len(ss) : ss[i] \in Seq(X)

(* Function g holds the concatenations of the first members of ss, up to n *)
(* of them.                                                                *)
Flats(X, ss, n, g) == /\ g \in [0 .. n -> Seq(X)] /\ g[0] = <<>>
                      /\ \A i \in 1 .. n : g[i] = g[i - 1] \o ss[i]

(* There is such a function.                                               *)
LEMMA FlatExists ==
  ASSUME NEW X, NEW ss, Lists(X, ss)
  PROVE  \E g : Flats(X, ss, Len(ss), g)
<1>0. /\ Len(ss) \in Nat /\ DOMAIN ss = 1 .. Len(ss)
      /\ \A i \in 1 .. Len(ss) : ss[i] \in Seq(X)
  BY DEF Lists
<1> DEFINE T == {n \in Nat : n <= Len(ss) => \E g : Flats(X, ss, n, g)}
<1>1. 0 \in T
  <2> DEFINE g == [i \in 0 .. 0 |-> <<>>]
  <2>1. g \in [0 .. 0 -> Seq(X)] /\ g[0] = <<>>
    OBVIOUS
  <2>2. Flats(X, ss, 0, g)
    BY <2>1 DEF Flats
  <2> HIDE DEF g
  <2> QED
    BY <2>2
<1>2. ASSUME NEW n \in T \cap Nat PROVE n + 1 \in T
  <2> SUFFICES ASSUME n + 1 <= Len(ss) PROVE \E g : Flats(X, ss, n + 1, g)
    BY <1>2
  <2>1. n <= Len(ss) /\ n + 1 \in 1 .. Len(ss)
    BY <1>0
  <2>2. PICK g : Flats(X, ss, n, g)
    BY <1>2, <2>1
  <2>a. ss[n + 1] \in Seq(X)
    BY <1>0, <2>1
  <2>b. g \in [0 .. n -> Seq(X)]
    BY <2>2 DEF Flats
  <2>c. n \in 0 .. n
    OBVIOUS
  <2>d. g[n] \in Seq(X)
    BY <2>b, <2>c
  <2>e. g[0] = <<>>
    BY <2>2 DEF Flats
  <2>f. \A i \in 1 .. n : g[i] = g[i - 1] \o ss[i]
    BY <2>2, Zenon DEF Flats
  <2>3. /\ ss[n + 1] \in Seq(X) /\ g \in [0 .. n -> Seq(X)] /\ g[n] \in Seq(X)
        /\ g[0] = <<>> /\ \A i \in 1 .. n : g[i] = g[i - 1] \o ss[i]
    BY <2>a, <2>b, <2>d, <2>e, <2>f, Zenon
  <2> DEFINE l == g[n] \o ss[n + 1]
             h == [i \in 0 .. n + 1 |-> IF i = n + 1 THEN l ELSE g[i]]
  <2>4. l \in Seq(X)
    BY <2>3
  <2>5. h \in [0 .. n + 1 -> Seq(X)] /\ h[0] = <<>>
    <3> HIDE DEF l
    <3> QED
      BY <2>3, <2>4
  <2>6. ASSUME NEW i \in 1 .. n + 1 PROVE h[i] = h[i - 1] \o ss[i]
    <3> HIDE DEF l
    <3>1. \A j \in 0 .. n + 1 : h[j] = IF j = n + 1 THEN l ELSE g[j]
      OBVIOUS
    <3> HIDE DEF h
    <3>2. /\ i \in 0 .. n + 1 /\ i - 1 \in 0 .. n + 1 /\ i - 1 # n + 1
          /\ i = n + 1 \/ i \in 1 .. n
      OBVIOUS
    <3>3. h[i - 1] = g[i - 1] /\ h[i] = IF i = n + 1 THEN l ELSE g[i]
      BY <3>1, <3>2, Zenon
    <3>4. CASE i = n + 1
      <4>1. i - 1 = n
        BY <3>4
      <4>2. h[i] = g[n] \o ss[n + 1] /\ h[i - 1] = g[n]
        BY <3>3, <3>4, <4>1, Zenon DEF l
      <4> QED
        BY <3>4, <4>2, Zenon
    <3>5. CASE i \in 1 .. n
      <4>1. i # n + 1
        BY <3>5
      <4>2. h[i] = g[i] /\ g[i] = g[i - 1] \o ss[i]
        BY <2>3, <3>3, <3>5, <4>1, Zenon
      <4> QED
        BY <3>3, <4>2, Zenon
    <3> QED
      BY <3>2, <3>4, <3>5, Zenon
  <2>7. Flats(X, ss, n + 1, h)
    <3> HIDE DEF h
    <3> QED
      BY <2>5, <2>6 DEF Flats
  <2> QED
    BY <2>7
<1>3. \A n \in Nat : n \in T
  <2> HIDE DEF T
  <2> QED
    BY <1>1, <1>2, SetInduction
<1> QED
  BY <1>3

(* The recursion that FlattenSeq is defined with.                          *)
IsFlat(ss, g) ==
  g = [i \in 1 .. Len(ss) |-> IF i = 1 THEN ss[i] ELSE g[i - 1] \o ss[i]]

(* Its last value is the flattened list.                                   *)
LEMMA FlatIs ==
  ASSUME NEW X, NEW ss, Lists(X, ss), NEW g, Flats(X, ss, Len(ss), g)
  PROVE  S!FlattenSeq(ss) = g[Len(ss)]
<1>0. /\ Len(ss) \in Nat /\ DOMAIN ss = 1 .. Len(ss)
      /\ \A i \in 1 .. Len(ss) : ss[i] \in Seq(X)
  BY DEF Lists
<1>1. CASE Len(ss) = 0
  <2>1. ss = <<>> /\ g[0] = <<>>
    BY <1>1 DEF Flats
  <2> QED
    BY <1>1, <2>1 DEF S!FlattenSeq
<1>2. CASE Len(ss) # 0
  <2> DEFINE f == CHOOSE h : IsFlat(ss, h)
             k == [i \in 1 .. Len(ss) |-> g[i]]
  <2>0. /\ Len(ss) \in Nat /\ g \in [0 .. Len(ss) -> Seq(X)] /\ g[0] = <<>>
        /\ \A i \in 1 .. Len(ss) : g[i] = g[i - 1] \o ss[i] /\ ss[i] \in Seq(X)
    BY <1>0 DEF Flats
  <2>1. IsFlat(ss, k)
    <3>1. ASSUME NEW i \in 1 .. Len(ss)
          PROVE  k[i] = IF i = 1 THEN ss[i] ELSE k[i - 1] \o ss[i]
      <4>1. CASE i = 1
        <5>0. 1 \in 1 .. Len(ss) /\ 1 - 1 = 0
          BY <1>0, <1>2
        <5>1. g[1] = g[0] \o ss[1] /\ ss[1] \in Seq(X)
          <6>1. g[1] = g[1 - 1] \o ss[1] /\ ss[1] \in Seq(X)
            BY <2>0, <5>0, Zenon
          <6> QED
            BY <5>0, <6>1, Zenon
        <5>2. g[1] = <<>> \o ss[1]
          BY <2>0, <5>1
        <5> QED
          BY <4>1, <5>1, <5>2
      <4>2. CASE i # 1
        <5>1. i - 1 \in 1 .. Len(ss) /\ k[i - 1] = g[i - 1]
          BY <2>0, <4>2
        <5> QED
          BY <2>0, <4>2, <5>1
      <4> QED
        BY <4>1, <4>2
    <3>2. k = [i \in 1 .. Len(ss) |-> k[i]]
      OBVIOUS
    <3> HIDE DEF k
    <3>3. k = [i \in 1 .. Len(ss) |-> IF i = 1 THEN ss[i] ELSE k[i - 1] \o ss[i]]
      BY <3>1, <3>2
    <3> QED
      BY <3>3 DEF IsFlat
  <2>2. IsFlat(ss, f)
    BY <2>1, Zenon
  <2>3. S!FlattenSeq(ss) = f[Len(ss)]
    BY <1>2 DEF S!FlattenSeq, IsFlat
  <2> HIDE DEF f, k
  <2>4. \A i \in 1 .. Len(ss) : f[i] = IF i = 1 THEN ss[i] ELSE f[i - 1] \o ss[i]
    BY <2>2 DEF IsFlat
  <2>5. \A i \in 1 .. Len(ss) : k[i] = IF i = 1 THEN ss[i] ELSE k[i - 1] \o ss[i]
    BY <2>1 DEF IsFlat
  <2> DEFINE T == {n \in Nat : n + 1 <= Len(ss) => f[n + 1] = k[n + 1]}
  <2>6. 0 \in T
    BY <2>4, <2>5
  <2>7. ASSUME NEW n \in T \cap Nat PROVE n + 1 \in T
    <3> SUFFICES ASSUME (n + 1) + 1 <= Len(ss)
                 PROVE  f[(n + 1) + 1] = k[(n + 1) + 1]
      BY <2>7
    <3>1. /\ f[n + 1] = k[n + 1] /\ (n + 1) + 1 \in 1 .. Len(ss)
          /\ (n + 1) + 1 # 1 /\ ((n + 1) + 1) - 1 = n + 1
      BY <2>7
    <3>2. /\ f[(n + 1) + 1] = f[n + 1] \o ss[(n + 1) + 1]
          /\ k[(n + 1) + 1] = k[n + 1] \o ss[(n + 1) + 1]
      BY <2>4, <2>5, <3>1
    <3> QED
      BY <3>1, <3>2
  <2>8. \A n \in Nat : n \in T
    <3> HIDE DEF T
    <3> QED
      BY <2>6, <2>7, SetInduction
  <2>9. /\ Len(ss) - 1 \in Nat /\ (Len(ss) - 1) + 1 = Len(ss)
        /\ Len(ss) \in 1 .. Len(ss) /\ Len(ss) <= Len(ss)
    BY <1>0, <1>2
  <2>10. Len(ss) - 1 \in T
    <3> HIDE DEF T
    <3> QED
      BY <2>8, <2>9
  <2>11. f[Len(ss)] = k[Len(ss)]
    BY <2>9, <2>10
  <2> QED
    BY <2>3, <2>9, <2>11 DEF k
<1> QED
  BY <1>1, <1>2

(* What is in a flattened list, and what is last in it.                    *)
LEMMA FlattenIn ==
  ASSUME NEW X, NEW ss, Lists(X, ss)
  PROVE  /\ S!FlattenSeq(ss) \in Seq(X)
         /\ \A C : NoneIn(S!FlattenSeq(ss), C) <=>
                     \A i \in DOMAIN ss : NoneIn(ss[i], C)
         /\ \A C, G : LastIn(S!FlattenSeq(ss), C, G) <=>
                        \E i \in DOMAIN ss :
                          /\ LastIn(ss[i], C, G)
                          /\ \A j \in DOMAIN ss : i < j => NoneIn(ss[j], C)
<1>1. PICK g : Flats(X, ss, Len(ss), g)
  BY FlatExists
<1>2. S!FlattenSeq(ss) = g[Len(ss)]
  BY <1>1, FlatIs
<1>3. /\ Len(ss) \in Nat /\ g \in [0 .. Len(ss) -> Seq(X)] /\ g[0] = <<>>
      /\ \A i \in 1 .. Len(ss) : g[i] = g[i - 1] \o ss[i] /\ ss[i] \in Seq(X)
      /\ DOMAIN ss = 1 .. Len(ss)
  BY <1>1 DEF Lists, Flats
<1>4. ASSUME NEW C, NEW G
      PROVE  /\ NoneIn(g[Len(ss)], C) <=> \A i \in DOMAIN ss : NoneIn(ss[i], C)
             /\ LastIn(g[Len(ss)], C, G) <=>
                  \E i \in DOMAIN ss :
                    /\ LastIn(ss[i], C, G)
                    /\ \A j \in DOMAIN ss : i < j => NoneIn(ss[j], C)
  <2> DEFINE N(n) == NoneIn(g[n], C) <=> \A i \in 1 .. n : NoneIn(ss[i], C)
             L(n) == LastIn(g[n], C, G) <=>
                       \E i \in 1 .. n :
                         /\ LastIn(ss[i], C, G)
                         /\ \A j \in 1 .. n : i < j => NoneIn(ss[j], C)
             T == {n \in Nat : n <= Len(ss) => N(n) /\ L(n)}
  <2>1. 0 \in T
    <3>1. NoneIn(g[0], C) /\ ~ LastIn(g[0], C, G)
      BY <1>3 DEF NoneIn, LastIn
    <3> QED
      BY <3>1
  <2>2. ASSUME NEW n \in T \cap Nat PROVE n + 1 \in T
    <3> SUFFICES ASSUME n + 1 <= Len(ss) PROVE N(n + 1) /\ L(n + 1)
      BY <2>2
    <3>0. /\ n \in Nat /\ n <= Len(ss) /\ n + 1 \in 1 .. Len(ss)
          /\ n \in 0 .. Len(ss) /\ (n + 1) - 1 = n
      BY <1>3
    <3>1. N(n) /\ L(n)
      <4> HIDE DEF N, L
      <4> QED
        BY <2>2, <3>0
    <3>2. /\ g[n + 1] = g[n] \o ss[n + 1]
          /\ g[n] \in Seq(X) /\ ss[n + 1] \in Seq(X)
      <4>1. g[n + 1] = g[(n + 1) - 1] \o ss[n + 1] /\ ss[n + 1] \in Seq(X)
        BY <1>3, <3>0, Zenon
      <4>2. g[n] \in Seq(X)
        BY <1>3, <3>0
      <4> QED
        BY <3>0, <4>1, <4>2, Zenon
    <3>3. /\ NoneIn(g[n + 1], C) <=> NoneIn(g[n], C) /\ NoneIn(ss[n + 1], C)
          /\ LastIn(g[n + 1], C, G) <=>
               \/ LastIn(ss[n + 1], C, G)
               \/ NoneIn(ss[n + 1], C) /\ LastIn(g[n], C, G)
      BY <3>2, ConcatIn
    <3>4. \A i : i \in 1 .. n + 1 <=> i \in 1 .. n \/ i = n + 1
      BY <1>3
    <3>5. \A i \in 1 .. n : i < n + 1
      OBVIOUS
    <3>6. N(n + 1)
      BY <3>1, <3>3, <3>4
    <3>7. \A j \in 1 .. n + 1 : ~ (n + 1 < j)
      OBVIOUS
    <3>8. L(n + 1)
      BY <3>1, <3>3, <3>4, <3>5, <3>7
    <3> QED
      BY <3>6, <3>8
  <2>3. \A n \in Nat : n \in T
    <3> HIDE DEF T
    <3> QED
      BY <2>1, <2>2, SetInduction
  <2>4. N(Len(ss)) /\ L(Len(ss))
    <3>1. Len(ss) \in Nat /\ Len(ss) <= Len(ss)
      BY <1>3
    <3> HIDE DEF N, L
    <3> QED
      BY <2>3, <3>1
  <2>5. DOMAIN ss = 1 .. Len(ss)
    BY <1>3, Zenon
  <2> QED
    BY <2>4, <2>5, Zenon
<1>5. g[Len(ss)] \in Seq(X)
  <2>1. Len(ss) \in 0 .. Len(ss) /\ g \in [0 .. Len(ss) -> Seq(X)]
    BY <1>3
  <2> QED
    BY <2>1
<1> QED
  BY <1>2, <1>4, <1>5, Zenon

-----------------------------------------------------------------------------
(* What the calls of the parser do.                                        *)

(* The methods whose only section assigns or registers, those that register*)
(* the path in a section of its own, and those that walk over a list.      *)
Direct == {"setFireRule", "setPermanent", "setExclude", "setDirectory", "setFile",
           "setCommitedCloseNumber", "setStoreFileInMemory",
           "setStoreFileInFileSystem"}
Twofold == {"setCommitRule", "addProducer", "addConsumer"}
LoaderApi == Direct \cup Twofold \cup Loops \cup {"newFile"}

Sections(api) == CASE api \in Twofold               -> {"body", "create"}
                   [] api = "setAllStoreInMemory"   -> {"flag", "snapshot", "loop"}
                   [] api = "setDirectoryFileCount" -> {"snapshot", "loop"}
                   [] api = "setFileDeps"           -> {"loop"}
                   [] OTHER                         -> {"body"}

CallOf(f) == [api |-> f.api, path |-> f.path, arg |-> f.arg]

(* The entry e of its path after call c.                                   *)
Applied(c, e) ==
  CASE c.api = "setFireRule"   -> [e EXCEPT !.fire_rule = c.arg.fire_rule]
    [] c.api = "setPermanent"  -> [e EXCEPT !.permanent = c.arg.permanent]
    [] c.api = "setExclude"    -> [e EXCEPT !.excluded = c.arg.excluded]
    [] c.api = "setDirectory"  -> [e EXCEPT !.is_file = FALSE]
    [] c.api = "setFile"       -> [e EXCEPT !.is_file = TRUE]
    [] c.api = "setCommitedCloseNumber" ->
         [e EXCEPT !.commit_on_close_count = c.arg.commit_on_close_count]
    [] c.api = "setStoreFileInMemory"     -> [e EXCEPT !.store_in_memory = TRUE]
    [] c.api = "setStoreFileInFileSystem" -> [e EXCEPT !.store_in_memory = FALSE]
    [] c.api = "setCommitRule" -> [e EXCEPT !.commit_rule = c.arg.commit_rule]
    [] c.api = "addProducer"   ->
         [e EXCEPT !.producers = AppendNew(@, Strip[Head(c.arg.producers)])]
    [] c.api = "addConsumer"   ->
         [e EXCEPT !.consumers = AppendNew(@, Strip[Head(c.arg.consumers)])]
    [] c.api = "setFileDeps"   ->
         [e EXCEPT !.file_dependencies = c.arg.file_dependencies]
    [] c.api = "setDirectoryFileCount" ->
         [e EXCEPT !.directory_children_count = c.arg.directory_children_count,
                   !.enable_directory_count_update = FALSE]

(* A step of a call that is not its last one: nothing changes, some path is*)
(* registered, or a walk over the table marks one path.                    *)
Walks(t) ==
  \E h \in Registered :
    \/ /\ frame[t].api = "setDirectoryFileCount"
       /\ entries' = [entries EXCEPT ![h] = [entries[h] EXCEPT !.is_file = FALSE]]
    \/ /\ frame[t].api = "setAllStoreInMemory"
       /\ entries' = [entries EXCEPT ![h] =
                        [entries[h] EXCEPT !.store_in_memory = TRUE]]
Carries(t) ==
  /\ CallOf(frame'[t]) = CallOf(frame[t])
  /\ frame'[t].at \in Sections(frame[t].api)
  /\ entries' = entries \/ Registers \/ Walks(t)

(* The last step of a call.                                                *)
Finishes(t) ==
  LET p == frame[t].path
  IN  /\ frame' = [frame EXCEPT ![t] = NoFrame]
      /\ \/ frame[t].api = "newFile" /\ entries' \in _newFile(p)
         \/ /\ frame[t].api = "setAllStoreInMemory" /\ entries' = entries
            /\ Todo(t) = <<>>
         \/ /\ frame[t].api \notin {"newFile", "setAllStoreInMemory"}
            /\ p \in Registered
            /\ entries' = [entries EXCEPT ![p] =
                             Applied(CallOf(frame[t]), entries[p])]

(* Which action of the engine a step of such a call is.                    *)
LEMMA LoaderActions ==
  ASSUME NEW t \in Threads, Step(t), frame[t].api \in LoaderApi,
         frame[t].at \in Sections(frame[t].api)
  PROVE  \/ setFireRule(t) \/ setPermanent(t) \/ setExclude(t) \/ setDirectory(t)
         \/ setFile(t) \/ setCommitedCloseNumber(t) \/ setStoreFileInMemory(t)
         \/ setStoreFileInFileSystem(t) \/ newFile(t)
         \/ setCommitRule(t) \/ addProducer(t) \/ addConsumer(t)
         \/ Create(t) /\ frame[t].api \in Twofold
         \/ Snapshot(t) /\ frame[t].api \in Loops
         \/ setAllStoreInMemory(t) /\ frame[t].api = "setAllStoreInMemory"
         \/ setDirectoryFileCount(t) \/ setFileDeps(t)
<1> DEFINE f == frame[t]
<1>1. /\ f.api \notin {"add", "addEntry", "remove", "getCommitRule", "getFireRule",
           "isFirable", "isExcluded", "isStoredInMemory", "getCommitCloseCount",
           "getProducers", "isPermanent", "isFile", "isDirectory",
           "addFileDependency", "isProducer", "isConsumer",
           "getDirectoryFileCount", "getConsumers",
           "getCommitOnFileDependencies", "contains", "size", "getPaths",
           "getFileToStoreInMemory"}
      /\ f.at \in {"body", "create", "flag", "snapshot", "loop"}
      /\ f.at = "create" => f.api \in Twofold
      /\ f.at = "snapshot" => f.api \in Loops
      /\ f.at = "flag" => f.api = "setAllStoreInMemory"
  BY DEF LoaderApi, Direct, Twofold, Loops, Sections
<1> QED
  BY <1>1 DEF Step, add, addEntry, remove, getCommitRule, getFireRule, isFirable,
     isExcluded, isStoredInMemory, getCommitCloseCount, getProducers, isPermanent,
     isFile, isDirectory, addFileDependency, Update, isProducer, isConsumer,
     Create, Snapshot, setAllStoreInMemory, Looping, getDirectoryFileCount,
     UnlockedFind, UnlockedEmplace, UnlockedCount, UnlockedStore, getConsumers,
     getCommitOnFileDependencies, contains, size, getPaths,
     getFileToStoreInMemory, Lookup, In

(* What a call in progress finds in its frame, and what jumping does.      *)
LEMMA LoaderFrame ==
  ASSUME TypeOK, NEW t \in Threads, frame[t].at # "idle"
  PROVE  /\ frame[t] \in Frame /\ frame[t].path \in Path /\ frame[t].arg \in Entry
         /\ CallOf(frame[t]) \in ApiCall /\ WellFormed(CallOf(frame[t]))
         /\ ~ Refused(CallOf(frame[t]))
         /\ \A l : Goto(t, l) => /\ CallOf(frame'[t]) = CallOf(frame[t])
                                 /\ frame'[t].at = l
         /\ \A s : frame' = [frame EXCEPT ![t].todo = s] =>
              /\ CallOf(frame'[t]) = CallOf(frame[t])
              /\ frame'[t].at = frame[t].at
         /\ \A s, l : frame' = [frame EXCEPT ![t].todo = s, ![t].at = l] =>
              CallOf(frame'[t]) = CallOf(frame[t]) /\ frame'[t].at = l
<1> DEFINE f == frame[t]
<1>1. /\ f \in ValidFrame /\ f \in Frame /\ f.path \in Path /\ f.arg \in Entry
      /\ f.api \in Api
  BY FrameFacts DEF Arg, ValidFrame
<1>2. CallOf(f) \in ApiCall
  BY <1>1 DEF CallOf, ApiCall
<1>3. WellFormed(CallOf(f)) /\ ~ Refused(CallOf(f))
  BY <1>1 DEF ValidFrame, CallOf, WellFormed, Refused, EmptyGuard, BadRule,
              NothingToDo
<1>4. ASSUME NEW l, Goto(t, l)
      PROVE  CallOf(frame'[t]) = CallOf(f) /\ frame'[t].at = l
  <2>1. frame'[t] = [f EXCEPT !.at = l]
    BY <1>4 DEF Goto, TypeOK
  <2> HIDE DEF f
  <2> QED
    BY <1>1, <2>1 DEF Frame, CallOf
<1>5. ASSUME NEW s, frame' = [frame EXCEPT ![t].todo = s]
      PROVE  CallOf(frame'[t]) = CallOf(f) /\ frame'[t].at = f.at
  <2>1. frame'[t] = [f EXCEPT !.todo = s]
    BY <1>5 DEF TypeOK
  <2> HIDE DEF f
  <2> QED
    BY <1>1, <2>1 DEF Frame, CallOf
<1>6. ASSUME NEW s, NEW l, frame' = [frame EXCEPT ![t].todo = s, ![t].at = l]
      PROVE  CallOf(frame'[t]) = CallOf(f) /\ frame'[t].at = l
  <2>1. frame'[t] = [f EXCEPT !.todo = s, !.at = l]
    BY <1>6 DEF TypeOK
  <2> HIDE DEF f
  <2> QED
    BY <1>1, <2>1 DEF Frame, CallOf
<1> QED
  BY <1>1, <1>2, <1>3, <1>4, <1>5, <1>6

(* The setters register the path if need be, and assign.                   *)
LEMMA DirectStep ==
  ASSUME TypeOK, NEW t \in Threads,
         \/ setFireRule(t) \/ setPermanent(t) \/ setExclude(t) \/ setDirectory(t)
         \/ setFile(t) \/ setCommitedCloseNumber(t) \/ setStoreFileInMemory(t)
         \/ setStoreFileInFileSystem(t) \/ newFile(t)
  PROVE  /\ Carries(t) \/ Finishes(t)
         /\ store_all_in_memory' = store_all_in_memory
<1> DEFINE f == frame[t]
           p == frame[t].path
<1>1. f.at = "body" /\ store_all_in_memory' = store_all_in_memory
  BY DEF setFireRule, setPermanent, setExclude, setDirectory, setFile,
     setCommitedCloseNumber, setStoreFileInMemory, setStoreFileInFileSystem,
     newFile, Setter, In
<1> SUFFICES Carries(t) \/ Finishes(t)
  BY <1>1
<1>2. p \in Path
  BY <1>1, LoaderFrame
<1>3. ASSUME NEW e, Assign(t, e), f.api \in Direct,
             e = Applied(CallOf(f), entries[p])
      PROVE  Carries(t) \/ Finishes(t)
  <2>1. CASE Hit(t)
    <3>1. /\ frame' = [frame EXCEPT ![t] = NoFrame] /\ p \in Registered
          /\ entries' = [entries EXCEPT ![p] = e]
      BY <1>3, <2>1 DEF Assign, Return, Hit
    <3>2. f.api \notin {"newFile", "setAllStoreInMemory"}
      BY <1>3 DEF Direct
    <3> QED
      BY <1>3, <3>1, <3>2 DEF Finishes
  <2>2. CASE ~ Hit(t)
    <3>1. frame' = frame /\ Registers
      BY <1>2, <1>3, <2>2 DEF Assign, Registers
    <3>2. "body" \in Sections(f.api)
      BY <1>3 DEF Sections, Direct, Twofold
    <3> QED
      BY <1>1, <3>1, <3>2 DEF Carries
  <2> QED
    BY <2>1, <2>2
<1>4. CASE newFile(t)
  BY <1>4 DEF newFile, In, Return, Finishes
<1>5. CASE setFireRule(t) \/ setPermanent(t) \/ setExclude(t)
  BY <1>3, <1>5 DEF setFireRule, setPermanent, setExclude, Setter, In, Direct,
     Applied, CallOf, Old, Arg
<1>6. CASE setDirectory(t) \/ setFile(t) \/ setCommitedCloseNumber(t)
  BY <1>3, <1>6 DEF setDirectory, setFile, setCommitedCloseNumber, Setter, In,
     Direct, Applied, CallOf, Old, Arg
<1>7. CASE setStoreFileInMemory(t) \/ setStoreFileInFileSystem(t)
  BY <1>3, <1>7 DEF setStoreFileInMemory, setStoreFileInFileSystem, In, Direct,
     Applied, CallOf, Old
<1> QED
  BY <1>1, <1>4, <1>5, <1>6, <1>7

(* So do the methods that register in a section of its own.                *)
LEMMA TwofoldStep ==
  ASSUME TypeOK, NEW t \in Threads,
         \/ setCommitRule(t) \/ addProducer(t) \/ addConsumer(t)
         \/ Create(t) /\ frame[t].api \in Twofold
  PROVE  /\ Carries(t) \/ Finishes(t)
         /\ store_all_in_memory' = store_all_in_memory
<1> DEFINE f == frame[t]
           p == frame[t].path
<1>1. /\ f.at # "idle" /\ f.api \in Twofold
      /\ store_all_in_memory' = store_all_in_memory
  BY DEF setCommitRule, addProducer, addConsumer, Create, Update, In, Twofold
<1> SUFFICES Carries(t) \/ Finishes(t)
  BY <1>1
<1>2. p \in Path /\ "body" \in Sections(f.api) /\ "create" \in Sections(f.api)
  <2>1. p \in Path
    BY <1>1, LoaderFrame
  <2> QED
    BY <1>1, <2>1 DEF Sections, Twofold
<1>3. ASSUME NEW api, NEW e, Update(t, api, e), e = Applied(CallOf(f), entries[p])
      PROVE  Carries(t) \/ Finishes(t)
  <2>1. CASE Hit(t)
    <3>1. /\ frame' = [frame EXCEPT ![t] = NoFrame] /\ p \in Registered
          /\ entries' = [entries EXCEPT ![p] = e]
      BY <1>3, <2>1 DEF Update, Return, Hit
    <3>2. f.api \notin {"newFile", "setAllStoreInMemory"}
      BY <1>1 DEF Twofold
    <3> QED
      BY <1>3, <3>1, <3>2 DEF Finishes
  <2>2. CASE ~ Hit(t)
    BY <1>1, <1>2, <1>3, <2>2, LoaderFrame DEF Update, Carries
  <2> QED
    BY <2>1, <2>2
<1>4. CASE setCommitRule(t)
  BY <1>3, <1>4 DEF setCommitRule, Update, In, Applied, CallOf, Old, Arg
<1>5. CASE addProducer(t)
  BY <1>3, <1>5 DEF addProducer, Update, In, Applied, CallOf, Old, Arg
<1>6. CASE addConsumer(t)
  BY <1>3, <1>6 DEF addConsumer, Update, In, Applied, CallOf, Old, Arg
<1>7. CASE Create(t)
  <2>1. /\ Registers /\ Goto(t, AfterCreate(f.api))
    BY <1>1, <1>2, <1>7 DEF Create, Registers, Twofold, Scans
  <2>2. AfterCreate(f.api) = "body"
    BY <1>1 DEF AfterCreate, Twofold
  <2> QED
    BY <1>1, <1>2, <2>1, <2>2, LoaderFrame DEF Carries
<1> QED
  BY <1>1, <1>4, <1>5, <1>6, <1>7

(* And the walks.                                                          *)
LEMMA LoopStep ==
  ASSUME TypeOK, NEW t \in Threads,
         \/ Snapshot(t) /\ frame[t].api \in Loops
         \/ setAllStoreInMemory(t) /\ frame[t].api = "setAllStoreInMemory"
         \/ setDirectoryFileCount(t) \/ setFileDeps(t),
         frame[t].at \in Sections(frame[t].api)
  PROVE  /\ Carries(t) \/ Finishes(t)
         /\ \/ store_all_in_memory' = store_all_in_memory
            \/ frame[t].api = "setAllStoreInMemory"
<1> DEFINE f == frame[t]
           p == frame[t].path
           h == Head(Todo(t))
<1>1. /\ f.at # "idle" /\ f.api \in Loops
      /\ \/ store_all_in_memory' = store_all_in_memory
         \/ f.api = "setAllStoreInMemory"
  BY DEF Snapshot, setAllStoreInMemory, setDirectoryFileCount, setFileDeps,
     Looping, Loops
<1> SUFFICES Carries(t) \/ Finishes(t)
  BY <1>1
<1>2. p \in Path /\ "loop" \in Sections(f.api) /\ Todo(t) \in Seq(Path)
  BY <1>1, FrameFacts DEF Sections, Loops, Twofold
<1>3. Todo(t) # <<>> => h \in Path
  BY <1>2
<1>4. ASSUME Pop(t) PROVE /\ CallOf(frame'[t]) = CallOf(f) /\ frame'[t].at = f.at
  BY <1>1, <1>4, LoaderFrame DEF Pop, Todo
<1>5. ASSUME NEW e, Each(t, e), Todo(t) # <<>>,
             h \in Registered /\ entries' = [entries EXCEPT ![h] = e] => Walks(t)
      PROVE  Carries(t)
  <2>1. CASE h = EmptyPath /\ Pop(t) /\ UNCHANGED entries
    BY <1>4, <2>1 DEF Carries
  <2>2. CASE h \in Registered /\ Pop(t) /\ entries' = [entries EXCEPT ![h] = e]
    BY <1>4, <1>5, <2>2 DEF Carries
  <2>3. CASE entries' \in _newFile(h) /\ UNCHANGED frame
    BY <1>3, <1>5, <2>3 DEF Carries, Registers
  <2> QED
    BY <1>5, <2>1, <2>2, <2>3 DEF Each
<1>6. CASE Snapshot(t)
  <2>1. PICK s : frame' = [frame EXCEPT ![t].todo = s, ![t].at = "loop"]
    BY <1>6 DEF Snapshot
  <2>2. CallOf(frame'[t]) = CallOf(f) /\ frame'[t].at = "loop"
    BY <1>1, <2>1, LoaderFrame
  <2>3. entries' = entries
    BY <1>6 DEF Snapshot
  <2> QED
    BY <1>2, <2>2, <2>3 DEF Carries
<1>7. CASE setAllStoreInMemory(t) /\ f.api = "setAllStoreInMemory"
  <2>1. CASE f.at = "flag" /\ Goto(t, "snapshot") /\ UNCHANGED entries
    BY <1>1, <1>7, <2>1, LoaderFrame DEF Carries, Sections, Twofold
  <2>2. CASE /\ Todo(t) # <<>>
             /\ Each(t, [entries[h] EXCEPT !.store_in_memory = TRUE])
    BY <1>5, <1>7, <2>2 DEF Walks
  <2>3. CASE Todo(t) = <<>> /\ Return(t, Void) /\ UNCHANGED entries
    BY <1>7, <2>3 DEF Finishes, Return
  <2> QED
    BY <1>7, <2>1, <2>2, <2>3 DEF setAllStoreInMemory
<1>8. CASE setDirectoryFileCount(t)
  <2>0. f.api = "setDirectoryFileCount" /\ "snapshot" \in Sections(f.api)
    BY <1>8 DEF setDirectoryFileCount, Looping, Sections, Twofold
  <2>1. CASE Todo(t) # <<>> /\ Each(t, [entries[h] EXCEPT !.is_file = FALSE])
    <3> DEFINE e == [entries[h] EXCEPT !.is_file = FALSE]
    <3>1. h \in Registered /\ entries' = [entries EXCEPT ![h] = e] => Walks(t)
      BY <2>0 DEF Walks
    <3> HIDE DEF e
    <3> QED
      BY <1>5, <2>1, <3>1 DEF e
  <2>2. CASE /\ Hit(t) /\ Return(t, Void)
             /\ entries' = [entries EXCEPT ![p] =
                  [@ EXCEPT !.directory_children_count =
                              Arg(t).directory_children_count,
                            !.enable_directory_count_update = FALSE]]
    <3>1. Applied(CallOf(f), entries[p]) =
            [entries[p] EXCEPT !.directory_children_count =
                                 Arg(t).directory_children_count,
                               !.enable_directory_count_update = FALSE]
      BY <2>0 DEF Applied, CallOf, Arg
    <3>2. /\ entries' = [entries EXCEPT ![p] = Applied(CallOf(f), entries[p])]
          /\ p \in Registered /\ frame' = [frame EXCEPT ![t] = NoFrame]
      BY <2>2, <3>1 DEF Return, Hit
    <3> QED
      BY <2>0, <3>2 DEF Finishes
  <2>3. CASE ~ Hit(t) /\ Goto(t, "snapshot") /\ entries' \in _newFile(p)
    BY <1>1, <1>2, <2>0, <2>3, LoaderFrame DEF Carries, Registers
  <2> QED
    BY <1>8, <2>1, <2>2, <2>3 DEF setDirectoryFileCount
<1>9. CASE setFileDeps(t)
  <2>0. f.api = "setFileDeps"
    BY <1>9 DEF setFileDeps, Looping
  <2>1. CASE Todo(t) # <<>> /\ Pop(t) /\ entries' \in _newFile(h)
    <3>1. Registers
      BY <1>3, <2>1 DEF Registers
    <3> QED
      BY <1>4, <2>1, <3>1 DEF Carries
  <2>2. CASE /\ Hit(t) /\ Return(t, Void)
             /\ entries' = [entries EXCEPT ![p].file_dependencies =
                              Arg(t).file_dependencies]
    <3>1. Applied(CallOf(f), entries[p]) =
            [entries[p] EXCEPT !.file_dependencies = Arg(t).file_dependencies]
      BY <2>0 DEF Applied, CallOf, Arg
    <3>2. /\ entries' = [entries EXCEPT ![p] = Applied(CallOf(f), entries[p])]
          /\ p \in Registered /\ frame' = [frame EXCEPT ![t] = NoFrame]
      BY <2>2, <3>1 DEF Return, Hit
    <3> QED
      BY <2>0, <3>2 DEF Finishes
  <2>3. CASE /\ entries' \in _newFile(p)
             /\ frame' = [frame EXCEPT ![t].todo = Arg(t).file_dependencies]
    BY <1>1, <1>2, <2>3, LoaderFrame DEF Carries, Registers
  <2> QED
    BY <1>9, <2>1, <2>2, <2>3 DEF setFileDeps
<1> QED
  BY <1>1, <1>6, <1>7, <1>8, <1>9

(* Every step of a call of the parser carries it on or finishes it.        *)
LEMMA LoaderStep ==
  ASSUME TypeOK, NEW t \in Threads, Step(t), frame[t].api \in LoaderApi,
         frame[t].at \in Sections(frame[t].api)
  PROVE  /\ Carries(t) \/ Finishes(t)
         /\ \/ store_all_in_memory' = store_all_in_memory
            \/ frame[t].api = "setAllStoreInMemory"
BY LoaderActions, DirectStep, TwofoldStep, LoopStep

-----------------------------------------------------------------------------
(* What becomes of what a call has said.                                   *)

Storage == {"setStoreFileInMemory", "setStoreFileInFileSystem"}
Kinds   == {"setFile", "setDirectory"}
Roles   == {"addProducer", "addConsumer"}
Settings == {"setFireRule", "setPermanent", "setExclude", "setCommitedCloseNumber",
             "setCommitRule", "setFileDeps", "setDirectoryFileCount"}
              \cup Storage \cup Kinds \cup Roles

(* Entry e is as call c wants it.                                          *)
Heeds(e, c) ==
  /\ c.api = "setFireRule" => e.fire_rule = c.arg.fire_rule
  /\ c.api = "setPermanent" => e.permanent = c.arg.permanent
  /\ c.api = "setExclude" => e.excluded = c.arg.excluded
  /\ c.api = "setCommitedCloseNumber" =>
       e.commit_on_close_count = c.arg.commit_on_close_count
  /\ c.api = "setCommitRule" => e.commit_rule = c.arg.commit_rule
  /\ c.api = "setFileDeps" => e.file_dependencies = c.arg.file_dependencies
  /\ c.api = "setDirectoryFileCount" =>
       /\ e.directory_children_count = c.arg.directory_children_count
       /\ ~ e.enable_directory_count_update
  /\ c.api = "setStoreFileInMemory" => e.store_in_memory
  /\ c.api = "setStoreFileInFileSystem" => ~ e.store_in_memory
  /\ c.api = "setFile" => e.is_file
  /\ c.api = "setDirectory" => ~ e.is_file
  /\ c.api = "addProducer" => Strip[Head(c.arg.producers)] \in Range(e.producers)
  /\ c.api = "addConsumer" => Strip[Head(c.arg.consumers)] \in Range(e.consumers)

(* The calls that overrule c.                                              *)
Rivals(c) ==
  {d \in ApiCall :
     /\ c.api \notin Roles /\ ~ NothingToDo(d)
     /\ \/ /\ d.path = c.path
           /\ \/ d.api = c.api
              \/ {c.api, d.api} \subseteq Storage
              \/ {c.api, d.api} \subseteq Kinds
        \/ c.api = "setFile" /\ d.api = "setDirectoryFileCount"}

(* Entry e has the settings of o, one that was fixed being fixed; it is    *)
(* placed where o is; it is a file if o is.                                *)
SameSettings(o, e) ==
  /\ e.producers = o.producers /\ e.consumers = o.consumers
  /\ e.commit_rule = o.commit_rule /\ e.fire_rule = o.fire_rule
  /\ e.commit_on_close_count = o.commit_on_close_count
  /\ e.file_dependencies = o.file_dependencies
  /\ e.permanent = o.permanent /\ e.excluded = o.excluded
  /\ ~ o.enable_directory_count_update =>
       /\ e.directory_children_count = o.directory_children_count
       /\ ~ e.enable_directory_count_update
  /\ ~ o.is_file => ~ e.is_file
SamePlace(o, e) == e.store_in_memory = o.store_in_memory
SameKind(o, e)  == o.is_file => e.is_file

(* An entry with the same settings heeds the same calls.                   *)
LEMMA SameHeeds ==
  ASSUME NEW o, NEW e, NEW c, SameSettings(o, e), Heeds(o, c),
         c.api \in Storage => SamePlace(o, e), c.api = "setFile" => SameKind(o, e)
  PROVE  Heeds(e, c)
BY DEF SameSettings, SamePlace, SameKind, Heeds, Storage

(* What is appended is there.                                              *)
LEMMA AppendHas ==
  ASSUME NEW Y, NEW s \in Seq(Y), NEW x
  PROVE  x \in Range(AppendNew(s, x))
<1>1. CASE x \in Range(s)
  BY <1>1 DEF AppendNew
<1>2. CASE x \notin Range(s)
  <2>1. Append(s, x)[Len(s) + 1] = x /\ Len(s) + 1 \in DOMAIN Append(s, x)
    OBVIOUS
  <2> QED
    BY <1>2, <2>1 DEF AppendNew, Range
<1> QED
  BY <1>1, <1>2

(* A call is heeded at once.                                               *)
LEMMA AppliedHeeds ==
  ASSUME NEW e \in Entry, NEW c \in ApiCall, c.api \in Settings
  PROVE  Heeds(Applied(c, e), c)
<1> DEFINE a == c.arg
           x == Strip[Head(a.producers)]
           y == Strip[Head(a.consumers)]
<1>1. e.producers \in Seq(App) /\ e.consumers \in Seq(App)
  BY DEF Entry
<1>2. x \in Range(AppendNew(e.producers, x)) /\ y \in Range(AppendNew(e.consumers, y))
  BY <1>1, AppendHas
<1>3. CASE c.api \in {"setFireRule", "setPermanent", "setExclude"}
  BY <1>3 DEF Applied, Heeds, Entry
<1>4. CASE c.api \in {"setCommitedCloseNumber", "setCommitRule", "setFileDeps"}
  BY <1>4 DEF Applied, Heeds, Entry
<1>a. CASE c.api \in Kinds \cup {"setDirectoryFileCount"}
  BY <1>a DEF Applied, Heeds, Entry, Kinds
<1>5. CASE c.api \in Storage
  BY <1>5 DEF Applied, Heeds, Entry, Storage
<1>6. CASE c.api = "addProducer"
  BY <1>2, <1>6 DEF Applied, Heeds, Entry
<1>7. CASE c.api = "addConsumer"
  BY <1>2, <1>7 DEF Applied, Heeds, Entry
<1> QED
  BY <1>3, <1>4, <1>a, <1>5, <1>6, <1>7 DEF Settings, Roles

(* A call on another subject does not change that.                         *)
LEMMA AppliedSpares ==
  ASSUME NEW e \in Entry, NEW c \in ApiCall, NEW d \in ApiCall,
         c.api \in Settings, d.api \in LoaderApi \ {"newFile", "setAllStoreInMemory"},
         d.path = c.path, d \notin Rivals(c), ~ NothingToDo(d), Heeds(e, c)
  PROVE  Heeds(Applied(d, e), c)
<1> DEFINE b == d.arg
           x == Strip[Head(b.producers)]
           y == Strip[Head(b.consumers)]
<1>1. e.producers \in Seq(App) /\ e.consumers \in Seq(App)
  BY DEF Entry
<1>2. /\ Range(e.producers) \subseteq Range(AppendNew(e.producers, x))
      /\ Range(e.consumers) \subseteq Range(AppendNew(e.consumers, y))
  BY <1>1, ListsGrow
<1>3. /\ c.api \notin Roles => d.api # c.api
      /\ c.api \in Storage => d.api \notin Storage
      /\ c.api \in Kinds => d.api \notin Kinds
  BY DEF Rivals, Storage, Kinds, Roles
<1> DEFINE OK(f) ==
      /\ d.api # "setFireRule" => f.fire_rule = e.fire_rule
      /\ d.api # "setPermanent" => f.permanent = e.permanent
      /\ d.api # "setExclude" => f.excluded = e.excluded
      /\ d.api # "setCommitedCloseNumber" =>
           f.commit_on_close_count = e.commit_on_close_count
      /\ d.api # "setCommitRule" => f.commit_rule = e.commit_rule
      /\ d.api # "setFileDeps" => f.file_dependencies = e.file_dependencies
      /\ d.api # "setDirectoryFileCount" =>
           /\ f.directory_children_count = e.directory_children_count
           /\ f.enable_directory_count_update = e.enable_directory_count_update
      /\ d.api \notin Kinds => f.is_file = e.is_file
      /\ d.api \notin Storage => f.store_in_memory = e.store_in_memory
      /\ Range(e.producers) \subseteq Range(f.producers)
      /\ Range(e.consumers) \subseteq Range(f.consumers)
<1>4. ASSUME NEW f, OK(f) PROVE Heeds(f, c)
  BY <1>3, <1>4 DEF Heeds, Roles, Storage, Kinds
<1>5. OK(Applied(d, e))
  <2>1. CASE d.api = "setFireRule"
    BY <2>1 DEF Applied, Entry, Storage, Kinds
  <2>2. CASE d.api = "setPermanent"
    BY <2>2 DEF Applied, Entry, Storage, Kinds
  <2>3. CASE d.api = "setExclude"
    BY <2>3 DEF Applied, Entry, Storage, Kinds
  <2>4. CASE d.api = "setCommitedCloseNumber"
    BY <2>4 DEF Applied, Entry, Storage, Kinds
  <2>5. CASE d.api = "setCommitRule"
    BY <2>5 DEF Applied, Entry, Storage, Kinds
  <2>6. CASE d.api = "setFileDeps"
    BY <2>6 DEF Applied, Entry, Storage, Kinds
  <2>7. CASE d.api \in Storage
    BY <2>7 DEF Applied, Entry, Storage, Kinds
  <2>8. CASE d.api \in Kinds
    BY <2>8 DEF Applied, Entry, Storage, Kinds
  <2>9. CASE d.api = "setDirectoryFileCount"
    BY <2>9 DEF Applied, Entry, Storage, Kinds
  <2>10. CASE d.api = "addProducer"
    BY <1>2, <2>10 DEF Applied, Entry, Storage, Kinds
  <2>11. CASE d.api = "addConsumer"
    BY <1>2, <2>11 DEF Applied, Entry, Storage, Kinds
  <2> QED
    BY <2>1, <2>2, <2>3, <2>4, <2>5, <2>6, <2>7, <2>8, <2>9, <2>10, <2>11
    DEF LoaderApi, Direct, Twofold, Loops, Storage, Kinds
<1> QED
  BY <1>4, <1>5

(* One more child, where they are counted, and the mark of a directory     *)
(* leave the settings alone.                                               *)
LEMMA MarksKeep ==
  ASSUME NEW e \in Entry
  PROVE  /\ SameSettings(e, e) /\ SamePlace(e, e)
         /\ e.enable_directory_count_update => SameSettings(e, OneMoreChild(e))
         /\ SamePlace(e, OneMoreChild(e)) /\ SameKind(e, e)
         /\ OneMoreChild(e).producers = e.producers
         /\ OneMoreChild(e).consumers = e.consumers
         /\ SameSettings(e, [e EXCEPT !.is_file = FALSE])
         /\ SamePlace(e, [e EXCEPT !.is_file = FALSE])
         /\ SameSettings(e, [e EXCEPT !.store_in_memory = TRUE])
         /\ SameKind(e, [e EXCEPT !.store_in_memory = TRUE])
BY DEF SameSettings, SamePlace, SameKind, OneMoreChild, Entry

(* A path in p is registered.                                              *)
HasChild(p) == \E q \in Registered : Parent[q] = p

(* Registering a path leaves the settings of the others alone, makes a     *)
(* directory of none but the one it is in, and gives it no application but *)
(* those of a pattern it matches.                                          *)
LEMMA NewFileSettings ==
  ASSUME TypeOK, NEW q \in Path, NEW m \in _newFile(q)
  PROVE  /\ m \in [Path -> Entry \cup {NoEntry}]
         /\ \A p \in Registered :
              /\ m[p] \in Entry
              /\ SameSettings(entries[p], m[p]) /\ SamePlace(entries[p], m[p])
              /\ SameKind(entries[p], m[p]) \/ (m[q] # NoEntry /\ Parent[q] = p)
         /\ \A p \in Path \ Registered : m[p] # NoEntry =>
              /\ p = q /\ p # EmptyPath
              /\ \/ m[p].producers = <<>> /\ m[p].consumers = <<>>
                 \/ \E s \in Registered :
                      /\ <<s, p>> \in Matches
                      /\ m[p].producers = entries[s].producers
                      /\ m[p].consumers = entries[s].consumers
<1>1. m \in [Path -> Entry \cup {NoEntry}]
  BY NewFileType
<1>2. \A p \in Registered : p \in Path /\ entries[p] \in Entry
  BY DEF Registered, TypeOK
<1>3. CASE m = entries
  BY <1>1, <1>2, <1>3, MarksKeep DEF Registered
<1>4. CASE m # entries
  <2>1. PICK e \in Drafts(q) : e \in Entry /\ m[q] \in {e, OneMoreChild(e)}
    BY <1>4, NewFileEffect
  <2>2. /\ q # EmptyPath /\ q \notin Registered
        /\ \A p \in Path \ {q} : m[p] = IF Counting(entries, p) /\ p = Parent[q]
                                 THEN OneMoreChild(entries[p]) ELSE entries[p]
    BY <1>4, NewFileEffect
  <2>3. ASSUME NEW p \in Registered
        PROVE  /\ m[p] \in Entry /\ SameSettings(entries[p], m[p])
               /\ SamePlace(entries[p], m[p])
               /\ SameKind(entries[p], m[p]) \/ (m[q] # NoEntry /\ Parent[q] = p)
    <3>1. \/ m[p] = entries[p]
          \/ /\ m[p] = OneMoreChild(entries[p]) /\ Parent[q] = p
             /\ entries[p].enable_directory_count_update
      BY <1>2, <2>2 DEF Counting
    <3>2. m[q] # NoEntry
      BY <2>1, OneMoreChildType, ConstantsAssumption
    <3> QED
      BY <1>2, <3>1, <3>2, MarksKeep, OneMoreChildType
  <2>4. ASSUME NEW p \in Path \ Registered, m[p] # NoEntry, p # q PROVE FALSE
    BY <2>2, <2>4 DEF Counting, Registered
  <2>5. m[q].producers = e.producers /\ m[q].consumers = e.consumers
    BY <2>1, MarksKeep
  <2>6. CASE LongestMatches(q) = {}
    <3>1. e = [DefaultEntry EXCEPT !.store_in_memory = @ \/ store_all_in_memory]
      BY <2>6 DEF Drafts
    <3>2. e.producers = <<>> /\ e.consumers = <<>>
      BY <3>1 DEF DefaultEntry
    <3> QED
      BY <1>1, <2>2, <2>3, <2>4, <2>5, <3>2
  <2>7. CASE LongestMatches(q) # {}
    <3>1. PICK s \in LongestMatches(q) :
            e = [entries[s] EXCEPT !.store_in_memory = @ \/ store_all_in_memory]
      BY <2>7 DEF Drafts
    <3>2. s \in Registered /\ <<s, q>> \in Matches
      BY DEF LongestMatches
    <3>3. e.producers = entries[s].producers /\ e.consumers = entries[s].consumers
      BY <1>2, <3>1, <3>2 DEF Entry
    <3> QED
      BY <1>1, <2>2, <2>3, <2>4, <2>5, <3>2, <3>3
  <2> QED
    BY <2>6, <2>7
<1> QED
  BY <1>3, <1>4

-----------------------------------------------------------------------------
(* Lists made member by member, and the last of something.                 *)

(* A list of lists with a member for each one of s.                        *)
LEMMA ListsOf ==
  ASSUME NEW X, NEW Y, NEW s \in Seq(Y), NEW ss, DOMAIN ss = DOMAIN s,
         ss = [i \in DOMAIN ss |-> ss[i]], \A i \in DOMAIN s : ss[i] \in Seq(X)
  PROVE  Lists(X, ss)
<1> DEFINE n == Len(s)
           Z == Seq(X)
<1>1. n \in Nat /\ DOMAIN s = 1 .. n
  OBVIOUS
<1> HIDE DEF Z, n
<1>2. ss \in [1 .. n -> Z]
  BY <1>1 DEF Z
<1>3. ss \in Seq(Z)
  BY <1>1, <1>2, SeqDef
<1>4. Len(ss) \in Nat /\ DOMAIN ss = 1 .. Len(ss)
  BY <1>3, LenProperties
<1> QED
  BY <1>1, <1>4 DEF Lists

(* A set of positions in a list has a last one.                            *)
LEMMA LastPosition ==
  ASSUME NEW n \in Nat, NEW I \in SUBSET (1 .. n), I # {}
  PROVE  \E i \in I : \A j \in I : j <= i
<1> DEFINE T == {k \in Nat : \/ \E i \in I : \A j \in I : j <= i
                             \/ \A j \in I : j <= n - k}
<1>1. 0 \in T
  OBVIOUS
<1>2. ASSUME NEW k \in T \cap Nat PROVE k + 1 \in T
  <2>1. CASE \A j \in I : j <= n - k
    <3>1. CASE n - k \in I
      BY <2>1, <3>1
    <3>2. CASE n - k \notin I
      <4>1. \A j \in I : j \in Int /\ n - k \in Int /\ j # n - k
        BY <3>2
      <4>2. \A j \in I : j <= n - (k + 1)
        BY <2>1, <4>1
      <4> QED
        BY <4>2
    <3> QED
      BY <3>1, <3>2
  <2> QED
    BY <1>2, <2>1
<1>3. \A k \in Nat : k \in T
  <2> HIDE DEF T
  <2> QED
    BY <1>1, <1>2, SetInduction
<1>4. n \in T
  BY <1>3
<1>5. ~ \A j \in I : j <= n - n
  <2>1. PICK j \in I : TRUE
    OBVIOUS
  <2> QED
    BY <2>1
<1> QED
  BY <1>4, <1>5

(* If some member of s is in C, one is the last.                           *)
LEMMA LastExists ==
  ASSUME NEW X, NEW s \in Seq(X), NEW C, ~ NoneIn(s, C)
  PROVE  LastIn(s, C, C \cap X)
<1> DEFINE I == {i \in DOMAIN s : s[i] \in C}
<1>1. /\ Len(s) \in Nat /\ DOMAIN s = 1 .. Len(s)
      /\ \A i \in DOMAIN s : s[i] \in X
  OBVIOUS
<1>2. I \in SUBSET (1 .. Len(s)) /\ I # {}
  BY <1>1 DEF NoneIn
<1>3. PICK i \in I : \A j \in I : j <= i
  <2> HIDE DEF I
  <2> QED
    BY <1>1, <1>2, LastPosition
<1>4. \A j \in DOMAIN s : i < j => s[j] \notin C
  BY <1>1, <1>3
<1> QED
  BY <1>1, <1>4 DEF LastIn

(* A list of one.                                                          *)
LEMMA SingleIn ==
  ASSUME NEW X, NEW x \in X, NEW C, NEW G
  PROVE  /\ <<x>> \in Seq(X)
         /\ NoneIn(<<x>>, C) <=> x \notin C
         /\ LastIn(<<x>>, C, G) <=> x \in G
<1>1. <<x>> \in Seq(X) /\ DOMAIN <<x>> = {1} /\ <<x>>[1] = x
  OBVIOUS
<1>2. NoneIn(<<x>>, C) <=> x \notin C
  BY <1>1 DEF NoneIn
<1>3. LastIn(<<x>>, C, G) <=> x \in G
  BY <1>1 DEF LastIn
<1> QED
  BY <1>1, <1>2, <1>3

(* A list of none.                                                         *)
LEMMA EmptyIn ==
  ASSUME NEW X
  PROVE  <<>> \in Seq(X) /\ \A C : NoneIn(<<>>, C)
BY DEF NoneIn

(* A list holds nothing of another kind; a kind may be taken for a wider   *)
(* one.                                                                    *)
LEMMA KindOf ==
  ASSUME NEW X, NEW s \in Seq(X)
  PROVE  /\ \A C : C \cap X = {} => NoneIn(s, C)
         /\ \A Y : X \subseteq Y => s \in Seq(Y)
<1>1. /\ Len(s) \in Nat /\ DOMAIN s = 1 .. Len(s)
      /\ \A i \in DOMAIN s : s[i] \in X
  OBVIOUS
<1>2. ASSUME NEW C, C \cap X = {} PROVE NoneIn(s, C)
  BY <1>1, <1>2 DEF NoneIn
<1>3. ASSUME NEW Y, X \subseteq Y PROVE s \in Seq(Y)
  <2>1. s \in [1 .. Len(s) -> Y]
    BY <1>1, <1>3
  <2> QED
    BY <1>1, <2>1, SeqDef
<1> QED
  BY <1>2, <1>3

-----------------------------------------------------------------------------
(* The calls that a document causes.                                       *)

TheCall(api, p, e) == [api |-> api, path |-> p, arg |-> e]

RuleApi  == {"setCommitRule", "setFireRule", "setCommitedCloseNumber", "setFileDeps"}
GraphApi == {"newFile", "addConsumer", "addProducer", "setDirectoryFileCount",
             "setFile", "setDirectory"} \cup RuleApi

(* What is true of them all.                                               *)
Says(d, r) ==
  {c \in ApiCall :
     /\ c.api \in LoaderApi /\ WellFormed(c) /\ ~ BadRule(c)
     /\ c.api = "addProducer" =>
          \E app \in Range(d.IO_Graph) : /\ c.path \in Named(app.output_stream, r)
                                         /\ Head(c.arg.producers) = app.name
     /\ c.api = "addConsumer" =>
          \E app \in Range(d.IO_Graph) : /\ c.path \in Named(app.input_stream, r)
                                         /\ Head(c.arg.consumers) = app.name
     /\ c.api = "setPermanent" => c.arg.permanent
     /\ c.api = "setExclude" => c.arg.excluded}
Kind(d, r, A) == {c \in Says(d, r) : c.api \in A}

(* A path of the document is a path wherever the prefix leads.             *)
LEMMA ResolveType ==
  ASSUME NEW p \in Path, NEW r \in Prefixes
  PROVE  resolve(p, r) \in Path
BY PersistenceAssumption DEF resolve

(* What a rule asks for.                                                   *)
LEMMA ItemRules ==
  ASSUME NEW item \in Item, NEW r \in Prefixes
  PROVE  /\ committed(item) \in AnyCommitRule /\ mode(item) \in AnyFireRule
         /\ file_deps(item, r) \in Seq(Path)
         /\ item.n_close \in Int /\ item.n_files \in Int
<1>1. /\ item.committed \in AnyCommitRule \cup {"absent"}
      /\ item.mode \in AnyFireRule \cup {"absent"}
      /\ item.n_close \in Int /\ item.n_files \in Int
      /\ item.file_deps \in Seq(Path)
  BY DEF Item
<1>2. committed(item) \in AnyCommitRule /\ mode(item) \in AnyFireRule
  BY <1>1 DEF committed, mode, AnyCommitRule, CommitRule, AnyFireRule, FireRule
<1>3. file_deps(item, r) \in Seq(Path)
  <2> DEFINE s == item.file_deps
             u == [i \in DOMAIN s |-> resolve(s[i], r)]
  <2>1. u \in Seq(Path)
    <3>1. Len(s) \in Nat /\ DOMAIN s = 1 .. Len(s) /\ \A i \in DOMAIN s : s[i] \in Path
      BY <1>1
    <3> HIDE DEF s
    <3>2. \A i \in DOMAIN s : resolve(s[i], r) \in Path
      BY <3>1, ResolveType
    <3>3. u \in [1 .. Len(s) -> Path]
      BY <3>1, <3>2
    <3> HIDE DEF u
    <3> QED
      BY <3>1, <3>3, SeqDef
  <2>2. <<>> \in Seq(Path)
    OBVIOUS
  <2> HIDE DEF u
  <2> QED
    BY <2>1, <2>2 DEF file_deps, u
<1> QED
  BY <1>1, <1>2, <1>3

(* The arguments of the calls are entries.                                 *)
LEMMA EntryFields ==
  ASSUME NEW e \in Entry
  PROVE  /\ \A n \in Int : /\ [e EXCEPT !.directory_children_count = n] \in Entry
                           /\ [e EXCEPT !.commit_on_close_count = n] \in Entry
         /\ \A k \in AnyCommitRule : [e EXCEPT !.commit_rule = k] \in Entry
         /\ \A k \in AnyFireRule : [e EXCEPT !.fire_rule = k] \in Entry
         /\ \A l \in Seq(Path) : [e EXCEPT !.file_dependencies = l] \in Entry
         /\ \A l \in Seq(App) : /\ [e EXCEPT !.consumers = l] \in Entry
                                /\ [e EXCEPT !.producers = l] \in Entry
         /\ \A b \in BOOLEAN : /\ [e EXCEPT !.permanent = b] \in Entry
                               /\ [e EXCEPT !.excluded = b] \in Entry
<1>1. /\ \A n \in Int : /\ [e EXCEPT !.directory_children_count = n] \in Entry
                        /\ [e EXCEPT !.commit_on_close_count = n] \in Entry
      /\ \A k \in AnyCommitRule : [e EXCEPT !.commit_rule = k] \in Entry
      /\ \A k \in AnyFireRule : [e EXCEPT !.fire_rule = k] \in Entry
  BY DEF Entry
<1>2. \A l \in Seq(Path) : [e EXCEPT !.file_dependencies = l] \in Entry
  BY DEF Entry
<1>3. \A l \in Seq(App) : /\ [e EXCEPT !.consumers = l] \in Entry
                          /\ [e EXCEPT !.producers = l] \in Entry
  BY DEF Entry
<1>4. \A b \in BOOLEAN : /\ [e EXCEPT !.permanent = b] \in Entry
                         /\ [e EXCEPT !.excluded = b] \in Entry
  BY DEF Entry
<1> QED
  BY <1>1, <1>2, <1>3, <1>4

(* One more member.                                                        *)
LEMMA OneMoreIn ==
  ASSUME NEW X, NEW s \in Seq(X), NEW x \in X
  PROVE  /\ s \o <<x>> \in Seq(X)
         /\ \A C : NoneIn(s \o <<x>>, C) <=> NoneIn(s, C) /\ x \notin C
         /\ \A C, G : LastIn(s \o <<x>>, C, G) <=>
                        x \in G \/ (x \notin C /\ LastIn(s, C, G))
<1>1. <<x>> \in Seq(X) /\ s \o <<x>> \in Seq(X)
  OBVIOUS
<1>2. ASSUME NEW C, NEW G
      PROVE  /\ NoneIn(s \o <<x>>, C) <=> NoneIn(s, C) /\ NoneIn(<<x>>, C)
             /\ LastIn(s \o <<x>>, C, G) <=>
                  LastIn(<<x>>, C, G) \/ (NoneIn(<<x>>, C) /\ LastIn(s, C, G))
  BY <1>1, ConcatIn
<1>3. \A C, G : /\ NoneIn(<<x>>, C) <=> x \notin C
                /\ LastIn(<<x>>, C, G) <=> x \in G
  BY SingleIn
<1> QED
  BY <1>1, <1>2, <1>3

(* The calls on path q of a streaming rule, and what each sets.            *)
RuleBody(item, q, r) ==
  LET p == resolve(q, r) IN
  (IF item.kind = "dirname" /\ item.n_files # 0
   THEN Do("setDirectoryFileCount", p,
           [DefaultEntry EXCEPT !.directory_children_count = item.n_files])
   ELSE <<>>)
  \o Do(IF item.kind = "name" THEN "setFile" ELSE "setDirectory", p, DefaultEntry)
  \o Do("setCommitRule", p, [DefaultEntry EXCEPT !.commit_rule = committed(item)])
  \o Do("setFireRule", p, [DefaultEntry EXCEPT !.fire_rule = mode(item)])
  \o Do("setCommitedCloseNumber", p,
        [DefaultEntry EXCEPT !.commit_on_close_count = item.n_close])
  \o Do("setFileDeps", p,
        [DefaultEntry EXCEPT !.file_dependencies = file_deps(item, r)])

RuleArg(a, item, r) ==
  CASE a = "setCommitRule" -> [DefaultEntry EXCEPT !.commit_rule = committed(item)]
    [] a = "setFireRule"   -> [DefaultEntry EXCEPT !.fire_rule = mode(item)]
    [] a = "setCommitedCloseNumber" ->
         [DefaultEntry EXCEPT !.commit_on_close_count = item.n_close]
    [] a = "setFileDeps" ->
         [DefaultEntry EXCEPT !.file_dependencies = file_deps(item, r)]
    [] a = "setDirectoryFileCount" ->
         [DefaultEntry EXCEPT !.directory_children_count = item.n_files]
    [] a \in Kinds -> DefaultEntry

(* The calls of method a on p.                                             *)
CallsOn(a, p) == {c \in ApiCall : c.api = a /\ c.path = p}

(* What rules say of a path, by the method that says it ("setDirectory" for*)
(* the kind of the path, "setFile" for a file that is to stay one); the    *)
(* calls that have a part in it; whether the rule item makes one of them on*)
(* behalf of its path q; and which of them is the last that it makes.      *)
Aspects == RuleApi \cup Kinds \cup {"setDirectoryFileCount"}
KindApi(item) == IF item.kind = "name" THEN "setFile" ELSE "setDirectory"

Parts(a, p) ==
  CASE a = "setFileDeps"  -> {c \in CallsOn(a, p) : ~ NothingToDo(c)}
    [] a = "setDirectory" -> CallsOn("setFile", p) \cup CallsOn("setDirectory", p)
    [] a = "setFile" -> CallsOn("setFile", p) \cup CallsOn("setDirectory", p)
                          \cup {c \in ApiCall : c.api = "setDirectoryFileCount"}
    [] OTHER -> CallsOn(a, p)

Bears(a, item, q, p, r) ==
  CASE a = "setFileDeps" -> resolve(q, r) = p /\ file_deps(item, r) # <<>>
    [] a = "setDirectoryFileCount" -> resolve(q, r) = p /\ Counted(item)
    [] a = "setFile" -> resolve(q, r) = p \/ Counted(item)
    [] OTHER -> resolve(q, r) = p

Outcome(a, p, item, r) ==
  CASE a \notin Kinds -> {TheCall(a, p, RuleArg(a, item, r))}
    [] a = "setDirectory" -> {TheCall(KindApi(item), p, DefaultEntry)}
    [] a = "setFile" -> IF item.kind = "name"
                        THEN {TheCall("setFile", p, DefaultEntry)} ELSE Parts(a, p)

(* The rules that have a part in it.                                       *)
RulesAbout(a, p, r) == {x \in Item : \E q \in Range(x.paths) : Bears(a, x, q, p, r)}

(* The argument that a rule gives each method.                             *)
LEMMA RuleArgs ==
  ASSUME NEW x, NEW r
  PROVE  /\ RuleArg("setCommitRule", x, r) = [DefaultEntry EXCEPT !.commit_rule = committed(x)]
         /\ RuleArg("setFireRule", x, r) = [DefaultEntry EXCEPT !.fire_rule = mode(x)]
         /\ RuleArg("setCommitedCloseNumber", x, r) =
              [DefaultEntry EXCEPT !.commit_on_close_count = x.n_close]
         /\ RuleArg("setFileDeps", x, r) =
              [DefaultEntry EXCEPT !.file_dependencies = file_deps(x, r)]
         /\ RuleArg("setDirectoryFileCount", x, r) =
              [DefaultEntry EXCEPT !.directory_children_count = x.n_files]
<1>1. RuleArg("setCommitRule", x, r) = [DefaultEntry EXCEPT !.commit_rule = committed(x)]
  BY DEF RuleArg, Kinds
<1>2. RuleArg("setFireRule", x, r) = [DefaultEntry EXCEPT !.fire_rule = mode(x)]
  BY DEF RuleArg, Kinds
<1>3. RuleArg("setCommitedCloseNumber", x, r) =
        [DefaultEntry EXCEPT !.commit_on_close_count = x.n_close]
  BY DEF RuleArg, Kinds
<1>4. RuleArg("setFileDeps", x, r) =
        [DefaultEntry EXCEPT !.file_dependencies = file_deps(x, r)]
  BY DEF RuleArg, Kinds
<1>5. RuleArg("setDirectoryFileCount", x, r) =
        [DefaultEntry EXCEPT !.directory_children_count = x.n_files]
  BY DEF RuleArg, Kinds
<1> QED
  BY <1>1, <1>2, <1>3, <1>4, <1>5

(* What an entry is like that heeds it.                                    *)
LEMMA HeedsRule ==
  ASSUME NEW x, NEW r, NEW p, NEW e, NEW a, NEW c, c = TheCall(a, p, RuleArg(a, x, r)),
         Heeds(e, c)
  PROVE  /\ a = "setCommitRule" => e.commit_rule = committed(x)
         /\ a = "setFireRule" => e.fire_rule = mode(x)
         /\ a = "setCommitedCloseNumber" => e.commit_on_close_count = x.n_close
         /\ a = "setFileDeps" => e.file_dependencies = file_deps(x, r)
         /\ a = "setDirectoryFileCount" => /\ e.directory_children_count = x.n_files
                                           /\ ~ e.enable_directory_count_update
         /\ a = "setFile" => e.is_file
         /\ a = "setDirectory" => ~ e.is_file
<1>1. c.api = a /\ c.arg = RuleArg(a, x, r)
  BY DEF TheCall
<1>2. CASE a = "setCommitRule"
  <2>1. c.arg.commit_rule = committed(x)
    BY <1>1, <1>2, RuleArgs DEF DefaultEntry
  <2> QED
    BY <1>1, <1>2, <2>1 DEF Heeds
<1>3. CASE a = "setFireRule"
  <2>1. c.arg.fire_rule = mode(x)
    BY <1>1, <1>3, RuleArgs DEF DefaultEntry
  <2> QED
    BY <1>1, <1>3, <2>1 DEF Heeds
<1>4. CASE a = "setCommitedCloseNumber"
  <2>1. c.arg.commit_on_close_count = x.n_close
    BY <1>1, <1>4, RuleArgs DEF DefaultEntry
  <2> QED
    BY <1>1, <1>4, <2>1 DEF Heeds
<1>5. CASE a = "setFileDeps"
  <2>1. c.arg.file_dependencies = file_deps(x, r)
    BY <1>1, <1>5, RuleArgs DEF DefaultEntry
  <2> QED
    BY <1>1, <1>5, <2>1 DEF Heeds
<1>6. CASE a = "setDirectoryFileCount"
  <2>1. c.arg.directory_children_count = x.n_files
    BY <1>1, <1>6, RuleArgs DEF DefaultEntry
  <2> QED
    BY <1>1, <1>6, <2>1 DEF Heeds
<1>7. (a = "setFile" => e.is_file) /\ (a = "setDirectory" => ~ e.is_file)
  BY <1>1 DEF Heeds
<1> QED
  BY <1>2, <1>3, <1>4, <1>5, <1>6, <1>7

(* A valid rule makes no bad call; the last call it makes on each aspect of*)
(* a path is its own.                                                      *)
LEMMA RuleBodyCalls ==
  ASSUME NEW d, NEW r \in Prefixes, NEW item \in Item, ValidItem(item),
         NEW q \in Path
  PROVE  /\ RuleBody(item, q, r) \in Seq(Kind(d, r, GraphApi \ Roles))
         /\ \A a \in Aspects, p \in Path :
              /\ ~ Bears(a, item, q, p, r) => NoneIn(RuleBody(item, q, r), Parts(a, p))
              /\ Bears(a, item, q, p, r) =>
                   LastIn(RuleBody(item, q, r), Parts(a, p), Outcome(a, p, item, r))
<1> DEFINE p == resolve(q, r)
           K == Kind(d, r, GraphApi \ Roles)
           e0 == [DefaultEntry EXCEPT !.directory_children_count = item.n_files]
           e2 == [DefaultEntry EXCEPT !.commit_rule = committed(item)]
           e3 == [DefaultEntry EXCEPT !.fire_rule = mode(item)]
           e4 == [DefaultEntry EXCEPT !.commit_on_close_count = item.n_close]
           e5 == [DefaultEntry EXCEPT !.file_dependencies = file_deps(item, r)]
           c0 == TheCall("setDirectoryFileCount", p, e0)
           c1 == TheCall(KindApi(item), p, DefaultEntry)
           c2 == TheCall("setCommitRule", p, e2)
           c3 == TheCall("setFireRule", p, e3)
           c4 == TheCall("setCommitedCloseNumber", p, e4)
           c5 == TheCall("setFileDeps", p, e5)
           s0 == IF item.kind = "dirname" /\ item.n_files # 0 THEN <<c0>> ELSE <<>>
           s1 == s0 \o <<c1>>
           s2 == s1 \o <<c2>>
           s3 == s2 \o <<c3>>
           s4 == s3 \o <<c4>>
           s5 == s4 \o <<c5>>
<1>1. RuleBody(item, q, r) = s5
  BY DEF RuleBody, Do, TheCall, KindApi
<1>2. p \in Path
  BY ResolveType
<1>3. {e0, e2, e3, e4, e5, DefaultEntry} \subseteq Entry
  <2>1. /\ item.n_files \in Int /\ item.n_close \in Int
        /\ committed(item) \in AnyCommitRule /\ mode(item) \in AnyFireRule
        /\ file_deps(item, r) \in Seq(Path)
    BY ItemRules
  <2>2. DefaultEntry \in Entry
    BY DefaultEntryType
  <2> QED
    BY <2>1, <2>2, EntryFields
<1>4. /\ e2.commit_rule \in CommitRule /\ e3.fire_rule \in FireRule
  BY DEF ValidItem, committed, mode, DefaultEntry, CommitRule, FireRule
<1> HIDE DEF p, e0, e2, e3, e4, e5
<1>5. /\ c0 \in K /\ c1 \in K /\ c2 \in K /\ c3 \in K /\ c4 \in K /\ c5 \in K
  BY <1>2, <1>3, <1>4
  DEF Kind, Says, TheCall, ApiCall, Api, Setters, Loops, GraphApi, RuleApi, Roles,
      LoaderApi, Direct, Twofold, WellFormed, BadRule, KindApi
<1> HIDE DEF K
<1>6. ASSUME NEW C, NEW G
      PROVE  /\ s5 \in Seq(K)
             /\ NoneIn(s5, C) <=> /\ NoneIn(s0, C) /\ c1 \notin C /\ c2 \notin C
                                  /\ c3 \notin C /\ c4 \notin C /\ c5 \notin C
             /\ \/ c5 \in G
                \/ c5 \notin C /\ c4 \in G
                \/ c5 \notin C /\ c4 \notin C /\ c3 \in G
                \/ c5 \notin C /\ c4 \notin C /\ c3 \notin C /\ c2 \in G
                \/ /\ c5 \notin C /\ c4 \notin C /\ c3 \notin C /\ c2 \notin C
                   /\ c1 \in G
                \/ /\ c5 \notin C /\ c4 \notin C /\ c3 \notin C /\ c2 \notin C
                   /\ c1 \notin C /\ LastIn(s0, C, G)
                => LastIn(s5, C, G)
  <2> HIDE DEF c0, c1, c2, c3, c4, c5
  <2>1. s0 \in Seq(K)
    BY <1>5
  <2> HIDE DEF s0
  <2>2. /\ s1 \in Seq(K)
        /\ NoneIn(s1, C) <=> NoneIn(s0, C) /\ c1 \notin C
        /\ c1 \in G \/ (c1 \notin C /\ LastIn(s0, C, G)) => LastIn(s1, C, G)
    BY <1>5, <2>1, OneMoreIn
  <2> HIDE DEF s1
  <2>3. /\ s2 \in Seq(K)
        /\ NoneIn(s2, C) <=> NoneIn(s1, C) /\ c2 \notin C
        /\ c2 \in G \/ (c2 \notin C /\ LastIn(s1, C, G)) => LastIn(s2, C, G)
    BY <1>5, <2>2, OneMoreIn
  <2> HIDE DEF s2
  <2>4. /\ s3 \in Seq(K)
        /\ NoneIn(s3, C) <=> NoneIn(s2, C) /\ c3 \notin C
        /\ c3 \in G \/ (c3 \notin C /\ LastIn(s2, C, G)) => LastIn(s3, C, G)
    BY <1>5, <2>3, OneMoreIn
  <2> HIDE DEF s3
  <2>5. /\ s4 \in Seq(K)
        /\ NoneIn(s4, C) <=> NoneIn(s3, C) /\ c4 \notin C
        /\ c4 \in G \/ (c4 \notin C /\ LastIn(s3, C, G)) => LastIn(s4, C, G)
    BY <1>5, <2>4, OneMoreIn
  <2> HIDE DEF s4
  <2>6. /\ s5 \in Seq(K)
        /\ NoneIn(s5, C) <=> NoneIn(s4, C) /\ c5 \notin C
        /\ c5 \in G \/ (c5 \notin C /\ LastIn(s4, C, G)) => LastIn(s5, C, G)
    BY <1>5, <2>5, OneMoreIn
  <2> QED
    BY <2>2, <2>3, <2>4, <2>5, <2>6
<1>7. /\ \A C : NoneIn(s0, C) <=> c0 \notin C \/ ~ Counted(item)
      /\ \A C, G : Counted(item) => (LastIn(s0, C, G) <=> c0 \in G)
  <2> HIDE DEF c0
  <2>1. \A C, G : /\ NoneIn(<<c0>>, C) <=> c0 \notin C
                  /\ LastIn(<<c0>>, C, G) <=> c0 \in G
    BY <1>5, SingleIn
  <2>2. \A C : NoneIn(<<>>, C)
    BY EmptyIn
  <2> QED
    BY <2>1, <2>2 DEF Counted
<1>8. ASSUME NEW a \in Aspects, NEW x \in Path
      PROVE  /\ ~ Bears(a, item, q, x, r) => NoneIn(s5, Parts(a, x))
             /\ Bears(a, item, q, x, r) =>
                  LastIn(s5, Parts(a, x), Outcome(a, x, item, r))
  <2> DEFINE C == Parts(a, x)
             G == Outcome(a, x, item, r)
  <2>1. /\ c0.api = "setDirectoryFileCount" /\ c0.path = p /\ c0.arg = e0
        /\ c1.api = KindApi(item) /\ c1.path = p
        /\ c2.api = "setCommitRule" /\ c2.path = p /\ c3.api = "setFireRule" /\ c3.path = p
        /\ c4.api = "setCommitedCloseNumber" /\ c4.path = p
        /\ c5.api = "setFileDeps" /\ c5.path = p /\ c5.arg = e5
        /\ KindApi(item) \in Kinds
    BY DEF TheCall, KindApi, Kinds
  <2>2. e5.file_dependencies = file_deps(item, r)
    BY DEF e5, DefaultEntry
  <2>3. {c0, c1, c2, c3, c4, c5} \subseteq ApiCall
    BY <1>5 DEF K, Kind, Says
  <2>4. p = resolve(q, r)
    BY DEF p
  <2>5. CASE a \notin Kinds
    <3>1. /\ C = {c \in CallsOn(a, x) : a = "setFileDeps" => ~ NothingToDo(c)}
          /\ G = {TheCall(a, x, RuleArg(a, item, r))}
      BY <2>5 DEF Parts, Outcome, Kinds
    <3>2. Bears(a, item, q, x, r) <=>
            /\ p = x /\ (a = "setFileDeps" => file_deps(item, r) # <<>>)
            /\ a = "setDirectoryFileCount" => Counted(item)
      BY <2>4, <2>5 DEF Bears, Kinds
    <3>3. NothingToDo(c5) <=> file_deps(item, r) = <<>>
      BY <2>1, <2>2 DEF NothingToDo
    <3> HIDE DEF c0, c1, c2, c3, c4, c5
    <3>4. /\ c1 \notin C
          /\ c0 \in C <=> p = x /\ a = "setDirectoryFileCount"
          /\ c2 \in C <=> p = x /\ a = "setCommitRule"
          /\ c3 \in C <=> p = x /\ a = "setFireRule"
          /\ c4 \in C <=> p = x /\ a = "setCommitedCloseNumber"
          /\ c5 \in C <=> p = x /\ a = "setFileDeps" /\ file_deps(item, r) # <<>>
      BY <2>1, <2>3, <2>5, <3>1, <3>3 DEF CallsOn, Kinds
    <3>5. p = x =>
            /\ a = "setDirectoryFileCount" => c0 \in G
            /\ a = "setCommitRule" => c2 \in G
            /\ a = "setFireRule" => c3 \in G
            /\ a = "setCommitedCloseNumber" => c4 \in G
            /\ a = "setFileDeps" => c5 \in G
      BY <3>1, RuleArgs DEF c0, c2, c3, c4, c5, e0, e2, e3, e4, e5
    <3> HIDE DEF C, G, s0, s5
    <3>6. /\ a \in {"setCommitRule", "setFireRule", "setCommitedCloseNumber",
                    "setFileDeps", "setDirectoryFileCount"}
      BY <2>5 DEF Aspects, RuleApi
    <3>7. ~ Bears(a, item, q, x, r) => NoneIn(s5, C)
      BY <1>6, <1>7, <3>2, <3>4
    <3>8. Bears(a, item, q, x, r) => LastIn(s5, C, G)
      BY <1>6, <1>7, <3>2, <3>4, <3>5, <3>6
    <3> QED
      BY <3>7, <3>8 DEF C, G
  <2>6. CASE a = "setDirectory"
    <3>1. /\ C = CallsOn("setFile", x) \cup CallsOn("setDirectory", x)
          /\ G = {TheCall(KindApi(item), x, DefaultEntry)}
      BY <2>6 DEF Parts, Outcome, Kinds
    <3>2. Bears(a, item, q, x, r) <=> p = x
      BY <2>4, <2>6 DEF Bears
    <3>3. p = x => c1 \in G
      BY <3>1
    <3> HIDE DEF c0, c1, c2, c3, c4, c5
    <3>4. /\ c0 \notin C /\ c2 \notin C /\ c3 \notin C /\ c4 \notin C /\ c5 \notin C
          /\ c1 \in C <=> p = x
      BY <2>1, <2>3, <3>1 DEF CallsOn, Kinds
    <3> HIDE DEF C, G, s0, s5
    <3>5. ~ Bears(a, item, q, x, r) => NoneIn(s5, C)
      BY <1>6, <1>7, <3>2, <3>4
    <3>6. Bears(a, item, q, x, r) => LastIn(s5, C, G)
      BY <1>6, <3>2, <3>3, <3>4
    <3> QED
      BY <3>5, <3>6 DEF C, G
  <2>7. CASE a = "setFile"
    <3>1. /\ C = CallsOn("setFile", x) \cup CallsOn("setDirectory", x)
                  \cup {c \in ApiCall : c.api = "setDirectoryFileCount"}
          /\ G = IF item.kind = "name" THEN {TheCall("setFile", x, DefaultEntry)} ELSE C
      BY <2>7 DEF Parts, Outcome, Kinds
    <3>2. Bears(a, item, q, x, r) <=> p = x \/ Counted(item)
      BY <2>4, <2>7 DEF Bears
    <3>3. item.kind = "name" => ~ Counted(item) /\ (p = x => c1 \in G)
      BY <3>1 DEF Counted, KindApi
    <3> HIDE DEF c0, c1, c2, c3, c4, c5
    <3>4. /\ c2 \notin C /\ c3 \notin C /\ c4 \notin C /\ c5 \notin C
          /\ c1 \in C <=> p = x
          /\ c0 \in C
      BY <2>1, <2>3, <3>1 DEF CallsOn, Kinds
    <3>5. item.kind # "name" => G = C
      BY <3>1
    <3> HIDE DEF C, G, s0, s5
    <3>6. ~ Bears(a, item, q, x, r) => NoneIn(s5, C)
      BY <1>6, <1>7, <3>2, <3>4
    <3>7. Bears(a, item, q, x, r) => LastIn(s5, C, G)
      BY <1>6, <1>7, <3>2, <3>3, <3>4, <3>5
    <3> QED
      BY <3>6, <3>7 DEF C, G
  <2> QED
    BY <2>5, <2>6, <2>7 DEF Kinds
<1> HIDE DEF s5
<1>9. s5 \in Seq(K)
  BY <1>6
<1> QED
  BY <1>1, <1>8, <1>9 DEF K, p

(* The same for all paths of a rule.                                       *)
LEMMA StreamingCalls ==
  ASSUME NEW d, NEW r \in Prefixes, NEW item \in Item, ValidItem(item)
  PROVE  /\ parse_streaming(item, r) \in Seq(Kind(d, r, GraphApi \ Roles))
         /\ \A a \in Aspects, p \in Path :
              /\ item \notin RulesAbout(a, p, r) =>
                   NoneIn(parse_streaming(item, r), Parts(a, p))
              /\ item \in RulesAbout(a, p, r) =>
                   LastIn(parse_streaming(item, r), Parts(a, p), Outcome(a, p, item, r))
<1> DEFINE K == Kind(d, r, GraphApi \ Roles)
           s == item.paths
           ss == [i \in DOMAIN s |-> RuleBody(item, s[i], r)]
           u == S!FlattenSeq(ss)
<1>1. parse_streaming(item, r) = u
  BY DEF parse_streaming, ForEach, RuleBody
<1>2. s \in Seq(Path)
  BY DEF Item
<1>3. /\ Len(s) \in Nat /\ DOMAIN s = 1 .. Len(s)
      /\ \A i \in DOMAIN s : s[i] \in Path
  BY <1>2
<1>4. \A i \in DOMAIN s : ss[i] = RuleBody(item, s[i], r) /\ ss[i] \in Seq(K)
  BY <1>3, RuleBodyCalls
<1>5. DOMAIN ss = DOMAIN s /\ ss = [i \in DOMAIN ss |-> ss[i]]
  OBVIOUS
<1> HIDE DEF s, K, ss
<1>6. Lists(K, ss)
  BY <1>2, <1>4, <1>5, ListsOf
<1>7. /\ u \in Seq(K)
      /\ \A C : NoneIn(u, C) <=> \A i \in DOMAIN ss : NoneIn(ss[i], C)
      /\ \A C, G : LastIn(u, C, G) <=>
           \E i \in DOMAIN ss : /\ LastIn(ss[i], C, G)
                                /\ \A j \in DOMAIN ss : i < j => NoneIn(ss[j], C)
  BY <1>6, FlattenIn
<1> HIDE DEF u
<1>8. ASSUME NEW a \in Aspects, NEW p \in Path
      PROVE  /\ item \notin RulesAbout(a, p, r) => NoneIn(u, Parts(a, p))
             /\ item \in RulesAbout(a, p, r) =>
                  LastIn(u, Parts(a, p), Outcome(a, p, item, r))
  <2> DEFINE C == Parts(a, p)
             G == Outcome(a, p, item, r)
             I == {i \in DOMAIN s : Bears(a, item, s[i], p, r)}
  <2>1. \A i \in DOMAIN s : /\ i \notin I => NoneIn(ss[i], C)
                            /\ i \in I => LastIn(ss[i], C, G)
    BY <1>3, <1>4, RuleBodyCalls
  <2>2. item \in RulesAbout(a, p, r) <=> I # {}
    BY DEF RulesAbout, Range, s
  <2>3. I # {} => \E i \in I : \A j \in I : j <= i
    <3>1. I \in SUBSET (1 .. Len(s))
      BY <1>3
    <3> HIDE DEF I
    <3> QED
      BY <1>3, <3>1, LastPosition
  <2>4. I \subseteq DOMAIN s
    OBVIOUS
  <2> HIDE DEF C, G, I
  <2>5. CASE I = {}
    BY <1>5, <1>7, <2>1, <2>2, <2>5 DEF C
  <2>6. CASE I # {}
    <3>1. PICK i \in I : \A j \in I : j <= i
      BY <2>3, <2>6
    <3>2. \A j \in DOMAIN s : i < j => j \notin I
      BY <1>3, <2>4, <3>1
    <3> QED
      BY <1>5, <1>7, <2>1, <2>2, <2>4, <2>6, <3>1, <3>2 DEF C, G
  <2> QED
    BY <2>5, <2>6
<1> QED
  BY <1>1, <1>7, <1>8 DEF s, K

(* The calls on path q of an application's list of inputs or outputs.      *)
StreamBody(api, q, e, r) == New(resolve(q, r)) \o Do(api, resolve(q, r), e)

(* A list of paths, each registered and then the subject of one call.      *)
LEMMA StreamCalls ==
  ASSUME NEW d, NEW r \in Prefixes, NEW s \in Seq(Path), NEW api \in LoaderApi,
         NEW e \in Entry, \A q \in Range(s) : TheCall(api, resolve(q, r), e) \in Says(d, r),
         NEW ss, ss = [i \in DOMAIN s |-> StreamBody(api, s[i], e, r)]
  PROVE  /\ S!FlattenSeq(ss) \in Seq(Kind(d, r, {"newFile", api}))
         /\ \A p \in Named(s, r) :
              ~ NoneIn(S!FlattenSeq(ss), {TheCall(api, p, e)})
<1> DEFINE K == Kind(d, r, {"newFile", api})
           c(p) == TheCall(api, p, e)
           n(p) == TheCall("newFile", p, DefaultEntry)
           u == S!FlattenSeq(ss)
<1>1. /\ Len(s) \in Nat /\ DOMAIN s = 1 .. Len(s)
      /\ \A i \in DOMAIN s : s[i] \in Path /\ s[i] \in Range(s)
  BY DEF Range
<1>2. \A p \in Path : n(p) \in K
  BY DefaultEntryType
  DEF Kind, Says, TheCall, ApiCall, Api, LoaderApi, WellFormed, BadRule
<1>3. \A q \in Range(s) : c(resolve(q, r)) \in K
  BY DEF Kind, TheCall
<1>4. ASSUME NEW i \in DOMAIN s
      PROVE  /\ ss[i] \in Seq(K)
             /\ ~ NoneIn(ss[i], {c(resolve(s[i], r))})
  <2> DEFINE p == resolve(s[i], r)
  <2>1. p \in Path /\ n(p) \in K /\ c(p) \in K
    BY <1>1, <1>2, <1>3, ResolveType
  <2>2. ss[i] = <<n(p)>> \o <<c(p)>>
    BY DEF StreamBody, New, Do, TheCall
  <2> HIDE DEF p, n, c, K, u
  <2>3. PICK l, y : l = <<n(p)>> /\ y = c(p)
    OBVIOUS
  <2>4. y \in K /\ l \in Seq(K)
    BY <2>1, <2>3
  <2>5. /\ l \o <<y>> \in Seq(K)
        /\ NoneIn(l \o <<y>>, {y}) => y \notin {y}
    BY <2>4, OneMoreIn
  <2> QED
    BY <2>2, <2>3, <2>5 DEF p
<1>5. DOMAIN ss = DOMAIN s /\ ss = [i \in DOMAIN ss |-> ss[i]]
  OBVIOUS
<1>6. Lists(K, ss)
  <2> HIDE DEF K
  <2> QED
    BY <1>4, <1>5, ListsOf
<1>7. u \in Seq(K) /\ \A C : NoneIn(u, C) <=> \A i \in DOMAIN ss : NoneIn(ss[i], C)
  BY <1>6, FlattenIn
<1> HIDE DEF u, K, c
<1>8. ASSUME NEW p \in Named(s, r) PROVE ~ NoneIn(u, {c(p)})
  <2>1. PICK i \in DOMAIN s : p = resolve(s[i], r)
    BY DEF Named, Range
  <2> QED
    BY <1>4, <1>5, <1>7, <2>1
<1> QED
  BY <1>7, <1>8 DEF u, K, c

(* The calls by which an application becomes a producer, and a consumer.   *)
ProducerCall(app, p) ==
  TheCall("addProducer", p, [DefaultEntry EXCEPT !.producers = <<app.name>>])
ConsumerCall(app, p) ==
  TheCall("addConsumer", p, [DefaultEntry EXCEPT !.consumers = <<app.name>>])

(* The three parts of an application, and what they call.                  *)
LEMMA AppCalls ==
  ASSUME NEW d, NEW r \in Prefixes, NEW app \in AppItem, app \in Range(d.IO_Graph),
         \A i \in DOMAIN app.streaming : ValidItem(app.streaming[i])
  PROVE  /\ parse_app(app, r) \in Seq(Kind(d, r, GraphApi))
         /\ \A p \in Named(app.output_stream, r) :
              ~ NoneIn(parse_app(app, r), {ProducerCall(app, p)})
         /\ \A p \in Named(app.input_stream, r) :
              ~ NoneIn(parse_app(app, r), {ConsumerCall(app, p)})
         /\ \A a \in Aspects, p \in Path :
              /\ NoneIn(app.streaming, RulesAbout(a, p, r)) =>
                   NoneIn(parse_app(app, r), Parts(a, p))
              /\ \A x \in RulesAbout(a, p, r) : LastIn(app.streaming, RulesAbout(a, p, r), {x}) =>
                   LastIn(parse_app(app, r), Parts(a, p),
                          Outcome(a, p, x, r))
<1> DEFINE eI == [DefaultEntry EXCEPT !.consumers = <<app.name>>]
           eO == [DefaultEntry EXCEPT !.producers = <<app.name>>]
           sI == app.input_stream
           sO == app.output_stream
           sR == app.streaming
           ssI == [i \in DOMAIN sI |-> StreamBody("addConsumer", sI[i], eI, r)]
           ssO == [i \in DOMAIN sO |-> StreamBody("addProducer", sO[i], eO, r)]
           ssR == [i \in DOMAIN sR |-> parse_streaming(sR[i], r)]
           uI == S!FlattenSeq(ssI)
           uO == S!FlattenSeq(ssO)
           uR == S!FlattenSeq(ssR)
           KI == Kind(d, r, {"newFile", "addConsumer"})
           KO == Kind(d, r, {"newFile", "addProducer"})
           KR == Kind(d, r, GraphApi \ Roles)
           K  == Kind(d, r, GraphApi)
<1>1. parse_app(app, r) = (uI \o uO) \o uR
  BY DEF parse_app, ForEach, StreamBody
<1>2. sI \in Seq(Path) /\ sO \in Seq(Path) /\ sR \in Seq(Item) /\ app.name \in App
  BY DEF AppItem
<1>3. eI \in Entry /\ eO \in Entry /\ Head(eI.consumers) = app.name
      /\ Head(eO.producers) = app.name /\ eI.consumers # <<>> /\ eO.producers # <<>>
  <2>1. <<app.name>> \in Seq(App) /\ Head(<<app.name>>) = app.name /\ <<app.name>> # <<>>
    BY <1>2
  <2>2. eI \in Entry /\ eO \in Entry
    BY <2>1, DefaultEntryType, EntryFields
  <2>3. eI.consumers = <<app.name>> /\ eO.producers = <<app.name>>
    BY DEF DefaultEntry
  <2> HIDE DEF eI, eO
  <2> QED
    BY <2>1, <2>2, <2>3
<1>4. /\ Len(sR) \in Nat /\ DOMAIN sR = 1 .. Len(sR)
      /\ \A i \in DOMAIN sR : sR[i] \in Item
  BY <1>2
<1>5. \A s \in Seq(Path) : \A q \in Range(s) :
        q \in Path /\ resolve(q, r) \in Path /\ resolve(q, r) \in Named(s, r)
  BY ResolveType DEF Range, Named
<1> HIDE DEF eI, eO
<1>6. /\ \A q \in Range(sI) : TheCall("addConsumer", resolve(q, r), eI) \in Says(d, r)
      /\ \A q \in Range(sO) : TheCall("addProducer", resolve(q, r), eO) \in Says(d, r)
  BY <1>2, <1>3, <1>5
  DEF Says, TheCall, ApiCall, Api, Adders, LoaderApi, Twofold, WellFormed, BadRule
<1>7. "addConsumer" \in LoaderApi /\ "addProducer" \in LoaderApi
  BY DEF LoaderApi, Twofold
<1>8. /\ uI \in Seq(KI)
      /\ \A p \in Named(sI, r) : ~ NoneIn(uI, {ConsumerCall(app, p)})
  <2> HIDE DEF sI
  <2>1. /\ uI \in Seq(KI)
        /\ \A p \in Named(sI, r) : ~ NoneIn(uI, {TheCall("addConsumer", p, eI)})
    BY <1>2, <1>3, <1>6, <1>7, StreamCalls
  <2> QED
    BY <2>1 DEF ConsumerCall, eI
<1>9. /\ uO \in Seq(KO)
      /\ \A p \in Named(sO, r) : ~ NoneIn(uO, {ProducerCall(app, p)})
  <2> HIDE DEF sO
  <2>1. /\ uO \in Seq(KO)
        /\ \A p \in Named(sO, r) : ~ NoneIn(uO, {TheCall("addProducer", p, eO)})
    BY <1>2, <1>3, <1>6, <1>7, StreamCalls
  <2> QED
    BY <2>1 DEF ProducerCall, eO
<1>10. \A i \in DOMAIN sR : ssR[i] = parse_streaming(sR[i], r) /\ ssR[i] \in Seq(KR)
  BY <1>4, StreamingCalls
<1>11. DOMAIN ssR = DOMAIN sR /\ ssR = [i \in DOMAIN ssR |-> ssR[i]]
  OBVIOUS
<1> HIDE DEF sR, ssR, KR
<1>12. Lists(KR, ssR)
  BY <1>2, <1>10, <1>11, ListsOf
<1>13. /\ uR \in Seq(KR)
       /\ \A C : NoneIn(uR, C) <=> \A i \in DOMAIN ssR : NoneIn(ssR[i], C)
       /\ \A C, G : LastIn(uR, C, G) <=>
            \E i \in DOMAIN ssR : /\ LastIn(ssR[i], C, G)
                                  /\ \A j \in DOMAIN ssR : i < j => NoneIn(ssR[j], C)
  BY <1>12, FlattenIn
<1> HIDE DEF uI, uO, uR, KI, KO, K, sI, sO
<1>14. uI \in Seq(K) /\ uO \in Seq(K) /\ uR \in Seq(K)
  <2>1. KI \subseteq K /\ KO \subseteq K /\ KR \subseteq K
    BY DEF KI, KO, KR, K, Kind, GraphApi
  <2> QED
    BY <1>8, <1>9, <1>13, <2>1, KindOf
<1>15. uI \o uO \in Seq(K) /\ (uI \o uO) \o uR \in Seq(K)
  <2>1. uI \o uO \in Seq(K)
    BY <1>14
  <2> QED
    BY <1>14, <2>1
<1>16. ASSUME NEW C, NEW G
       PROVE  /\ NoneIn((uI \o uO) \o uR, C) <=>
                   NoneIn(uI, C) /\ NoneIn(uO, C) /\ NoneIn(uR, C)
              /\ LastIn(uR, C, G) => LastIn((uI \o uO) \o uR, C, G)
  <2>1. NoneIn(uI \o uO, C) <=> NoneIn(uI, C) /\ NoneIn(uO, C)
    BY <1>14, ConcatIn
  <2>2. PICK v : v = uI \o uO
    OBVIOUS
  <2>3. /\ NoneIn(v \o uR, C) <=> NoneIn(v, C) /\ NoneIn(uR, C)
        /\ LastIn(uR, C, G) => LastIn(v \o uR, C, G)
    BY <1>14, <1>15, <2>2, ConcatIn
  <2> QED
    BY <2>1, <2>2, <2>3
<1>17. ASSUME NEW a \in Aspects, NEW p \in Path
       PROVE  /\ NoneIn(sR, RulesAbout(a, p, r)) => NoneIn((uI \o uO) \o uR, Parts(a, p))
              /\ \A x \in RulesAbout(a, p, r) : LastIn(sR, RulesAbout(a, p, r), {x}) =>
                   LastIn((uI \o uO) \o uR, Parts(a, p),
                          Outcome(a, p, x, r))
  <2> DEFINE C == Parts(a, p)
             G(x) == Outcome(a, p, x, r)
             D == RulesAbout(a, p, r)
  <2>1. NoneIn(uI, C) /\ NoneIn(uO, C)
    <3>1. C \cap KI = {} /\ C \cap KO = {}
      BY DEF KI, KO, Kind, Parts, CallsOn, Aspects, RuleApi, Kinds
    <3> QED
      BY <1>8, <1>9, <3>1, KindOf
  <2>2. \A i \in DOMAIN sR : /\ sR[i] \notin D => NoneIn(ssR[i], C)
                             /\ sR[i] \in D => LastIn(ssR[i], C, G(sR[i]))
    BY <1>4, <1>10, StreamingCalls DEF sR
  <2> HIDE DEF C, D, G
  <2>3. NoneIn(sR, D) => NoneIn(uR, C)
    BY <1>11, <1>13, <2>2 DEF NoneIn
  <2>4. ASSUME NEW x \in D, LastIn(sR, D, {x}) PROVE LastIn(uR, C, G(x))
    <3>1. PICK i \in DOMAIN sR :
            sR[i] = x /\ \A j \in DOMAIN sR : i < j => sR[j] \notin D
      BY <2>4 DEF LastIn
    <3> QED
      BY <1>11, <1>13, <2>2, <2>4, <3>1
  <2>5. /\ NoneIn(sR, D) => NoneIn((uI \o uO) \o uR, C)
        /\ \A x \in D : LastIn(sR, D, {x}) => LastIn((uI \o uO) \o uR, C, G(x))
    BY <1>16, <2>1, <2>3, <2>4
  <2> QED
    BY <2>5, Zenon DEF C, D, G
<1> QED
  BY <1>1, <1>8, <1>9, <1>15, <1>16, <1>17, Zenon DEF K, sI, sO, sR

(* The streaming rules of a document are those of its applications.        *)
LEMMA ItemsFacts ==
  ASSUME NEW d \in Document
  PROVE  /\ Items(d) \in Seq(Item)
         /\ \A C : NoneIn(Items(d), C) <=>
              \A i \in DOMAIN d.IO_Graph : NoneIn(d.IO_Graph[i].streaming, C)
         /\ \A C, G : LastIn(Items(d), C, G) <=>
              \E i \in DOMAIN d.IO_Graph :
                /\ LastIn(d.IO_Graph[i].streaming, C, G)
                /\ \A j \in DOMAIN d.IO_Graph :
                     i < j => NoneIn(d.IO_Graph[j].streaming, C)
<1> DEFINE g == d.IO_Graph
           ss == [i \in DOMAIN g |-> g[i].streaming]
           u == S!FlattenSeq(ss)
<1>1. Items(d) = u
  BY DEF Items, ForEach
<1>2. g \in Seq(AppItem)
  BY DEF Document
<1>3. \A i \in DOMAIN g : g[i] \in AppItem /\ g[i].streaming \in Seq(Item)
  <2>1. \A i \in DOMAIN g : g[i] \in AppItem
    BY <1>2
  <2> QED
    BY <2>1 DEF AppItem
<1>4. /\ \A i \in DOMAIN g : ss[i] = g[i].streaming /\ ss[i] \in Seq(Item)
      /\ DOMAIN ss = DOMAIN g /\ ss = [i \in DOMAIN ss |-> ss[i]]
  BY <1>3
<1> HIDE DEF g, ss
<1>5. Lists(Item, ss)
  BY <1>2, <1>4, ListsOf
<1>6. /\ u \in Seq(Item)
      /\ \A C : NoneIn(u, C) <=> \A i \in DOMAIN ss : NoneIn(ss[i], C)
      /\ \A C, G : LastIn(u, C, G) <=>
           \E i \in DOMAIN ss : /\ LastIn(ss[i], C, G)
                                /\ \A j \in DOMAIN ss : i < j => NoneIn(ss[j], C)
  BY <1>5, FlattenIn
<1> HIDE DEF u
<1>7. \A C : NoneIn(u, C) <=> \A i \in DOMAIN g : NoneIn(g[i].streaming, C)
  BY <1>4, <1>6
<1>8. ASSUME NEW C, NEW G
      PROVE  LastIn(u, C, G) <=>
               \E i \in DOMAIN g : /\ LastIn(g[i].streaming, C, G)
                                   /\ \A j \in DOMAIN g :
                                        i < j => NoneIn(g[j].streaming, C)
  BY <1>4, <1>6
<1> QED
  BY <1>1, <1>6, <1>7, <1>8, Zenon DEF g

(* The calls for the applications of a document that passes the schema.    *)
LEMMA GraphCalls ==
  ASSUME NEW d \in Document, validate_json(d), NEW r \in Prefixes,
         NEW u, u = ForEach(d.IO_Graph, LAMBDA app : parse_app(app, r))
  PROVE  /\ u \in Seq(Kind(d, r, GraphApi))
         /\ \A app \in Range(d.IO_Graph) :
              /\ \A p \in Named(app.output_stream, r) :
                   ~ NoneIn(u, {ProducerCall(app, p)})
              /\ \A p \in Named(app.input_stream, r) :
                   ~ NoneIn(u, {ConsumerCall(app, p)})
         /\ \A a \in Aspects, p \in Path : \A x \in RulesAbout(a, p, r) :
              LastIn(Items(d), RulesAbout(a, p, r), {x}) =>
                LastIn(u, Parts(a, p), Outcome(a, p, x, r))
<1> DEFINE g == d.IO_Graph
           ss == [i \in DOMAIN g |-> parse_app(g[i], r)]
           K == Kind(d, r, GraphApi)
<1>1. u = S!FlattenSeq(ss)
  BY DEF ForEach
<1>2. g \in Seq(AppItem)
  BY DEF Document
<1>3. \A i \in DOMAIN g : g[i] \in AppItem /\ g[i] \in Range(g)
  BY <1>2 DEF Range
<1>4. ASSUME NEW i \in DOMAIN g, NEW j \in DOMAIN g[i].streaming
      PROVE  ValidItem(g[i].streaming[j])
  <2> DEFINE x == g[i].streaming[j]
  <2>1. ~ NoneIn(g[i].streaming, {x})
    BY DEF NoneIn
  <2>2. ~ NoneIn(Items(d), {x})
    BY <2>1, ItemsFacts
  <2>3. x \in Range(Items(d))
    BY <2>2 DEF NoneIn, Range
  <2> QED
    BY <2>3 DEF validate_json
<1>5. ASSUME NEW i \in DOMAIN g
      PROVE  /\ ss[i] \in Seq(K)
             /\ \A p \in Named(g[i].output_stream, r) :
                  ~ NoneIn(ss[i], {ProducerCall(g[i], p)})
             /\ \A p \in Named(g[i].input_stream, r) :
                  ~ NoneIn(ss[i], {ConsumerCall(g[i], p)})
             /\ \A a \in Aspects, p \in Path :
                  /\ NoneIn(g[i].streaming, RulesAbout(a, p, r)) =>
                       NoneIn(ss[i], Parts(a, p))
                  /\ \A x \in RulesAbout(a, p, r) :
                       LastIn(g[i].streaming, RulesAbout(a, p, r), {x}) =>
                         LastIn(ss[i], Parts(a, p),
                                Outcome(a, p, x, r))
  <2>1. ss[i] = parse_app(g[i], r)
    OBVIOUS
  <2>2. PICK app : app = g[i]
    OBVIOUS
  <2>3. app \in AppItem /\ app \in Range(d.IO_Graph)
        /\ \A j \in DOMAIN app.streaming : ValidItem(app.streaming[j])
    BY <1>3, <1>4, <2>2
  <2> HIDE DEF ss, g, K
  <2>4. /\ parse_app(app, r) \in Seq(Kind(d, r, GraphApi))
        /\ \A p \in Named(app.output_stream, r) :
             ~ NoneIn(parse_app(app, r), {ProducerCall(app, p)})
        /\ \A p \in Named(app.input_stream, r) :
             ~ NoneIn(parse_app(app, r), {ConsumerCall(app, p)})
    BY <2>3, AppCalls
  <2>5. ASSUME NEW a \in Aspects, NEW p \in Path
        PROVE  /\ NoneIn(app.streaming, RulesAbout(a, p, r)) =>
                    NoneIn(parse_app(app, r), Parts(a, p))
               /\ \A x \in RulesAbout(a, p, r) :
                    LastIn(app.streaming, RulesAbout(a, p, r), {x}) =>
                      LastIn(parse_app(app, r), Parts(a, p),
                             Outcome(a, p, x, r))
    BY <2>3, AppCalls
  <2> QED
    BY <2>1, <2>2, <2>4, <2>5, Zenon DEF K
<1>6. DOMAIN ss = DOMAIN g /\ ss = [i \in DOMAIN ss |-> ss[i]]
  OBVIOUS
<1> HIDE DEF g, ss, K
<1>7. Lists(K, ss)
  BY <1>2, <1>5, <1>6, ListsOf
<1>8. /\ u \in Seq(K)
      /\ \A C : NoneIn(u, C) <=> \A i \in DOMAIN ss : NoneIn(ss[i], C)
      /\ \A C, G : LastIn(u, C, G) <=>
           \E i \in DOMAIN ss : /\ LastIn(ss[i], C, G)
                                /\ \A j \in DOMAIN ss : i < j => NoneIn(ss[j], C)
  BY <1>1, <1>7, FlattenIn
<1>9. ASSUME NEW app \in Range(g)
      PROVE  /\ \A p \in Named(app.output_stream, r) :
                  ~ NoneIn(u, {ProducerCall(app, p)})
             /\ \A p \in Named(app.input_stream, r) :
                  ~ NoneIn(u, {ConsumerCall(app, p)})
  <2>1. PICK i \in DOMAIN g : app = g[i]
    BY DEF Range
  <2> QED
    BY <1>5, <1>6, <1>8, <2>1
<1>10. ASSUME NEW a \in Aspects, NEW p \in Path, NEW x \in RulesAbout(a, p, r),
              LastIn(Items(d), RulesAbout(a, p, r), {x})
       PROVE  LastIn(u, Parts(a, p), Outcome(a, p, x, r))
  <2> DEFINE C == Parts(a, p)
             G == Outcome(a, p, x, r)
             D == RulesAbout(a, p, r)
  <2>1. PICK i \in DOMAIN g : /\ LastIn(g[i].streaming, D, {x})
                              /\ \A j \in DOMAIN g :
                                   i < j => NoneIn(g[j].streaming, D)
    BY <1>10, ItemsFacts DEF g
  <2>2. LastIn(ss[i], C, G)
    BY <1>5, <2>1
  <2>3. \A j \in DOMAIN g : i < j => NoneIn(ss[j], C)
    BY <1>5, <2>1
  <2> HIDE DEF C, G
  <2>4. LastIn(u, C, G)
    BY <1>6, <1>8, <2>2, <2>3
  <2> QED
    BY <2>4 DEF C, G
<1> QED
  BY <1>8, <1>9, <1>10 DEF g, K

(* The last rule of a set of positions that are those of the rules in D.   *)
LEMMA LastRuleFacts ==
  ASSUME doc \in Document, NEW D, NEW I, I # {},
         I = {i \in DOMAIN Items(doc) : Items(doc)[i] \in D}
  PROVE  /\ Latest(I) \in D /\ Latest(I) \in Item /\ Latest(I) \in Range(Items(doc))
         /\ LastIn(Items(doc), D, {Latest(I)})
<1> DEFINE s == Items(doc)
           k == CHOOSE i \in I : \A j \in I : j <= i
<1>1. s \in Seq(Item)
  BY ItemsFacts
<1>2. /\ Len(s) \in Nat /\ DOMAIN s = 1 .. Len(s)
      /\ \A i \in DOMAIN s : s[i] \in Item
  BY <1>1
<1>3. /\ I \in SUBSET (1 .. Len(s))
      /\ \A i \in DOMAIN s : i \in I <=> s[i] \in D
  BY <1>2
<1>4. \E i \in I : \A j \in I : j <= i
  <2> HIDE DEF s
  <2> QED
    BY <1>2, <1>3, LastPosition
<1>5. k \in I /\ \A j \in I : j <= k
  BY <1>4
<1>6. Latest(I) = s[k]
  BY DEF Latest
<1> HIDE DEF k, s
<1>7. k \in DOMAIN s /\ \A j \in DOMAIN s : k < j => j \notin I
  BY <1>2, <1>3, <1>5
<1> QED
  BY <1>2, <1>3, <1>5, <1>6, <1>7 DEF LastIn, Range, s

(* The positions the properties speak of are those of the rules about the  *)
(* aspects of the path.                                                    *)
LEMMA RulePositions ==
  ASSUME doc \in Document, NEW p \in Path
  PROVE  /\ \A a \in RuleApi \cup {"setDirectory"} : a # "setFileDeps" =>
              RulesOn(p) = {i \in DOMAIN Items(doc) :
                              Items(doc)[i] \in RulesAbout(a, p, prefix)}
         /\ DepsRulesOn(p) =
              {i \in DOMAIN Items(doc) :
                 Items(doc)[i] \in RulesAbout("setFileDeps", p, prefix)}
         /\ CountRulesOn(p) =
              {i \in DOMAIN Items(doc) :
                 Items(doc)[i] \in RulesAbout("setDirectoryFileCount", p, prefix)}
         /\ RulesOn(p) \cup CountRules =
              {i \in DOMAIN Items(doc) :
                 Items(doc)[i] \in RulesAbout("setFile", p, prefix)}
<1> DEFINE s == Items(doc)
           On(x) == p \in Named(x.paths, prefix)
<1>1. \A i \in DOMAIN s : s[i] \in Item
  <2>1. s \in Seq(Item)
    BY ItemsFacts
  <2> QED
    BY <2>1
<1>2. ASSUME NEW x \in Item
      PROVE  /\ On(x) <=> \E q \in Range(x.paths) : resolve(q, prefix) = p
             /\ x.paths # <<>> <=> \E q \in Range(x.paths) : TRUE
  <2>1. PICK s1 : s1 = x.paths
    OBVIOUS
  <2>2. s1 \in Seq(Path)
    BY <2>1 DEF Item
  <2>3. s1 # <<>> <=> \E i \in DOMAIN s1 : TRUE
    <3>1. s1 # <<>> => 1 \in DOMAIN s1
      BY <2>2
    <3>2. DOMAIN <<>> = {}
      OBVIOUS
    <3> QED
      BY <3>1, <3>2
  <2> QED
    BY <2>1, <2>3 DEF Named, Range
<1>3. ASSUME NEW x \in Item
      PROVE  /\ \A a \in RuleApi \cup {"setDirectory"} : a # "setFileDeps" =>
                  (x \in RulesAbout(a, p, prefix) <=> On(x))
             /\ x \in RulesAbout("setFileDeps", p, prefix)
                  <=> On(x) /\ file_deps(x, prefix) # <<>>
             /\ x \in RulesAbout("setDirectoryFileCount", p, prefix)
                  <=> On(x) /\ Counted(x)
             /\ x \in RulesAbout("setFile", p, prefix)
                  <=> On(x) \/ (Counted(x) /\ x.paths # <<>>)
  BY <1>2 DEF RulesAbout, Bears, RuleApi
<1> QED
  BY <1>1, <1>3 DEF RulesOn, DepsRulesOn, CountRulesOn, CountRules

(* The calls that place p.                                                 *)
PlacesOf(p) == {c \in ApiCall : c.api \in Storage /\ c.path = p}

(* One of the two lists of the storage section.                            *)
LEMMA PlaceCalls ==
  ASSUME NEW d, NEW r, NEW s \in Seq(Path), NEW api \in Storage,
         NEW ss, ss = [i \in DOMAIN s |-> Do(api, s[i], DefaultEntry)],
         NEW u, u = S!FlattenSeq(ss)
  PROVE  /\ u \in Seq(Kind(d, r, {api}))
         /\ \A p \in Path :
              /\ p \notin Range(s) => NoneIn(u, PlacesOf(p))
              /\ p \in Range(s) =>
                   LastIn(u, PlacesOf(p), {TheCall(api, p, DefaultEntry)})
<1> DEFINE c(p) == TheCall(api, p, DefaultEntry)
           X == {c(p) : p \in Range(s)}
<1>1. \A i \in DOMAIN s : s[i] \in Path /\ s[i] \in Range(s)
  BY DEF Range
<1>2. Range(s) \subseteq Path
  BY <1>1 DEF Range
<1>3. \A p \in Path : c(p) \in ApiCall /\ c(p).api = api /\ c(p).path = p
  BY DefaultEntryType DEF TheCall, ApiCall, Api, Setters, Storage
<1>4. X \subseteq Kind(d, r, {api})
  BY <1>2, <1>3
  DEF Kind, Says, WellFormed, BadRule, LoaderApi, Direct, Storage
<1>5. \A i \in DOMAIN s : ss[i] = <<c(s[i])>> /\ c(s[i]) \in X
  BY <1>1 DEF Do, TheCall
<1>6. DOMAIN ss = DOMAIN s /\ ss = [i \in DOMAIN ss |-> ss[i]]
  OBVIOUS
<1>7. \A p \in Path : /\ p \notin Range(s) => PlacesOf(p) \cap X = {}
                      /\ PlacesOf(p) \cap X \subseteq {c(p)}
                      /\ c(p) \in PlacesOf(p)
  BY <1>2, <1>3 DEF PlacesOf
<1> HIDE DEF X, c
<1>8. ASSUME NEW i \in DOMAIN s PROVE ss[i] \in Seq(X) /\ ~ NoneIn(ss[i], {c(s[i])})
  <2>1. PICK x : x = c(s[i])
    OBVIOUS
  <2>2. ss[i] = <<x>> /\ x \in X
    BY <1>5, <2>1
  <2>3. <<x>> \in Seq(X) /\ (NoneIn(<<x>>, {x}) <=> x \notin {x})
    BY <2>2, SingleIn
  <2> QED
    BY <2>1, <2>2, <2>3
<1>9. Lists(X, ss)
  BY <1>6, <1>8, ListsOf
<1>10. u \in Seq(X) /\ \A C : NoneIn(u, C) <=> \A i \in DOMAIN ss : NoneIn(ss[i], C)
  BY <1>9, FlattenIn
<1>11. u \in Seq(Kind(d, r, {api}))
  BY <1>4, <1>10, KindOf
<1>12. ASSUME NEW p \in Path, p \notin Range(s) PROVE NoneIn(u, PlacesOf(p))
  BY <1>7, <1>10, <1>12, KindOf
<1>13. ASSUME NEW p \in Path, p \in Range(s) PROVE LastIn(u, PlacesOf(p), {c(p)})
  <2>1. PICK i \in DOMAIN s : p = s[i]
    BY <1>13 DEF Range
  <2>2. ~ NoneIn(ss[i], PlacesOf(p))
    BY <1>7, <1>8, <2>1 DEF NoneIn
  <2>3. ~ NoneIn(u, PlacesOf(p))
    BY <1>6, <1>10, <2>2
  <2>4. LastIn(u, PlacesOf(p), PlacesOf(p) \cap X)
    BY <1>10, <2>3, LastExists
  <2> QED
    BY <1>7, <2>4 DEF LastIn
<1> QED
  BY <1>11, <1>12, <1>13 DEF c

(* The parts of a document one after the other.                            *)
LEMMA DocumentCalls ==
  ASSUME NEW d \in Document, validate_json(d), NEW r \in Prefixes,
         NEW mem \in BOOLEAN, NEW f, f = parse_calls(d, r, mem)
  PROVE  /\ f \in Seq(Says(d, r))
         /\ \A i \in DOMAIN f : f[i].api = "setAllStoreInMemory" => mem /\ i = Len(f)
         /\ mem => Len(f) \in DOMAIN f /\ f[Len(f)].api = "setAllStoreInMemory"
         /\ \A app \in Range(d.IO_Graph) :
              /\ \A p \in Named(app.output_stream, r) :
                   ~ NoneIn(f, {ProducerCall(app, p)})
              /\ \A p \in Named(app.input_stream, r) :
                   ~ NoneIn(f, {ConsumerCall(app, p)})
         /\ \A a \in Aspects, p \in Path : \A x \in RulesAbout(a, p, r) :
              LastIn(Items(d), RulesAbout(a, p, r), {x}) =>
                LastIn(f, Parts(a, p), Outcome(a, p, x, r))
         /\ \A p \in Named(d.permanent, r) : ~ NoneIn(f, CallsOn("setPermanent", p))
         /\ \A p \in Named(d.exclude, r) : ~ NoneIn(f, CallsOn("setExclude", p))
         /\ \A p \in Path :
              /\ p \in Range(d.fs) =>
                   LastIn(f, PlacesOf(p),
                          {TheCall("setStoreFileInFileSystem", p, DefaultEntry)})
              /\ p \in Range(d.memory) \ Range(d.fs) =>
                   LastIn(f, PlacesOf(p),
                          {TheCall("setStoreFileInMemory", p, DefaultEntry)})
<1> DEFINE X == Says(d, r)
           eP == [DefaultEntry EXCEPT !.permanent = TRUE]
           eE == [DefaultEntry EXCEPT !.excluded = TRUE]
           cA == TheCall("setAllStoreInMemory", EmptyPath, DefaultEntry)
           g == ForEach(d.IO_Graph, LAMBDA app : parse_app(app, r))
           ssP == [i \in DOMAIN d.permanent |->
                     StreamBody("setPermanent", d.permanent[i], eP, r)]
           ssE == [i \in DOMAIN d.exclude |->
                     StreamBody("setExclude", d.exclude[i], eE, r)]
           ssM == [i \in DOMAIN d.memory |->
                     Do("setStoreFileInMemory", d.memory[i], DefaultEntry)]
           ssF == [i \in DOMAIN d.fs |->
                     Do("setStoreFileInFileSystem", d.fs[i], DefaultEntry)]
           uP == S!FlattenSeq(ssP)
           uE == S!FlattenSeq(ssE)
           uM == S!FlattenSeq(ssM)
           uF == S!FlattenSeq(ssF)
           a == IF mem THEN <<cA>> ELSE <<>>
<1>1. f = (((g \o uP) \o uE) \o (uM \o uF)) \o a
  BY DEF parse_calls, parse_permanent, parse_exclude, parse_storage, ForEach,
         StreamBody, TheCall, Do
<1>2. /\ d.permanent \in Seq(Path) /\ d.exclude \in Seq(Path)
      /\ d.memory \in Seq(Path) /\ d.fs \in Seq(Path)
  BY DEF Document
<1>3. /\ g \in Seq(Kind(d, r, GraphApi))
      /\ \A app \in Range(d.IO_Graph) :
           /\ \A p \in Named(app.output_stream, r) : ~ NoneIn(g, {ProducerCall(app, p)})
           /\ \A p \in Named(app.input_stream, r) : ~ NoneIn(g, {ConsumerCall(app, p)})
      /\ \A b \in Aspects, p \in Path : \A x \in RulesAbout(b, p, r) :
           LastIn(Items(d), RulesAbout(b, p, r), {x}) =>
             LastIn(g, Parts(b, p), Outcome(b, p, x, r))
  <2>1. PICK u : u = g
    OBVIOUS
  <2> HIDE DEF g
  <2> QED
    BY <2>1, GraphCalls DEF g
<1>4. /\ uP \in Seq(Kind(d, r, {"newFile", "setPermanent"}))
      /\ \A p \in Named(d.permanent, r) : ~ NoneIn(uP, {TheCall("setPermanent", p, eP)})
  <2>1. eP \in Entry /\ eP.permanent = TRUE
    BY DefaultEntryType, EntryFields DEF DefaultEntry
  <2>2. \A q \in Range(d.permanent) : resolve(q, r) \in Path
    BY <1>2, ResolveType DEF Range
  <2> HIDE DEF eP
  <2>3. /\ \A q \in Range(d.permanent) : TheCall("setPermanent", resolve(q, r), eP) \in X
        /\ "setPermanent" \in LoaderApi
    BY <2>1, <2>2
    DEF Says, TheCall, ApiCall, Api, Setters, LoaderApi, Direct, WellFormed, BadRule
  <2> QED
    BY <1>2, <2>1, <2>3, StreamCalls
<1>5. /\ uE \in Seq(Kind(d, r, {"newFile", "setExclude"}))
      /\ \A p \in Named(d.exclude, r) : ~ NoneIn(uE, {TheCall("setExclude", p, eE)})
  <2>1. eE \in Entry /\ eE.excluded = TRUE
    BY DefaultEntryType, EntryFields DEF DefaultEntry
  <2>2. \A q \in Range(d.exclude) : resolve(q, r) \in Path
    BY <1>2, ResolveType DEF Range
  <2> HIDE DEF eE
  <2>3. /\ \A q \in Range(d.exclude) : TheCall("setExclude", resolve(q, r), eE) \in X
        /\ "setExclude" \in LoaderApi
    BY <2>1, <2>2
    DEF Says, TheCall, ApiCall, Api, Setters, LoaderApi, Direct, WellFormed, BadRule
  <2> QED
    BY <1>2, <2>1, <2>3, StreamCalls
<1>6. /\ uM \in Seq(Kind(d, r, {"setStoreFileInMemory"}))
      /\ \A p \in Path :
           /\ p \notin Range(d.memory) => NoneIn(uM, PlacesOf(p))
           /\ p \in Range(d.memory) =>
                LastIn(uM, PlacesOf(p), {TheCall("setStoreFileInMemory", p, DefaultEntry)})
  BY <1>2, PlaceCalls DEF Storage
<1>7. /\ uF \in Seq(Kind(d, r, {"setStoreFileInFileSystem"}))
      /\ \A p \in Path :
           /\ p \notin Range(d.fs) => NoneIn(uF, PlacesOf(p))
           /\ p \in Range(d.fs) =>
                LastIn(uF, PlacesOf(p), {TheCall("setStoreFileInFileSystem", p, DefaultEntry)})
  BY <1>2, PlaceCalls DEF Storage
<1>8. cA \in X /\ cA.api = "setAllStoreInMemory"
  BY PathAssumption, DefaultEntryType
  DEF Says, TheCall, ApiCall, Api, Loops, LoaderApi, WellFormed, BadRule
<1> DEFINE Z == {c \in X : c.api # "setAllStoreInMemory"}
           v == (g \o uP) \o uE
           z == uM \o uF
           w == v \o z
<1>9. /\ a \in Seq(X) /\ \A C : cA \notin C => NoneIn(a, C)
      /\ mem => a = <<cA>>
      /\ ~ mem => a = <<>>
  <2> HIDE DEF cA, X
  <2>1. <<cA>> \in Seq(X) /\ \A C : NoneIn(<<cA>>, C) <=> cA \notin C
    BY <1>8, SingleIn
  <2>2. <<>> \in Seq(X) /\ \A C : NoneIn(<<>>, C)
    BY EmptyIn
  <2> QED
    BY <2>1, <2>2
<1> HIDE DEF a, g, uP, uE, uM, uF, cA
<1>10. /\ g \in Seq(Z) /\ uP \in Seq(Z) /\ uE \in Seq(Z)
       /\ uM \in Seq(Z) /\ uF \in Seq(Z)
  <2>1. /\ Kind(d, r, GraphApi) \subseteq Z
        /\ Kind(d, r, {"newFile", "setPermanent"}) \subseteq Z
        /\ Kind(d, r, {"newFile", "setExclude"}) \subseteq Z
        /\ Kind(d, r, {"setStoreFileInMemory"}) \subseteq Z
        /\ Kind(d, r, {"setStoreFileInFileSystem"}) \subseteq Z
    BY DEF Kind, GraphApi, RuleApi
  <2> HIDE DEF Z
  <2> QED
    BY <1>3, <1>4, <1>5, <1>6, <1>7, <2>1, KindOf
<1> HIDE DEF Z
<1>11. /\ g \o uP \in Seq(Z) /\ v \in Seq(Z) /\ z \in Seq(Z) /\ w \in Seq(Z)
       /\ \A C : NoneIn(v, C) <=> NoneIn(g, C) /\ NoneIn(uP, C) /\ NoneIn(uE, C)
       /\ \A C, G : /\ NoneIn(uP, C) /\ NoneIn(uE, C) /\ LastIn(g, C, G) =>
                         LastIn(v, C, G)
                    /\ NoneIn(z, C) <=> NoneIn(uM, C) /\ NoneIn(uF, C)
                    /\ LastIn(uF, C, G) => LastIn(z, C, G)
                    /\ NoneIn(uF, C) /\ LastIn(uM, C, G) => LastIn(z, C, G)
                    /\ NoneIn(w, C) <=> NoneIn(v, C) /\ NoneIn(z, C)
                    /\ NoneIn(z, C) /\ LastIn(v, C, G) => LastIn(w, C, G)
                    /\ LastIn(z, C, G) => LastIn(w, C, G)
  <2>1. PICK y : y = g \o uP
    OBVIOUS
  <2>2. /\ y \in Seq(Z)
        /\ \A C, G : /\ NoneIn(y, C) <=> NoneIn(g, C) /\ NoneIn(uP, C)
                     /\ NoneIn(uP, C) /\ LastIn(g, C, G) => LastIn(y, C, G)
    <3>1. y \in Seq(Z)
      BY <1>10, <2>1
    <3> QED
      BY <1>10, <2>1, <3>1, ConcatIn
  <2>3. /\ y \o uE \in Seq(Z)
        /\ \A C, G : /\ NoneIn(y \o uE, C) <=> NoneIn(y, C) /\ NoneIn(uE, C)
                     /\ NoneIn(uE, C) /\ LastIn(y, C, G) => LastIn(y \o uE, C, G)
    <3>1. y \o uE \in Seq(Z)
      BY <1>10, <2>2
    <3> QED
      BY <1>10, <2>2, <3>1, ConcatIn
  <2>4. /\ z \in Seq(Z)
        /\ \A C, G : /\ NoneIn(z, C) <=> NoneIn(uM, C) /\ NoneIn(uF, C)
                     /\ LastIn(uF, C, G) => LastIn(z, C, G)
                     /\ NoneIn(uF, C) /\ LastIn(uM, C, G) => LastIn(z, C, G)
    <3>1. z \in Seq(Z)
      BY <1>10
    <3> QED
      BY <1>10, <3>1, ConcatIn
  <2>5. v = y \o uE
    BY <2>1
  <2>6. v \in Seq(Z)
    BY <2>3, <2>5
  <2> HIDE DEF v, z
  <2>7. w \in Seq(Z)
    BY <2>4, <2>6
  <2>8. \A C, G : /\ NoneIn(w, C) <=> NoneIn(v, C) /\ NoneIn(z, C)
                  /\ NoneIn(z, C) /\ LastIn(v, C, G) => LastIn(w, C, G)
                  /\ LastIn(z, C, G) => LastIn(w, C, G)
    BY <2>4, <2>6, ConcatIn
  <2> HIDE DEF w
  <2> QED
    BY <2>1, <2>2, <2>3, <2>4, <2>5, <2>6, <2>7, <2>8
<1>12. f = w \o a
  BY <1>1
<1> HIDE DEF v, z, w
<1>13. w \in Seq(X) /\ f \in Seq(X)
  <2>1. Z \subseteq X
    BY DEF Z
  <2> HIDE DEF X
  <2>2. w \in Seq(X)
    BY <1>11, <2>1, KindOf
  <2> QED
    BY <1>9, <1>12, <2>2
<1>14. \A C, G : cA \notin C => /\ NoneIn(f, C) <=> NoneIn(w, C)
                                /\ LastIn(w, C, G) => LastIn(f, C, G)
  <2> HIDE DEF X
  <2> QED
    BY <1>9, <1>12, <1>13, ConcatIn
<1>15. /\ \A i \in DOMAIN f : f[i].api = "setAllStoreInMemory" => mem /\ i = Len(f)
       /\ mem => Len(f) \in DOMAIN f /\ f[Len(f)].api = "setAllStoreInMemory"
  <2>1. /\ Len(w) \in Nat /\ DOMAIN w = 1 .. Len(w)
        /\ \A i \in DOMAIN w : w[i].api # "setAllStoreInMemory"
    BY <1>11 DEF Z
  <2>2. CASE ~ mem
    <3>1. f = w
      BY <1>9, <1>12, <1>13, <2>2
    <3> QED
      BY <2>1, <2>2, <3>1
  <2>3. CASE mem
    <3>1. /\ Len(f) = Len(w) + 1 /\ DOMAIN f = 1 .. Len(w) + 1
          /\ \A i \in 1 .. Len(w) : f[i] = w[i]
          /\ f[Len(w) + 1] = cA
      <4> HIDE DEF X
      <4>1. f = w \o <<cA>> /\ w \in Seq(X)
        BY <1>9, <1>12, <1>13, <2>3
      <4> QED
        BY <4>1
    <3>2. \A i \in 1 .. Len(w) + 1 : i \in 1 .. Len(w) \/ i = Len(w) + 1
      BY <2>1
    <3>3. Len(w) + 1 \in 1 .. Len(w) + 1
      BY <2>1
    <3> QED
      BY <1>8, <2>1, <2>3, <3>1, <3>2, <3>3
  <2> QED
    BY <2>2, <2>3
<1>16. ASSUME NEW app \in Range(d.IO_Graph)
       PROVE  /\ \A p \in Named(app.output_stream, r) :
                   ~ NoneIn(f, {ProducerCall(app, p)})
              /\ \A p \in Named(app.input_stream, r) :
                   ~ NoneIn(f, {ConsumerCall(app, p)})
  <2>1. \A p : cA \notin {ProducerCall(app, p)} /\ cA \notin {ConsumerCall(app, p)}
    BY <1>8 DEF ProducerCall, ConsumerCall, TheCall
  <2> QED
    BY <1>3, <1>11, <1>14, <2>1
<1>17. ASSUME NEW b \in Aspects, NEW p \in Path, NEW x \in RulesAbout(b, p, r),
              LastIn(Items(d), RulesAbout(b, p, r), {x})
       PROVE  LastIn(f, Parts(b, p), Outcome(b, p, x, r))
  <2>0. \A c \in Parts(b, p) : c.api \in Aspects
    BY DEF Parts, CallsOn, Aspects, Kinds
  <2>1. cA \notin Parts(b, p)
    BY <1>8, <2>0 DEF Aspects, RuleApi, Kinds
  <2>2. /\ Parts(b, p) \cap Kind(d, r, {"newFile", "setPermanent"}) = {}
        /\ Parts(b, p) \cap Kind(d, r, {"newFile", "setExclude"}) = {}
        /\ Parts(b, p) \cap Kind(d, r, {"setStoreFileInMemory"}) = {}
        /\ Parts(b, p) \cap Kind(d, r, {"setStoreFileInFileSystem"}) = {}
    BY <2>0 DEF Aspects, RuleApi, Kinds, Kind
  <2>3. /\ NoneIn(uP, Parts(b, p)) /\ NoneIn(uE, Parts(b, p))
        /\ NoneIn(uM, Parts(b, p)) /\ NoneIn(uF, Parts(b, p))
    BY <1>4, <1>5, <1>6, <1>7, <2>2, KindOf
  <2>4. LastIn(g, Parts(b, p), Outcome(b, p, x, r))
    BY <1>3, <1>17
  <2> QED
    BY <1>11, <1>14, <2>1, <2>3, <2>4
<1>18. /\ \A p \in Named(d.permanent, r) : ~ NoneIn(f, CallsOn("setPermanent", p))
       /\ \A p \in Named(d.exclude, r) : ~ NoneIn(f, CallsOn("setExclude", p))
  <2>0. ASSUME NEW C, cA \notin C, NoneIn(f, C) PROVE NoneIn(uP, C) /\ NoneIn(uE, C)
    <3>1. NoneIn(w, C)
      BY <1>14, <2>0
    <3>2. NoneIn(v, C)
      BY <1>11, <3>1
    <3> QED
      BY <1>11, <3>2
  <2>1. \A b, p : b \in {"setPermanent", "setExclude"} => cA \notin CallsOn(b, p)
    BY <1>8 DEF CallsOn
  <2>2. ASSUME NEW p \in Named(d.permanent, r)
        PROVE  ~ NoneIn(f, CallsOn("setPermanent", p))
    <3>1. PICK c : c = TheCall("setPermanent", p, eP)
      OBVIOUS
    <3>2. c.api = "setPermanent" /\ c.path = p
      BY <3>1 DEF TheCall
    <3>3. ~ NoneIn(uP, {c})
      BY <1>4, <3>1
    <3>4. PICK i \in DOMAIN uP : uP[i] = c
      BY <3>3 DEF NoneIn
    <3>5. c \in ApiCall
      <4>1. c \in Kind(d, r, {"newFile", "setPermanent"})
        BY <1>4, <3>4
      <4> QED
        BY <4>1 DEF Kind, Says
    <3>6. ~ NoneIn(uP, CallsOn("setPermanent", p))
      BY <3>2, <3>4, <3>5 DEF NoneIn, CallsOn
    <3> QED
      BY <2>0, <2>1, <3>6
  <2>3. ASSUME NEW p \in Named(d.exclude, r)
        PROVE  ~ NoneIn(f, CallsOn("setExclude", p))
    <3>1. PICK c : c = TheCall("setExclude", p, eE)
      OBVIOUS
    <3>2. c.api = "setExclude" /\ c.path = p
      BY <3>1 DEF TheCall
    <3>3. ~ NoneIn(uE, {c})
      BY <1>5, <3>1
    <3>4. PICK i \in DOMAIN uE : uE[i] = c
      BY <3>3 DEF NoneIn
    <3>5. c \in ApiCall
      <4>1. c \in Kind(d, r, {"newFile", "setExclude"})
        BY <1>5, <3>4
      <4> QED
        BY <4>1 DEF Kind, Says
    <3>6. ~ NoneIn(uE, CallsOn("setExclude", p))
      BY <3>2, <3>4, <3>5 DEF NoneIn, CallsOn
    <3> QED
      BY <2>0, <2>1, <3>6
  <2> QED
    BY <2>2, <2>3
<1>19. ASSUME NEW p \in Path
       PROVE  /\ p \in Range(d.fs) =>
                   LastIn(f, PlacesOf(p),
                          {TheCall("setStoreFileInFileSystem", p, DefaultEntry)})
              /\ p \in Range(d.memory) \ Range(d.fs) =>
                   LastIn(f, PlacesOf(p),
                          {TheCall("setStoreFileInMemory", p, DefaultEntry)})
  <2>1. cA \notin PlacesOf(p)
    BY <1>8 DEF PlacesOf, Storage
  <2> QED
    BY <1>6, <1>7, <1>11, <1>14, <2>1
<1> QED
  BY <1>13, <1>15, <1>16, <1>17, <1>18, <1>19

-----------------------------------------------------------------------------
(* How far the loading has come.  f is the list of the document's calls, k *)
(* of which are done.                                                      *)

(* Among the first k calls, c is there, and nothing after it overrules it. *)
LastOf(f, k, c) ==
  \E i \in 1 .. k : f[i] = c /\ \A j \in 1 .. k : i < j => f[j] \notin Rivals(c)

(* What was asked for last is so; calls about the placement may be         *)
(* overruled by a setAllStoreInMemory, and the mark of a file by a path in *)
(* it or by a setDirectoryFileCount on its way.                            *)
Excused(c) ==
  \/ c.api \in Storage /\ store_all_in_memory
  \/ /\ c.api = "setFile"
     /\ HasChild(c.path) \/ frame[Me].api = "setDirectoryFileCount"
Heeded(f, k) ==
  \A c \in ApiCall :
    c.path # EmptyPath /\ c.api \in Settings /\ ~ Refused(c) /\ LastOf(f, k, c) =>
      c.path \in Registered /\ (Heeds(entries[c.path], c) \/ Excused(c))

(* Every application of a path in T was given to a path in T.              *)
Originates(f, k) ==
  \A T \in Closed : \A p \in T \cap Registered :
    /\ \A x \in Range(entries[p].producers) : \E i \in 1 .. k :
         /\ f[i].api = "addProducer" /\ f[i].path \in T \ {EmptyPath}
         /\ x = Strip[Head(f[i].arg.producers)]
    /\ \A x \in Range(entries[p].consumers) : \E i \in 1 .. k :
         /\ f[i].api = "addConsumer" /\ f[i].path \in T \ {EmptyPath}
         /\ x = Strip[Head(f[i].arg.consumers)]

(* A setAllStoreInMemory that is done has moved everything.                *)
InMemory(p) == entries[p].store_in_memory
AllMoved(f, k) ==
  (\E i \in 1 .. k : f[i].api = "setAllStoreInMemory") =>
    \A p \in Registered \ {EmptyPath} : InMemory(p)

(* One on its way has set the flag and still has ahead of it what is left. *)
MovingAll ==
  frame[Me].api = "setAllStoreInMemory" =>
    /\ frame[Me].at # "flag" => store_all_in_memory
    /\ frame[Me].at = "loop" =>
         /\ Range(Todo(Me)) \subseteq Registered
         /\ \A p \in Registered \ {EmptyPath} : InMemory(p) \/ p \in Range(Todo(Me))

(* The calls after the first n are the ones still to be made.              *)
Pending(f, n) == /\ n \in Nat /\ script \in Seq(ApiCall) /\ n + Len(script) = Len(f)
                 /\ \A i \in 1 .. Len(script) : script[i] = f[n + i]

Progress(f, k) ==
  /\ k \in Nat
  /\ frame[Me].at = "idle" => Pending(f, k)
  /\ frame[Me].at # "idle" =>
       /\ Pending(f, k + 1) /\ CallOf(frame[Me]) = f[k + 1]
       /\ frame[Me].api \in LoaderApi /\ frame[Me].at \in Sections(frame[Me].api)
  /\ Heeded(f, k) /\ Originates(f, k) /\ AllMoved(f, k)

AllCalls == parse_calls(doc, prefix, memOnly)

LoadInv ==
  phase = "loading" =>
    /\ prefix \in Prefixes /\ memOnly \in BOOLEAN /\ ~ ParseThrows(doc)
    /\ workflow_name = doc.name
    /\ store_all_in_memory => memOnly
    /\ MovingAll
    /\ \E f, k : f = AllCalls /\ Progress(f, k)

(* There is one thread.                                                    *)
LEMMA OneThread == Me \in Threads /\ Threads = {Me}
BY PersistenceAssumption DEF Me

(* A step that keeps the settings of what is registered, and where it is.  *)
KeepsSettings ==
  \A p \in Registered : entries'[p] \in Entry /\ SameSettings(entries[p], entries'[p])
KeepsPlace == \A p \in Registered : SamePlace(entries[p], entries'[p])
KeepsKind ==
  \A p \in Registered : SameKind(entries[p], entries'[p]) \/ HasChild(p)'

(* What it registers has the applications of a pattern, or none.           *)
Inherits ==
  \A p \in Path \ Registered : entries'[p] # NoEntry =>
    \/ entries'[p].producers = <<>> /\ entries'[p].consumers = <<>>
    \/ \E s \in Registered : /\ <<s, p>> \in Matches
                             /\ entries'[p].producers = entries[s].producers
                             /\ entries'[p].consumers = entries[s].consumers

(* Every step but the last of a call is one.                               *)
LEMMA CarriesKeeps ==
  ASSUME TypeOK, NEW t \in Threads, Carries(t)
  PROVE  /\ KeepsSettings /\ Inherits
         /\ KeepsPlace \/ frame[t].api = "setAllStoreInMemory"
         /\ KeepsKind \/ frame[t].api = "setDirectoryFileCount"
<1>1. \A p \in Registered : p \in Path /\ entries[p] \in Entry
  BY DEF Registered, TypeOK
<1>2. CASE entries' = entries
  BY <1>1, <1>2, MarksKeep
  DEF KeepsSettings, KeepsPlace, KeepsKind, Inherits, Registered
<1>3. CASE Registers
  <2>1. PICK q \in Path : entries' \in _newFile(q)
    BY <1>3 DEF Registers
  <2>2. PICK m \in _newFile(q) : m = entries'
    BY <2>1
  <2>3. /\ \A p \in Registered :
             /\ m[p] \in Entry
             /\ SameSettings(entries[p], m[p]) /\ SamePlace(entries[p], m[p])
             /\ SameKind(entries[p], m[p]) \/ (m[q] # NoEntry /\ Parent[q] = p)
        /\ \A p \in Path \ Registered : m[p] # NoEntry =>
             /\ p = q /\ p # EmptyPath
             /\ \/ m[p].producers = <<>> /\ m[p].consumers = <<>>
                \/ \E s \in Registered :
                     /\ <<s, p>> \in Matches
                     /\ m[p].producers = entries[s].producers
                     /\ m[p].consumers = entries[s].consumers
    BY NewFileSettings
  <2>4. KeepsKind
    BY <2>2, <2>3 DEF KeepsKind, HasChild, Registered
  <2> QED
    BY <2>2, <2>3, <2>4 DEF KeepsSettings, KeepsPlace, Inherits
<1>4. CASE Walks(t)
  <2>a. PICK h \in Registered :
          \E e : /\ entries' = [entries EXCEPT ![h] = e]
                 /\ \/ /\ e = [entries[h] EXCEPT !.is_file = FALSE]
                       /\ frame[t].api = "setDirectoryFileCount"
                    \/ /\ e = [entries[h] EXCEPT !.store_in_memory = TRUE]
                       /\ frame[t].api = "setAllStoreInMemory"
    BY <1>4 DEF Walks
  <2>1. PICK e :
          /\ entries' = [entries EXCEPT ![h] = e]
          /\ \/ /\ e = [entries[h] EXCEPT !.is_file = FALSE]
                /\ frame[t].api = "setDirectoryFileCount"
             \/ /\ e = [entries[h] EXCEPT !.store_in_memory = TRUE]
                /\ frame[t].api = "setAllStoreInMemory"
    BY <2>a
  <2>2. e \in Entry /\ SameSettings(entries[h], e)
    BY <1>1, <2>1, MarksKeep, EntryUpdates
  <2>3. SamePlace(entries[h], e) \/ frame[t].api = "setAllStoreInMemory"
    BY <1>1, <2>1, MarksKeep
  <2>4. \A p \in Path : entries'[p] = IF p = h THEN e ELSE entries[p]
    BY <1>1, <2>1 DEF TypeOK
  <2>5. KeepsSettings
    BY <1>1, <2>2, <2>4, MarksKeep DEF KeepsSettings
  <2>6. KeepsPlace \/ frame[t].api = "setAllStoreInMemory"
    BY <1>1, <2>3, <2>4, MarksKeep DEF KeepsPlace
  <2>8. ASSUME frame[t].api # "setDirectoryFileCount" PROVE KeepsKind
    <3>1. e = [entries[h] EXCEPT !.store_in_memory = TRUE]
      BY <2>1, <2>8
    <3>2. SameKind(entries[h], e) /\ \A p \in Registered : SameKind(entries[p], entries[p])
      BY <1>1, <3>1, MarksKeep
    <3> QED
      BY <2>4, <3>2 DEF KeepsKind, Registered
  <2>7. Inherits
    BY <2>4 DEF Inherits, Registered
  <2> QED
    BY <2>5, <2>6, <2>7, <2>8
<1> QED
  BY <1>2, <1>3, <1>4 DEF Carries

(* Such a step takes nothing back.                                         *)
LEMMA KeptHeeded ==
  ASSUME TypeOK, NEW f, NEW k, Heeded(f, k), KeepsSettings,
         KeepsPlace \/ store_all_in_memory', store_all_in_memory => store_all_in_memory',
         KeepsKind \/ frame'[Me].api = "setDirectoryFileCount",
         \/ frame'[Me].api = "setDirectoryFileCount"
         \/ frame[Me].api # "setDirectoryFileCount"
  PROVE  Heeded(f, k)'
<1> SUFFICES ASSUME NEW c \in ApiCall, c.path # EmptyPath, c.api \in Settings,
                    ~ Refused(c), LastOf(f, k, c)
             PROVE  /\ c.path \in Registered'
                    /\ Heeds(entries'[c.path], c) \/ Excused(c)'
  BY DEF Heeded, LastOf, Rivals, Refused, EmptyGuard, BadRule, NothingToDo
<1> DEFINE p == c.path
<1>1. p \in Registered /\ (Heeds(entries[p], c) \/ Excused(c))
  BY DEF Heeded
<1>2. p \in Path /\ entries'[p] \in Entry /\ SameSettings(entries[p], entries'[p])
  BY <1>1 DEF KeepsSettings, ApiCall
<1>3. Registered \subseteq Registered'
  BY ConstantsAssumption DEF Registered, KeepsSettings
<1>4. c.api \in Storage => SamePlace(entries[p], entries'[p]) \/ store_all_in_memory'
  BY <1>1 DEF KeepsPlace
<1>5. c.api = "setFile" =>
        \/ SameKind(entries[p], entries'[p]) \/ HasChild(p)'
        \/ frame'[Me].api = "setDirectoryFileCount"
  BY <1>1 DEF KeepsKind
<1>6. Excused(c) => Excused(c)'
  <2>1. HasChild(p) => HasChild(p)'
    BY <1>3 DEF HasChild
  <2> QED
    BY <2>1 DEF Excused
<1>7. CASE Heeds(entries[p], c) /\ ~ Excused(c)'
  BY <1>1, <1>2, <1>3, <1>4, <1>5, <1>7, SameHeeds DEF Excused
<1> QED
  BY <1>1, <1>3, <1>6, <1>7

(* Nor does it bring in applications from outside.                         *)
LEMMA KeptOriginates ==
  ASSUME TypeOK, NEW f, NEW k, Originates(f, k), KeepsSettings, Inherits
  PROVE  Originates(f, k)'
<1> SUFFICES ASSUME NEW T \in Closed, NEW p \in T \cap Registered'
             PROVE  /\ \A x \in Range(entries'[p].producers) : \E i \in 1 .. k :
                         /\ f[i].api = "addProducer" /\ f[i].path \in T \ {EmptyPath}
                         /\ x = Strip[Head(f[i].arg.producers)]
                    /\ \A x \in Range(entries'[p].consumers) : \E i \in 1 .. k :
                         /\ f[i].api = "addConsumer" /\ f[i].path \in T \ {EmptyPath}
                         /\ x = Strip[Head(f[i].arg.consumers)]
  BY DEF Originates, Closed, Patterns
<1>1. p \in Path /\ entries'[p] # NoEntry
  BY DEF Registered
<1>2. CASE p \in Registered
  <2>1. /\ entries'[p].producers = entries[p].producers
        /\ entries'[p].consumers = entries[p].consumers
    BY <1>2 DEF KeepsSettings, SameSettings
  <2> QED
    BY <1>2, <2>1 DEF Originates
<1>3. CASE p \notin Registered
  <2>1. CASE entries'[p].producers = <<>> /\ entries'[p].consumers = <<>>
    <3>1. Range(<<>>) = {}
      BY DEF Range
    <3> QED
      BY <2>1, <3>1
  <2>2. CASE \E s \in Registered : /\ <<s, p>> \in Matches
                                   /\ entries'[p].producers = entries[s].producers
                                   /\ entries'[p].consumers = entries[s].consumers
    <3>1. PICK s \in Registered : /\ <<s, p>> \in Matches
                                  /\ entries'[p].producers = entries[s].producers
                                  /\ entries'[p].consumers = entries[s].consumers
      BY <2>2
    <3>2. s \in T
      BY <3>1 DEF Closed, Patterns, Registered
    <3> QED
      BY <3>1, <3>2 DEF Originates
  <2> QED
    BY <1>1, <1>3, <2>1, <2>2 DEF Inherits
<1> QED
  BY <1>2, <1>3

(* The first member of a list and the others.                              *)
LEMMA HeadTailRange ==
  ASSUME NEW Y, NEW s \in Seq(Y), s # <<>>
  PROVE  /\ Head(s) \in Range(s) /\ Range(Tail(s)) \subseteq Range(s)
         /\ Range(s) \subseteq Range(Tail(s)) \cup {Head(s)}
<1>1. /\ Len(s) \in Nat /\ DOMAIN s = 1 .. Len(s) /\ 1 \in DOMAIN s /\ Head(s) = s[1]
      /\ Len(Tail(s)) = Len(s) - 1 /\ DOMAIN Tail(s) = 1 .. Len(s) - 1
      /\ \A i \in 1 .. Len(s) - 1 : Tail(s)[i] = s[i + 1]
  OBVIOUS
<1>2. \A i \in 1 .. Len(s) - 1 : i + 1 \in 1 .. Len(s)
  BY <1>1
<1>4. Head(s) \in Range(s)
  BY <1>1 DEF Range
<1>5. Range(Tail(s)) \subseteq Range(s)
  BY <1>1, <1>2 DEF Range
<1> QED
  BY <1>4, <1>5, RangeTail

(* A step of setAllStoreInMemory: the flag comes before the list of paths, *)
(* and that before the walk.                                               *)
LEMMA MovingStep ==
  ASSUME TypeOK, MovingAll, Step(Me), frame[Me].api = "setAllStoreInMemory",
         frame[Me].at \in Sections(frame[Me].api)
  PROVE  /\ MovingAll'
         /\ entries' = entries \/ store_all_in_memory'
         /\ store_all_in_memory => store_all_in_memory'
         /\ frame'[Me].at = "idle" => \A p \in Registered' \ {EmptyPath} : InMemory(p)'
<1> DEFINE f == frame[Me]
           h == Head(Todo(Me))
<1>0. Me \in Threads
  BY OneThread
<1>1. f.at # "idle" /\ f.at \in {"flag", "snapshot", "loop"}
  BY DEF Sections, Twofold
<1>2. f \in Frame /\ Todo(Me) \in Seq(Path)
  BY <1>0, <1>1, FrameFacts
<1>3. setAllStoreInMemory(Me) \/ Snapshot(Me)
  <2>1. f.api \in LoaderApi
    BY DEF LoaderApi, Loops
  <2> QED
    BY <1>0, <1>1, <2>1, LoaderActions
    DEF setFireRule, setPermanent, setExclude, setDirectory, setFile,
        setCommitedCloseNumber, setStoreFileInMemory, setStoreFileInFileSystem,
        Setter, newFile, setCommitRule, addProducer, addConsumer, Update, In,
        Create, setDirectoryFileCount, setFileDeps, Looping
<1>4. CASE Snapshot(Me)
  <2>1. PICK s \in Listings(Registered) :
          frame' = [frame EXCEPT ![Me].todo = s, ![Me].at = "loop"]
    BY <1>4 DEF Snapshot
  <2>2. frame'[Me] = [f EXCEPT !.todo = s, !.at = "loop"]
    BY <1>0, <2>1 DEF TypeOK
  <2> HIDE DEF f
  <2>3. frame'[Me].at = "loop" /\ frame'[Me].todo = s
    BY <1>2, <2>2 DEF Frame
  <2>4. Range(s) = Registered
    BY DEF Listings
  <2>5. entries' = entries /\ store_all_in_memory' = store_all_in_memory
    BY <1>4 DEF Snapshot
  <2>6. store_all_in_memory
    BY <1>4 DEF MovingAll, Snapshot, f
  <2> QED
    BY <2>3, <2>4, <2>5, <2>6 DEF MovingAll, Registered, Todo, InMemory
<1>5. CASE f.at = "flag" /\ setAllStoreInMemory(Me)
  <2>1. /\ Goto(Me, "snapshot") /\ store_all_in_memory' = TRUE /\ entries' = entries
    BY <1>5 DEF setAllStoreInMemory, Looping
  <2>2. frame'[Me].at = "snapshot"
    BY <1>0, <1>1, <2>1, LoaderFrame
  <2> QED
    BY <2>1, <2>2 DEF MovingAll
<1>6. CASE /\ Looping(Me, "setAllStoreInMemory") /\ Todo(Me) # <<>>
           /\ Each(Me, [entries[h] EXCEPT !.store_in_memory = TRUE])
           /\ store_all_in_memory' = store_all_in_memory
  <2>1. /\ store_all_in_memory' /\ Range(Todo(Me)) \subseteq Registered
        /\ \A p \in Registered \ {EmptyPath} : InMemory(p) \/ p \in Range(Todo(Me))
    BY <1>6 DEF MovingAll, Looping
  <2>2. /\ h \in Range(Todo(Me)) /\ Range(Tail(Todo(Me))) \subseteq Range(Todo(Me))
        /\ Range(Todo(Me)) \subseteq Range(Tail(Todo(Me))) \cup {h}
    BY <1>2, <1>6, HeadTailRange
  <2>3. h \in Registered /\ h \in Path /\ entries[h] \in Entry
    BY <2>1, <2>2 DEF Registered, TypeOK
  <2>4. Pop(Me)
    BY <1>6, <2>3 DEF Each
  <2>5. frame'[Me].at = "loop" /\ frame'[Me].todo = Tail(Todo(Me))
    <3>1. frame'[Me] = [f EXCEPT !.todo = Tail(Todo(Me))]
      BY <1>0, <2>4 DEF Pop, TypeOK, Todo
    <3>2. f.at = "loop"
      BY <1>6 DEF Looping
    <3> HIDE DEF f
    <3> QED
      BY <1>2, <3>1, <3>2 DEF Frame
  <2>6. \A p \in Path : \/ entries'[p] = entries[p] /\ (p = h => h = EmptyPath)
                        \/ p = h /\ entries'[p] = [entries[h] EXCEPT !.store_in_memory = TRUE]
    BY <1>6, <2>3 DEF Each, TypeOK
  <2>7. [entries[h] EXCEPT !.store_in_memory = TRUE] \in Entry
        /\ [entries[h] EXCEPT !.store_in_memory = TRUE].store_in_memory
    BY <2>3 DEF Entry
  <2>8. Registered' = Registered
    BY <2>3, <2>6, <2>7, ConstantsAssumption DEF Registered
  <2>9. \A p \in Registered \ {EmptyPath} :
          InMemory(p)' \/ p \in Range(Tail(Todo(Me)))
    BY <2>1, <2>2, <2>6, <2>7 DEF Registered, InMemory
  <2> QED
    BY <2>1, <2>2, <2>5, <2>8, <2>9 DEF MovingAll, Todo
<1>7. CASE /\ Looping(Me, "setAllStoreInMemory") /\ Todo(Me) = <<>>
           /\ Return(Me, Void) /\ UNCHANGED <<entries, store_all_in_memory>>
  <2>1. frame'[Me] = NoFrame
    BY <1>0, <1>7 DEF Return, TypeOK
  <2>2. Range(Todo(Me)) = {}
    BY <1>7 DEF Range
  <2> QED
    BY <1>7, <2>1, <2>2 DEF MovingAll, Looping, NoFrame, InMemory, Registered
<1> QED
  BY <1>3, <1>4, <1>5, <1>6, <1>7 DEF setAllStoreInMemory, Looping

(* The first k + 1 calls are the first k and one more.                     *)
LEMMA OneMoreCall ==
  ASSUME NEW f, NEW k \in Nat
  PROVE  /\ \A i : i \in 1 .. k + 1 <=> i \in 1 .. k \/ i = k + 1
         /\ \A c : LastOf(f, k + 1, c) =>
              \/ f[k + 1] = c
              \/ LastOf(f, k, c) /\ f[k + 1] \notin Rivals(c)
<1>1. \A i : i \in 1 .. k + 1 <=> i \in 1 .. k \/ i = k + 1
  OBVIOUS
<1>2. \A i \in 1 .. k : i < k + 1
  OBVIOUS
<1> QED
  BY <1>1, <1>2 DEF LastOf

(* Appending brings in no more than what is appended.                      *)
LEMMA AppendBrings ==
  ASSUME NEW Y, NEW s \in Seq(Y), NEW x
  PROVE  Range(AppendNew(s, x)) \subseteq Range(s) \cup {x}
<1>1. /\ Len(s) \in Nat /\ DOMAIN s = 1 .. Len(s)
      /\ DOMAIN Append(s, x) = 1 .. Len(s) + 1
      /\ \A i \in 1 .. Len(s) : Append(s, x)[i] = s[i]
      /\ Append(s, x)[Len(s) + 1] = x
  OBVIOUS
<1>2. \A i \in 1 .. Len(s) + 1 : i \in 1 .. Len(s) \/ i = Len(s) + 1
  BY <1>1
<1> QED
  BY <1>1, <1>2 DEF AppendNew, Range

(* What a call leaves is an entry; who becomes an application of the path. *)
LEMMA AppliedRoles ==
  ASSUME NEW e \in Entry, NEW c \in ApiCall, WellFormed(c),
         c.api \in LoaderApi \ {"newFile", "setAllStoreInMemory"}
  PROVE  /\ Applied(c, e) \in Entry
         /\ \A x \in Range(Applied(c, e).producers) :
              \/ x \in Range(e.producers)
              \/ c.api = "addProducer" /\ x = Strip[Head(c.arg.producers)]
         /\ \A x \in Range(Applied(c, e).consumers) :
              \/ x \in Range(e.consumers)
              \/ c.api = "addConsumer" /\ x = Strip[Head(c.arg.consumers)]
<1> DEFINE a == c.arg
           y == Strip[Head(a.producers)]
           z == Strip[Head(a.consumers)]
<1>1. /\ a \in Entry /\ e.producers \in Seq(App) /\ e.consumers \in Seq(App)
      /\ a.producers \in Seq(App) /\ a.consumers \in Seq(App)
  BY DEF ApiCall, Entry
<1>2. CASE c.api = "addProducer"
  <2>1. y \in App
    BY <1>1, <1>2, ConstantsAssumption DEF WellFormed
  <2> DEFINE l == AppendNew(e.producers, y)
  <2>2. l \in Seq(App)
    BY <1>1, <2>1, AppendNewType
  <2>3. Range(l) \subseteq Range(e.producers) \cup {y}
    BY <1>1, AppendBrings
  <2>4. Applied(c, e) = [e EXCEPT !.producers = l]
    BY <1>2 DEF Applied
  <2> HIDE DEF l
  <2>5. Applied(c, e) \in Entry
    BY <2>2, <2>4, EntryFields
  <2>6. Applied(c, e).producers = l /\ Applied(c, e).consumers = e.consumers
    BY <2>4 DEF Entry
  <2> QED
    BY <1>2, <2>3, <2>5, <2>6
<1>3. CASE c.api = "addConsumer"
  <2>1. z \in App
    BY <1>1, <1>3, ConstantsAssumption DEF WellFormed
  <2> DEFINE l == AppendNew(e.consumers, z)
  <2>2. l \in Seq(App)
    BY <1>1, <2>1, AppendNewType
  <2>3. Range(l) \subseteq Range(e.consumers) \cup {z}
    BY <1>1, AppendBrings
  <2>4. Applied(c, e) = [e EXCEPT !.consumers = l]
    BY <1>3 DEF Applied
  <2> HIDE DEF l
  <2>5. Applied(c, e) \in Entry
    BY <2>2, <2>4, EntryFields
  <2>6. Applied(c, e).consumers = l /\ Applied(c, e).producers = e.producers
    BY <2>4 DEF Entry
  <2> QED
    BY <1>3, <2>3, <2>5, <2>6
<1>4. CASE c.api \notin Roles
  <2>1. /\ Applied(c, e) \in Entry
        /\ Applied(c, e).producers = e.producers
        /\ Applied(c, e).consumers = e.consumers
    <3>1. CASE c.api \in {"setFireRule", "setPermanent", "setExclude"}
      BY <1>1, <3>1 DEF Applied, Entry
    <3>2. CASE c.api \in {"setDirectory", "setFile"} \cup Storage
      BY <1>1, <3>2 DEF Applied, Entry, Storage
    <3>3. CASE c.api \in {"setCommitedCloseNumber", "setCommitRule"}
      BY <1>1, <3>3 DEF Applied, Entry
    <3>4. CASE c.api \in {"setFileDeps", "setDirectoryFileCount"}
      BY <1>1, <3>4 DEF Applied, Entry
    <3> QED
      BY <1>4, <3>1, <3>2, <3>3, <3>4
      DEF LoaderApi, Direct, Twofold, Loops, Roles, Storage
  <2> QED
    BY <2>1
<1> QED
  BY <1>2, <1>3, <1>4 DEF Roles

(* The last step of a call: one more call is done.                         *)
LEMMA FinishHeeded ==
  ASSUME TypeOK, NEW t \in Threads, NEW f, NEW k \in Nat, Heeded(f, k), Finishes(t),
         frame[t].at # "idle", frame[t].api \in LoaderApi, CallOf(frame[t]) = f[k + 1],
         store_all_in_memory => store_all_in_memory'
  PROVE  Heeded(f, k + 1)'
<1> DEFINE d == CallOf(frame[t])
           q == frame[t].path
<1>0. t = Me
  BY OneThread
<1>1. /\ d \in ApiCall /\ d.api = frame[t].api /\ d.path = q /\ q \in Path
      /\ WellFormed(d) /\ ~ Refused(d) /\ ~ NothingToDo(d)
  BY LoaderFrame DEF CallOf, Refused
<1> SUFFICES ASSUME NEW c \in ApiCall, c.path # EmptyPath, c.api \in Settings,
                    ~ Refused(c), LastOf(f, k + 1, c)
             PROVE  /\ c.path \in Registered'
                    /\ Heeds(entries'[c.path], c) \/ Excused(c)'
  BY DEF Heeded, LastOf, Rivals, Refused, EmptyGuard, BadRule, NothingToDo
<1> DEFINE p == c.path
<1>2. \/ d = c
      \/ /\ p \in Registered /\ d \notin Rivals(c)
         /\ Heeds(entries[p], c) \/ Excused(c)
  BY OneMoreCall DEF Heeded
<1>3. p \in Path /\ (p \in Registered => entries[p] \in Entry)
  BY DEF ApiCall, TypeOK, Registered
<1>a. Registered \subseteq Registered' /\ d \notin Rivals(c) /\ Excused(c) => Excused(c)'
  <2>1. Registered \subseteq Registered' /\ HasChild(p) => HasChild(p)'
    BY DEF HasChild
  <2>2. /\ frame[Me].api = "setDirectoryFileCount" /\ c.api = "setFile"
        => d \in Rivals(c)
    BY <1>0, <1>1 DEF Rivals, Roles
  <2> QED
    BY <2>1, <2>2 DEF Excused
<1>4. CASE d.api = "newFile" /\ entries' \in _newFile(q)
  <2>1. /\ d # c /\ p \in Registered /\ d \notin Rivals(c)
        /\ Heeds(entries[p], c) \/ Excused(c)
    BY <1>2, <1>4 DEF Settings, Storage, Kinds, Roles
  <2>2. PICK m \in _newFile(q) : m = entries'
    BY <1>4
  <2>3. \A o \in Registered :
          /\ m[o] \in Entry
          /\ SameSettings(entries[o], m[o]) /\ SamePlace(entries[o], m[o])
          /\ SameKind(entries[o], m[o]) \/ (m[q] # NoEntry /\ Parent[q] = o)
    BY <1>1, NewFileSettings
  <2>4. Registered \subseteq Registered'
    BY <2>2, <2>3, ConstantsAssumption DEF Registered
  <2>5. SameKind(entries[p], m[p]) \/ HasChild(p)'
    BY <1>1, <2>1, <2>2, <2>3 DEF HasChild, Registered
  <2>6. CASE Heeds(entries[p], c) /\ ~ Excused(c)'
    BY <2>1, <2>2, <2>3, <2>4, <2>5, <2>6, SameHeeds DEF Excused
  <2> QED
    BY <1>a, <2>1, <2>4, <2>6
<1>5. CASE d.api = "setAllStoreInMemory" /\ entries' = entries
  <2>1. /\ d # c /\ p \in Registered /\ d \notin Rivals(c)
        /\ Heeds(entries[p], c) \/ Excused(c)
    BY <1>2, <1>5 DEF Settings, Storage, Kinds, Roles
  <2>2. Registered' = Registered
    BY <1>5 DEF Registered
  <2> QED
    BY <1>5, <1>a, <2>1, <2>2
<1>6. CASE /\ d.api \notin {"newFile", "setAllStoreInMemory"} /\ q \in Registered
           /\ entries' = [entries EXCEPT ![q] = Applied(d, entries[q])]
  <2>1. entries[q] \in Entry
    BY <1>6 DEF TypeOK, Registered
  <2>2. Applied(d, entries[q]) \in Entry
    BY <1>1, <1>6, <2>1, AppliedRoles
  <2>3. /\ entries'[q] = Applied(d, entries[q])
        /\ p # q => entries'[p] = entries[p]
    BY <1>1, <1>3, <1>6 DEF TypeOK
  <2>4. Registered \subseteq Registered'
    <3>1. \A o \in Path \ {q} : entries'[o] = entries[o]
      BY <1>6 DEF TypeOK
    <3> QED
      BY <2>2, <2>3, <3>1, ConstantsAssumption DEF Registered
  <2>5. CASE p = q
    <3>1. CASE d = c
      BY <1>1, <1>6, <2>1, <2>3, <2>4, <2>5, <3>1, AppliedHeeds
    <3>2. CASE d # c /\ Excused(c)
      BY <1>2, <1>a, <2>4, <3>2
    <3>3. CASE d # c /\ ~ Excused(c)
      BY <1>1, <1>2, <1>6, <2>1, <2>3, <2>4, <2>5, <3>3, AppliedSpares
    <3> QED
      BY <3>1, <3>2, <3>3
  <2>6. CASE p # q
    BY <1>1, <1>2, <1>a, <1>3, <2>3, <2>4, <2>6
  <2> QED
    BY <2>5, <2>6
<1> QED
  BY <1>1, <1>4, <1>5, <1>6 DEF Finishes

(* It brings in the application it names.                                  *)
LEMMA FinishOriginates ==
  ASSUME TypeOK, NEW t \in Threads, NEW f, NEW k \in Nat, Originates(f, k), Finishes(t),
         frame[t].at # "idle", frame[t].api \in LoaderApi, CallOf(frame[t]) = f[k + 1]
  PROVE  Originates(f, k + 1)'
<1> DEFINE d == CallOf(frame[t])
           q == frame[t].path
<1>1. /\ d \in ApiCall /\ d.api = frame[t].api /\ d.path = q /\ q \in Path
      /\ WellFormed(d) /\ ~ Refused(d)
  BY LoaderFrame DEF CallOf
<1>2. \A i : i \in 1 .. k + 1 <=> i \in 1 .. k \/ i = k + 1
  BY OneMoreCall
<1>3. Originates(f, k + 1)
  <2> SUFFICES ASSUME NEW T \in Closed, NEW p \in T \cap Registered
               PROVE  /\ \A x \in Range(entries[p].producers) : \E i \in 1 .. k + 1 :
                           /\ f[i].api = "addProducer" /\ f[i].path \in T \ {EmptyPath}
                           /\ x = Strip[Head(f[i].arg.producers)]
                      /\ \A x \in Range(entries[p].consumers) : \E i \in 1 .. k + 1 :
                           /\ f[i].api = "addConsumer" /\ f[i].path \in T \ {EmptyPath}
                           /\ x = Strip[Head(f[i].arg.consumers)]
    BY DEF Originates
  <2> QED
    BY <1>2 DEF Originates
<1>4. ASSUME entries' \in _newFile(q) PROVE Originates(f, k + 1)'
  <2>1. PICK m \in _newFile(q) : m = entries'
    BY <1>4
  <2>2. KeepsSettings /\ Inherits
    BY <1>1, <2>1, NewFileSettings DEF KeepsSettings, Inherits
  <2> QED
    BY <1>3, <2>2, KeptOriginates
<1>5. ASSUME entries' = entries PROVE Originates(f, k + 1)'
  <2>1. \A p \in Registered : entries[p] \in Entry
    BY DEF Registered, TypeOK
  <2>2. KeepsSettings /\ Inherits
    BY <1>5, <2>1, MarksKeep DEF KeepsSettings, Inherits, Registered
  <2> QED
    BY <1>3, <2>2, KeptOriginates
<1>6. ASSUME d.api \notin {"newFile", "setAllStoreInMemory"}, q \in Registered,
             entries' = [entries EXCEPT ![q] = Applied(d, entries[q])]
      PROVE  Originates(f, k + 1)'
  <2> SUFFICES ASSUME NEW T \in Closed, NEW p \in T \cap Registered'
               PROVE  /\ \A x \in Range(entries'[p].producers) : \E i \in 1 .. k + 1 :
                           /\ f[i].api = "addProducer" /\ f[i].path \in T \ {EmptyPath}
                           /\ x = Strip[Head(f[i].arg.producers)]
                      /\ \A x \in Range(entries'[p].consumers) : \E i \in 1 .. k + 1 :
                           /\ f[i].api = "addConsumer" /\ f[i].path \in T \ {EmptyPath}
                           /\ x = Strip[Head(f[i].arg.consumers)]
    BY DEF Originates, Closed, Patterns
  <2>1. entries[q] \in Entry
    BY <1>6 DEF TypeOK, Registered
  <2>2. /\ entries'[q] = Applied(d, entries[q])
        /\ p \in Path /\ (p # q => entries'[p] = entries[p] /\ p \in Registered)
    BY <1>1, <1>6 DEF TypeOK, Registered
  <2>3. CASE p # q
    BY <1>3, <2>2, <2>3 DEF Originates
  <2>4. CASE p = q
    <3>1. d.api \in Roles => d.path # EmptyPath
      BY <1>1 DEF Refused, EmptyGuard, Roles, NoPathNeeded, Lookups
    <3>2. /\ \A x \in Range(entries'[p].producers) :
               \/ x \in Range(entries[p].producers)
               \/ d.api = "addProducer" /\ x = Strip[Head(d.arg.producers)]
          /\ \A x \in Range(entries'[p].consumers) :
               \/ x \in Range(entries[p].consumers)
               \/ d.api = "addConsumer" /\ x = Strip[Head(d.arg.consumers)]
      <4>1. d.api \in LoaderApi \ {"newFile", "setAllStoreInMemory"}
        BY <1>1, <1>6
      <4> HIDE DEF d
      <4>2. /\ \A x \in Range(Applied(d, entries[q]).producers) :
                 \/ x \in Range(entries[q].producers)
                 \/ d.api = "addProducer" /\ x = Strip[Head(d.arg.producers)]
            /\ \A x \in Range(Applied(d, entries[q]).consumers) :
                 \/ x \in Range(entries[q].consumers)
                 \/ d.api = "addConsumer" /\ x = Strip[Head(d.arg.consumers)]
        BY <1>1, <2>1, <4>1, AppliedRoles
      <4> QED
        BY <2>2, <2>4, <4>2
    <3>3. p \in T \cap Registered /\ d.path = p
      BY <1>1, <1>6, <2>4
    <3>4. k + 1 \in 1 .. k + 1 /\ f[k + 1] = d
      BY <1>2
    <3>5. /\ \A x \in Range(entries[p].producers) : \E i \in 1 .. k + 1 :
               /\ f[i].api = "addProducer" /\ f[i].path \in T \ {EmptyPath}
               /\ x = Strip[Head(f[i].arg.producers)]
          /\ \A x \in Range(entries[p].consumers) : \E i \in 1 .. k + 1 :
               /\ f[i].api = "addConsumer" /\ f[i].path \in T \ {EmptyPath}
               /\ x = Strip[Head(f[i].arg.consumers)]
      BY <1>3, <3>3 DEF Originates
    <3> HIDE DEF d
    <3>6. d.api \in {"addProducer", "addConsumer"} => f[k + 1].path \in T \ {EmptyPath}
      BY <3>1, <3>3, <3>4 DEF Roles
    <3> QED
      BY <3>2, <3>4, <3>5, <3>6
  <2> QED
    BY <2>3, <2>4
<1> QED
  BY <1>1, <1>4, <1>5, <1>6 DEF Finishes

(* Where calls k and k + 1 are in a list of n, m of which come later.      *)
LEMMA Positions ==
  ASSUME NEW k \in Nat, NEW m \in Nat, NEW n \in Nat, (k + 1) + m = n
  PROVE  /\ k + 1 \in 1 .. n
         /\ \A i \in 1 .. k : i \in 1 .. n /\ i # n
         /\ \A i \in 1 .. k + 1 : i \in 1 .. n /\ (i = n => i = k + 1)
OBVIOUS

(* A step of the engine takes the loading further.                         *)
LEMMA LoadEngineStep ==
  ASSUME TypeOK, LoadInv, doc \in Document, phase = "loading", EngineStep
  PROVE  LoadInv'
<1> DEFINE g == frame[Me]
<1>0. /\ Me \in Threads /\ Step(Me)
      /\ UNCHANGED <<workflow_name, phase, doc, script, prefix, memOnly, saved>>
  BY OneThread DEF EngineStep, parser
<1>1. g.at # "idle"
  BY <1>0, StepsWork
<1>2. /\ prefix \in Prefixes /\ memOnly \in BOOLEAN /\ ~ ParseThrows(doc)
      /\ workflow_name = doc.name /\ (store_all_in_memory => memOnly) /\ MovingAll
  BY DEF LoadInv
<1>3. PICK f, k : f = AllCalls /\ Progress(f, k)
  BY DEF LoadInv
<1>4. /\ f \in Seq(Says(doc, prefix))
      /\ \A i \in DOMAIN f : f[i].api = "setAllStoreInMemory" => memOnly /\ i = Len(f)
  BY <1>2, <1>3, DocumentCalls DEF AllCalls, ParseThrows
<1>5. /\ k \in Nat /\ Pending(f, k + 1) /\ CallOf(g) = f[k + 1]
      /\ g.api \in LoaderApi /\ g.at \in Sections(g.api)
      /\ Heeded(f, k) /\ Originates(f, k) /\ AllMoved(f, k)
  BY <1>1, <1>3 DEF Progress
<1>6. /\ Len(f) \in Nat /\ DOMAIN f = 1 .. Len(f) /\ k + 1 \in DOMAIN f
      /\ \A i \in 1 .. k : i \in DOMAIN f /\ i # Len(f)
      /\ \A i \in 1 .. k + 1 : i \in DOMAIN f /\ (i = Len(f) => i = k + 1)
  <2>1. Len(f) \in Nat /\ DOMAIN f = 1 .. Len(f)
    BY <1>4
  <2>2. Len(script) \in Nat /\ (k + 1) + Len(script) = Len(f)
    BY <1>5 DEF Pending
  <2>3. k \in Nat
    BY <1>5
  <2>4. /\ k + 1 \in 1 .. Len(f)
        /\ \A i \in 1 .. k : i \in 1 .. Len(f) /\ i # Len(f)
        /\ \A i \in 1 .. k + 1 : i \in 1 .. Len(f) /\ (i = Len(f) => i = k + 1)
    <3>1. PICK m, n : m = Len(script) /\ n = Len(f)
      OBVIOUS
    <3>2. m \in Nat /\ n \in Nat /\ (k + 1) + m = n
      BY <2>1, <2>2, <3>1
    <3>3. /\ k + 1 \in 1 .. n
          /\ \A i \in 1 .. k : i \in 1 .. n /\ i # n
          /\ \A i \in 1 .. k + 1 : i \in 1 .. n /\ (i = n => i = k + 1)
      BY <2>3, <3>2, Positions
    <3> QED
      BY <3>1, <3>3, Zenon
  <2> QED
    BY <2>1, <2>4, Zenon
<1>7. f[k + 1].api = g.api
  <2>1. CallOf(g).api = g.api
    BY DEF CallOf
  <2> QED
    BY <1>5, <2>1
<1>8. /\ Carries(Me) \/ Finishes(Me)
      /\ store_all_in_memory' = store_all_in_memory \/ g.api = "setAllStoreInMemory"
  BY <1>0, <1>5, LoaderStep
<1>9. g.api = "setAllStoreInMemory" =>
        /\ MovingAll' /\ (entries' = entries \/ store_all_in_memory')
        /\ store_all_in_memory => store_all_in_memory'
        /\ frame'[Me].at = "idle" => \A p \in Registered' \ {EmptyPath} : InMemory(p)'
  BY <1>0, <1>2, <1>5, MovingStep
<1>10. store_all_in_memory' => memOnly
  BY <1>2, <1>4, <1>6, <1>7, <1>8
<1>11. store_all_in_memory => store_all_in_memory'
  BY <1>8, <1>9
<1>12. Pending(f, k + 1)'
  BY <1>0, <1>5 DEF Pending
<1>13. f = AllCalls'
  BY <1>0, <1>3 DEF AllCalls
<1>14. ASSUME MovingAll', NEW n, Progress(f, n)' PROVE LoadInv'
  BY <1>0, <1>2, <1>10, <1>13, <1>14 DEF LoadInv
<1>15. CASE Carries(Me)
  <2>1. /\ frame'[Me].at \in Sections(g.api) /\ frame'[Me].api = g.api
        /\ CallOf(frame'[Me]) = f[k + 1]
    <3>1. CallOf(frame'[Me]).api = frame'[Me].api /\ CallOf(g).api = g.api
      BY DEF CallOf
    <3> QED
      BY <1>5, <1>15, <3>1 DEF Carries
  <2>2. frame'[Me].at # "idle"
    BY <2>1 DEF Sections
  <2>3. /\ KeepsSettings /\ Inherits
        /\ KeepsPlace \/ g.api = "setAllStoreInMemory"
        /\ KeepsKind \/ g.api = "setDirectoryFileCount"
    BY <1>0, <1>15, CarriesKeeps
  <2>4. KeepsPlace \/ store_all_in_memory'
    BY <1>9, <2>3 DEF KeepsPlace, SamePlace
  <2>5. Heeded(f, k)' /\ Originates(f, k)'
    BY <1>5, <1>11, <2>1, <2>3, <2>4, KeptHeeded, KeptOriginates
  <2>6. AllMoved(f, k)'
    BY <1>4, <1>6 DEF AllMoved
  <2>7. MovingAll'
    BY <1>9, <2>1 DEF MovingAll
  <2>8. Progress(f, k)'
    BY <1>5, <1>12, <2>1, <2>2, <2>5, <2>6 DEF Progress
  <2> QED
    BY <1>14, <2>7, <2>8
<1>16. CASE Finishes(Me)
  <2>1. frame'[Me] = NoFrame
    BY <1>0, <1>16 DEF Finishes, TypeOK
  <2>2. frame'[Me].at = "idle" /\ frame'[Me].api = "none"
    BY <2>1 DEF NoFrame
  <2>3. Heeded(f, k + 1)' /\ Originates(f, k + 1)'
    BY <1>0, <1>1, <1>5, <1>11, <1>16, FinishHeeded, FinishOriginates
  <2>4. AllMoved(f, k + 1)'
    BY <1>4, <1>6, <1>7, <1>9, <2>2 DEF AllMoved
  <2>5. MovingAll'
    BY <2>2 DEF MovingAll
  <2>6. Progress(f, k + 1)'
    BY <1>5, <1>12, <2>2, <2>3, <2>4 DEF Progress
  <2> QED
    BY <1>14, <2>5, <2>6
<1> QED
  BY <1>8, <1>15, <1>16

(* The parser's next call.                                                 *)
LEMMA LoadCallStep ==
  ASSUME TypeOK, LoadInv, doc \in Document, ParserCall
  PROVE  LoadInv' /\ TypeOK'
<1> DEFINE c == Head(script)
<1>0. /\ Me \in Threads /\ Threads = {Me} /\ phase = "loading" /\ script # <<>>
      /\ Invoke(Me, c) \/ Refuse(Me, c)
      /\ script' = Tail(script)
      /\ UNCHANGED <<workflow_name, phase, doc, prefix, memOnly, saved>>
  BY OneThread DEF ParserCall
<1>1. /\ frame[Me] = NoFrame /\ entries' = entries
      /\ store_all_in_memory' = store_all_in_memory
  BY <1>0 DEF Invoke, Refuse
<1>2. /\ prefix \in Prefixes /\ memOnly \in BOOLEAN /\ ~ ParseThrows(doc)
      /\ workflow_name = doc.name /\ (store_all_in_memory => memOnly) /\ MovingAll
  BY <1>0 DEF LoadInv
<1>3. PICK f, k : f = AllCalls /\ Progress(f, k)
  BY <1>0 DEF LoadInv
<1>4. /\ f \in Seq(Says(doc, prefix))
      /\ \A i \in DOMAIN f : f[i].api = "setAllStoreInMemory" => memOnly /\ i = Len(f)
  BY <1>2, <1>3, DocumentCalls DEF AllCalls, ParseThrows
<1>5. /\ k \in Nat /\ Pending(f, k) /\ Heeded(f, k) /\ Originates(f, k)
  BY <1>1, <1>3 DEF Progress, NoFrame
<1>6. /\ Len(f) \in Nat /\ DOMAIN f = 1 .. Len(f) /\ k + 1 \in DOMAIN f
      /\ \A i \in 1 .. k : i \in DOMAIN f /\ i # Len(f)
      /\ Len(script) \in Nat \ {0} /\ k + Len(script) = Len(f) /\ k \in Nat
  <2>1. Len(f) \in Nat /\ DOMAIN f = 1 .. Len(f)
    BY <1>4
  <2>2. script \in Seq(ApiCall) /\ k + Len(script) = Len(f)
    BY <1>5 DEF Pending
  <2>3. Len(script) \in Nat \ {0}
    BY <1>0, <2>2, EmptySeq
  <2>4. k \in Nat
    BY <1>5
  <2>5. /\ Len(script) - 1 \in Nat /\ (k + 1) + (Len(script) - 1) = Len(f)
        /\ Len(f) \in Nat
    BY <2>1, <2>2, <2>3, <2>4
  <2>6. k + 1 \in 1 .. Len(f) /\ \A i \in 1 .. k : i \in 1 .. Len(f) /\ i # Len(f)
    <3>1. PICK m, n : m = Len(script) - 1 /\ n = Len(f)
      OBVIOUS
    <3>2. m \in Nat /\ n \in Nat /\ (k + 1) + m = n
      BY <2>5, <3>1
    <3> QED
      BY <2>4, <3>1, <3>2, Positions, Zenon
  <2> QED
    BY <2>1, <2>2, <2>3, <2>4, <2>6, Zenon
<1>a. script \in Seq(ApiCall) /\ script # <<>>
  BY <1>0, <1>5 DEF Pending
<1>b. c = script[1] /\ 1 \in 1 .. Len(script)
  BY <1>a
<1> HIDE DEF c
<1>7. c = f[k + 1] /\ c \in Says(doc, prefix) /\ c \in ApiCall
  <2>1. c = script[1] /\ 1 \in 1 .. Len(script)
    BY <1>b
  <2>2. c = f[k + 1]
    BY <1>5, <2>1 DEF Pending
  <2>3. f[k + 1] \in Says(doc, prefix)
    <3>1. f \in Seq(Says(doc, prefix)) /\ k + 1 \in DOMAIN f
      BY <1>4, <1>6
    <3> QED
      BY <3>1
  <2> QED
    BY <2>2, <2>3 DEF Says
<1>8. c.api \in LoaderApi /\ WellFormed(c)
  BY <1>7 DEF Says
<1>9. Pending(f, k + 1)'
  <2>1. /\ Tail(script) \in Seq(ApiCall) /\ Len(Tail(script)) = Len(script) - 1
        /\ \A i \in 1 .. Len(script) - 1 : Tail(script)[i] = script[i + 1]
    BY <1>a
  <2>2. ASSUME NEW i \in 1 .. Len(script) - 1
        PROVE  Tail(script)[i] = f[(k + 1) + i]
    <3>1. i + 1 \in 1 .. Len(script) /\ k + (i + 1) = (k + 1) + i
      <4>1. k \in Nat /\ Len(script) \in Nat
        BY <1>6
      <4> QED
        BY <4>1
    <3> QED
      BY <1>5, <2>1, <3>1 DEF Pending
  <2>3. k + 1 \in Nat /\ (k + 1) + Len(Tail(script)) = Len(f)
    <3>1. k \in Nat /\ Len(script) \in Nat /\ Len(f) \in Nat /\ k + Len(script) = Len(f)
      BY <1>6
    <3> QED
      BY <2>1, <3>1
  <2> QED
    BY <1>0, <2>1, <2>2, <2>3 DEF Pending
<1>10. f = AllCalls'
  BY <1>0, <1>3 DEF AllCalls
<1>11. TypeOK'
  BY <1>0, <1>7, <1>8, MadeCallType
<1>12. ASSUME MovingAll', NEW n, Progress(f, n)' PROVE LoadInv'
  BY <1>0, <1>1, <1>2, <1>10, <1>12 DEF LoadInv
<1>13. /\ KeepsSettings /\ KeepsPlace /\ KeepsKind /\ Inherits
       /\ frame[Me].api # "setDirectoryFileCount"
  <2>1. \A p \in Registered : entries[p] \in Entry
    BY DEF Registered, TypeOK
  <2> QED
    <3>1. UNCHANGED entries /\ frame[Me] = NoFrame
      BY <1>1
    <3>2. \A p \in Registered : /\ SameSettings(entries[p], entries[p])
                                /\ SamePlace(entries[p], entries[p])
                                /\ SameKind(entries[p], entries[p])
      BY <2>1, MarksKeep
    <3> QED
      BY <2>1, <3>1, <3>2
      DEF KeepsSettings, KeepsPlace, KeepsKind, Inherits, Registered, NoFrame
<1>14. CASE Invoke(Me, c)
  <2>1. frame'[Me] = [api |-> c.api, path |-> c.path, arg |-> c.arg,
                      at |-> EntryPoint(c.api), draft |-> DefaultEntry,
                      todo |-> IF c.api = "setFileDeps" THEN c.arg.file_dependencies
                               ELSE <<>>]
    BY <1>0, <1>14 DEF Invoke, TypeOK
  <2>2. /\ frame'[Me].api = c.api /\ frame'[Me].at = EntryPoint(c.api)
        /\ CallOf(frame'[Me]) = c
    BY <1>7, <2>1 DEF CallOf, ApiCall
  <2>3. EntryPoint(c.api) \in Sections(c.api) /\ EntryPoint(c.api) # "idle"
    BY <1>8 DEF EntryPoint, Sections, LoaderApi, Direct, Twofold, Loops
  <2>4. Heeded(f, k)' /\ Originates(f, k)'
    BY <1>1, <1>5, <1>13, KeptHeeded, KeptOriginates
  <2>5. AllMoved(f, k)'
    BY <1>4, <1>6 DEF AllMoved
  <2>6. Progress(f, k)'
    BY <1>5, <1>7, <1>8, <1>9, <2>2, <2>3, <2>4, <2>5 DEF Progress
  <2>7. MovingAll'
    BY <2>2 DEF MovingAll, EntryPoint
  <2> QED
    BY <1>11, <1>12, <2>6, <2>7
<1>15. CASE Refuse(Me, c)
  <2>1. frame'[Me] = NoFrame /\ Refused(c)
    BY <1>1, <1>15 DEF Refuse
  <2>2. frame'[Me].at = "idle" /\ frame'[Me].api = "none"
    BY <2>1 DEF NoFrame
  <2>3. /\ \A i : i \in 1 .. k + 1 <=> i \in 1 .. k \/ i = k + 1
        /\ \A d : LastOf(f, k + 1, d) =>
             \/ f[k + 1] = d
             \/ LastOf(f, k, d) /\ f[k + 1] \notin Rivals(d)
    BY <1>5, OneMoreCall
  <2>4. Heeded(f, k + 1)
    BY <1>5, <1>7, <2>1, <2>3 DEF Heeded
  <2>5. Originates(f, k + 1)
    <3> SUFFICES ASSUME NEW T \in Closed, NEW p \in T \cap Registered
                 PROVE  /\ \A x \in Range(entries[p].producers) : \E i \in 1 .. k + 1 :
                             /\ f[i].api = "addProducer" /\ f[i].path \in T \ {EmptyPath}
                             /\ x = Strip[Head(f[i].arg.producers)]
                        /\ \A x \in Range(entries[p].consumers) : \E i \in 1 .. k + 1 :
                             /\ f[i].api = "addConsumer" /\ f[i].path \in T \ {EmptyPath}
                             /\ x = Strip[Head(f[i].arg.consumers)]
      BY DEF Originates
    <3>1. /\ \A x \in Range(entries[p].producers) : \E i \in 1 .. k :
               /\ f[i].api = "addProducer" /\ f[i].path \in T \ {EmptyPath}
               /\ x = Strip[Head(f[i].arg.producers)]
          /\ \A x \in Range(entries[p].consumers) : \E i \in 1 .. k :
               /\ f[i].api = "addConsumer" /\ f[i].path \in T \ {EmptyPath}
               /\ x = Strip[Head(f[i].arg.consumers)]
      BY <1>5 DEF Originates
    <3>2. \A i \in 1 .. k : i \in 1 .. k + 1
      BY <2>3
    <3> QED
      BY <3>1, <3>2
  <2>6. Heeded(f, k + 1)' /\ Originates(f, k + 1)'
    BY <1>1, <1>13, <2>4, <2>5, KeptHeeded, KeptOriginates
  <2>7. c.api # "setAllStoreInMemory"
    BY <2>1 DEF Refused, EmptyGuard, BadRule, NothingToDo, NoPathNeeded
  <2>8. AllMoved(f, k + 1)'
    BY <1>4, <1>6, <1>7, <2>3, <2>7 DEF AllMoved
  <2>9. Progress(f, k + 1)'
    BY <1>5, <1>9, <2>2, <2>6, <2>8 DEF Progress
  <2>10. MovingAll'
    BY <2>2 DEF MovingAll
  <2> QED
    BY <1>11, <1>12, <2>9, <2>10
<1> QED
  BY <1>0, <1>14, <1>15

-----------------------------------------------------------------------------
(* The loaded engine.                                                      *)

(* What the whole list of calls asks for last is so.                       *)
LEMMA Obeyed ==
  ASSUME NEW X, NEW f \in Seq(X), Heeded(f, Len(f)), NEW c \in ApiCall,
         c.path # EmptyPath, c.api \in Settings, ~ Refused(c),
         LastIn(f, Rivals(c), {c}) \/ (c.api \in Roles /\ ~ NoneIn(f, {c}))
  PROVE  c.path \in Registered /\ (Heeds(entries[c.path], c) \/ Excused(c))
<1>1. Len(f) \in Nat /\ DOMAIN f = 1 .. Len(f)
  OBVIOUS
<1>2. c.api \in Roles => Rivals(c) = {}
  BY DEF Rivals
<1>3. LastOf(f, Len(f), c)
  BY <1>1, <1>2 DEF LastOf, LastIn, NoneIn
<1> QED
  BY <1>3 DEF Heeded

(* The list of calls at the end of the loading.                            *)
LEMMA AllCallsMade ==
  ASSUME TypeOK, LoadInv, Loaded
  PROVE  /\ prefix \in Prefixes /\ memOnly \in BOOLEAN /\ validate_json(doc)
         /\ workflow_name = doc.name /\ (store_all_in_memory => memOnly)
         /\ Len(AllCalls) \in Nat
         /\ Heeded(AllCalls, Len(AllCalls)) /\ Originates(AllCalls, Len(AllCalls))
         /\ AllMoved(AllCalls, Len(AllCalls))
         /\ \A c : Excused(c) => \/ c.api \in Storage /\ memOnly
                                 \/ c.api = "setFile" /\ HasChild(c.path)
<1>1. phase = "loading" /\ script = <<>> /\ frame[Me].at = "idle"
  BY DEF Loaded, NoFrame
<1>2. PICK f, k : f = AllCalls /\ Progress(f, k)
  BY <1>1 DEF LoadInv
<1>3. /\ k \in Nat /\ k + Len(script) = Len(f)
      /\ Heeded(f, k) /\ Originates(f, k) /\ AllMoved(f, k)
  BY <1>1, <1>2 DEF Progress, Pending
<1>4. Len(script) = 0
  BY <1>1
<1>5. k = Len(f)
  BY <1>3, <1>4
<1>6. \A c : Excused(c) => \/ c.api \in Storage /\ store_all_in_memory
                           \/ c.api = "setFile" /\ HasChild(c.path)
  BY DEF Excused, Loaded, NoFrame
<1> QED
  BY <1>1, <1>2, <1>3, <1>5, <1>6 DEF LoadInv, ParseThrows

(* The applications of a path.                                             *)
LEMMA LoadedRoles ==
  ASSUME TypeOK, LoadInv, doc \in Document, Loaded, NEW p \in Path
  PROVE  /\ WritersOf(Patterns(p)) \subseteq ProducersOf(p)
         /\ ReadersOf(Patterns(p)) \subseteq ConsumersOf(p)
         /\ \A T \in Closed : p \in T => /\ ProducersOf(p) \subseteq WritersOf(T)
                                         /\ ConsumersOf(p) \subseteq ReadersOf(T)
<1>1. PICK f : f = AllCalls
  OBVIOUS
<1>2. /\ prefix \in Prefixes /\ memOnly \in BOOLEAN /\ validate_json(doc)
      /\ Heeded(f, Len(f)) /\ Originates(f, Len(f)) /\ Len(f) \in Nat
  BY <1>1, AllCallsMade
<1>3. /\ f \in Seq(Says(doc, prefix))
      /\ \A app \in Range(doc.IO_Graph) :
           /\ \A q \in Named(app.output_stream, prefix) :
                ~ NoneIn(f, {ProducerCall(app, q)})
           /\ \A q \in Named(app.input_stream, prefix) :
                ~ NoneIn(f, {ConsumerCall(app, q)})
  BY <1>1, <1>2, DocumentCalls DEF AllCalls
<1>4. \A i \in 1 .. Len(f) : f[i] \in Says(doc, prefix)
  BY <1>3
<1>5. \A app \in Range(doc.IO_Graph) : app \in AppItem /\ app.name \in App
  <2>1. doc.IO_Graph \in Seq(AppItem)
    BY DEF Document
  <2>2. \A i \in DOMAIN doc.IO_Graph : doc.IO_Graph[i] \in AppItem
    BY <2>1
  <2> QED
    BY <2>2 DEF Range, AppItem
<1>6. ASSUME NEW app \in Range(doc.IO_Graph), NEW q \in Path \ {EmptyPath}
      PROVE  /\ q \in Named(app.output_stream, prefix) =>
                  /\ q \in Registered
                  /\ Strip[app.name] \in Range(entries[q].producers)
             /\ q \in Named(app.input_stream, prefix) =>
                  /\ q \in Registered
                  /\ Strip[app.name] \in Range(entries[q].consumers)
  <2> DEFINE c == ProducerCall(app, q)
             d == ConsumerCall(app, q)
             eO == [DefaultEntry EXCEPT !.producers = <<app.name>>]
             eI == [DefaultEntry EXCEPT !.consumers = <<app.name>>]
  <2>1. app.name \in App
    BY <1>5
  <2>2. eO \in Entry /\ eI \in Entry
    <3>1. <<app.name>> \in Seq(App)
      BY <2>1
    <3> QED
      BY <3>1, DefaultEntryType, EntryFields
  <2>3. eO.producers = <<app.name>> /\ eI.consumers = <<app.name>>
    BY DEF DefaultEntry
  <2>4. Head(<<app.name>>) = app.name
    OBVIOUS
  <2> HIDE DEF eO, eI
  <2>5. /\ c \in ApiCall /\ c.api = "addProducer" /\ c.path = q
        /\ Head(c.arg.producers) = app.name
        /\ d \in ApiCall /\ d.api = "addConsumer" /\ d.path = q
        /\ Head(d.arg.consumers) = app.name
    BY <2>2, <2>3, <2>4 DEF eO, eI, ProducerCall, ConsumerCall, TheCall, ApiCall,
       Api, Adders
  <2> HIDE DEF c, d
  <2>6. ~ Refused(c) /\ ~ Refused(d)
    BY <2>5 DEF Refused, EmptyGuard, BadRule, NothingToDo
  <2>7. /\ c.api \in Settings /\ c.api \in Roles /\ c.api \notin Storage
        /\ d.api \in Settings /\ d.api \in Roles /\ d.api \notin Storage
        /\ c.path # EmptyPath /\ d.path # EmptyPath
    BY <2>5 DEF Settings, Roles, Storage
  <2>8. ASSUME q \in Named(app.output_stream, prefix)
        PROVE  q \in Registered /\ Heeds(entries[q], c)
    <3>1. ~ NoneIn(f, {c})
      BY <1>3, <2>8 DEF c
    <3> QED
      BY <1>2, <1>3, <2>5, <2>6, <2>7, <3>1, Obeyed DEF Excused
  <2>9. ASSUME q \in Named(app.input_stream, prefix)
        PROVE  q \in Registered /\ Heeds(entries[q], d)
    <3>1. ~ NoneIn(f, {d})
      BY <1>3, <2>9 DEF d
    <3> QED
      BY <1>2, <1>3, <2>5, <2>6, <2>7, <3>1, Obeyed DEF Excused
  <2> QED
    BY <2>5, <2>8, <2>9 DEF Heeds
<1>7. Patterns(p) \subseteq Path /\ \A q \in Patterns(p) : <<q, p>> \in Matches
  BY DEF Patterns
<1>8. WritersOf(Patterns(p)) \subseteq ProducersOf(p)
  <2> SUFFICES ASSUME NEW x \in WritersOf(Patterns(p)) PROVE x \in ProducersOf(p)
    OBVIOUS
  <2>1. PICK app \in Range(doc.IO_Graph) :
          /\ x = Strip[app.name]
          /\ Named(app.output_stream, prefix) \cap (Patterns(p) \ {EmptyPath}) # {}
    BY DEF WritersOf
  <2>2. PICK q \in Patterns(p) \ {EmptyPath} : q \in Named(app.output_stream, prefix)
    BY <2>1
  <2>3. q \in Registered /\ x \in Range(entries[q].producers) /\ <<q, p>> \in Matches
    BY <1>6, <1>7, <2>1, <2>2
  <2> QED
    BY <2>3 DEF ProducersOf
<1>9. ReadersOf(Patterns(p)) \subseteq ConsumersOf(p)
  <2> SUFFICES ASSUME NEW x \in ReadersOf(Patterns(p)) PROVE x \in ConsumersOf(p)
    OBVIOUS
  <2>1. PICK app \in Range(doc.IO_Graph) :
          /\ x = Strip[app.name]
          /\ Named(app.input_stream, prefix) \cap (Patterns(p) \ {EmptyPath}) # {}
    BY DEF ReadersOf
  <2>2. PICK q \in Patterns(p) \ {EmptyPath} : q \in Named(app.input_stream, prefix)
    BY <2>1
  <2>3. q \in Registered /\ x \in Range(entries[q].consumers) /\ <<q, p>> \in Matches
    BY <1>6, <1>7, <2>1, <2>2
  <2> QED
    BY <2>3 DEF ConsumersOf
<1>10. ASSUME NEW T \in Closed, p \in T
       PROVE  ProducersOf(p) \subseteq WritersOf(T) /\ ConsumersOf(p) \subseteq ReadersOf(T)
  <2>1. ASSUME NEW x \in ProducersOf(p) PROVE x \in WritersOf(T)
    <3>1. PICK q \in Registered : <<q, p>> \in Matches /\ x \in Range(entries[q].producers)
      BY <2>1 DEF ProducersOf
    <3>2. q \in T
      BY <1>10, <3>1 DEF Closed, Patterns, Registered
    <3>a. \A y \in Range(entries[q].producers) : \E i \in 1 .. Len(f) :
            /\ f[i].api = "addProducer" /\ f[i].path \in T \ {EmptyPath}
            /\ y = Strip[Head(f[i].arg.producers)]
      <4>1. q \in T \cap Registered /\ Originates(f, Len(f))
        BY <1>2, <3>2
      <4> QED
        BY <1>10, <4>1 DEF Originates
    <3>3. PICK i \in 1 .. Len(f) :
            /\ f[i].api = "addProducer" /\ f[i].path \in T \ {EmptyPath}
            /\ x = Strip[Head(f[i].arg.producers)]
      BY <3>1, <3>a, Zenon
    <3>4. PICK app \in Range(doc.IO_Graph) :
            /\ f[i].path \in Named(app.output_stream, prefix)
            /\ Head(f[i].arg.producers) = app.name
      BY <1>4, <3>3 DEF Says
    <3> QED
      BY <3>3, <3>4 DEF WritersOf
  <2>2. ASSUME NEW x \in ConsumersOf(p) PROVE x \in ReadersOf(T)
    <3>1. PICK q \in Registered : <<q, p>> \in Matches /\ x \in Range(entries[q].consumers)
      BY <2>2 DEF ConsumersOf
    <3>2. q \in T
      BY <1>10, <3>1 DEF Closed, Patterns, Registered
    <3>a. \A y \in Range(entries[q].consumers) : \E i \in 1 .. Len(f) :
            /\ f[i].api = "addConsumer" /\ f[i].path \in T \ {EmptyPath}
            /\ y = Strip[Head(f[i].arg.consumers)]
      <4>1. q \in T \cap Registered /\ Originates(f, Len(f))
        BY <1>2, <3>2
      <4> QED
        BY <1>10, <4>1 DEF Originates
    <3>3. PICK i \in 1 .. Len(f) :
            /\ f[i].api = "addConsumer" /\ f[i].path \in T \ {EmptyPath}
            /\ x = Strip[Head(f[i].arg.consumers)]
      BY <3>1, <3>a, Zenon
    <3>4. PICK app \in Range(doc.IO_Graph) :
            /\ f[i].path \in Named(app.input_stream, prefix)
            /\ Head(f[i].arg.consumers) = app.name
      BY <1>4, <3>3 DEF Says
    <3> QED
      BY <3>3, <3>4 DEF ReadersOf
  <2> QED
    BY <2>1, <2>2
<1> QED
  BY <1>8, <1>9, <1>10

(* What the last rule about an aspect of a path asks for is so.            *)
LEMMA RuleObeyed ==
  ASSUME TypeOK, LoadInv, doc \in Document, Loaded, NEW p \in Path \ {EmptyPath},
         NEW a \in Aspects, NEW I, I # {},
         I = {i \in DOMAIN Items(doc) : Items(doc)[i] \in RulesAbout(a, p, prefix)},
         a = "setDirectory" => Latest(I).kind # "name",
         a = "setFile" => Latest(I).kind = "name"
  PROVE  /\ Latest(I) \in Item /\ ValidItem(Latest(I)) /\ prefix \in Prefixes
         /\ LET c == TheCall(a, p, RuleArg(a, Latest(I), prefix)) IN
            Heeds(entries[p], c) \/ (a = "setFile" /\ HasChild(p))
<1>1. PICK f, x : f = AllCalls /\ x = Latest(I)
  OBVIOUS
<1>2. /\ prefix \in Prefixes /\ memOnly \in BOOLEAN /\ validate_json(doc)
      /\ Heeded(f, Len(f))
      /\ \A c : Excused(c) => \/ c.api \in Storage /\ memOnly
                              \/ c.api = "setFile" /\ HasChild(c.path)
  BY <1>1, AllCallsMade
<1>3. /\ f \in Seq(Says(doc, prefix))
      /\ \A b \in Aspects, q \in Path : \A y \in RulesAbout(b, q, prefix) :
           LastIn(Items(doc), RulesAbout(b, q, prefix), {y}) =>
             LastIn(f, Parts(b, q), Outcome(b, q, y, prefix))
  BY <1>1, <1>2, DocumentCalls DEF AllCalls
<1>4. /\ x \in RulesAbout(a, p, prefix) /\ x \in Item /\ x \in Range(Items(doc))
      /\ LastIn(Items(doc), RulesAbout(a, p, prefix), {x})
  BY <1>1, LastRuleFacts
<1>5. ValidItem(x)
  BY <1>2, <1>4 DEF validate_json
<1>6. /\ committed(x) \in CommitRule /\ mode(x) \in FireRule
      /\ file_deps(x, prefix) \in Seq(Path) /\ x.n_close \in Int /\ x.n_files \in Int
  BY <1>2, <1>4, <1>5, ItemRules DEF ValidItem, committed, mode, CommitRule, FireRule
<1>7. PICK c : c = TheCall(a, p, RuleArg(a, x, prefix))
  OBVIOUS
<1>8. c.api = a /\ c.path = p /\ c.arg = RuleArg(a, x, prefix)
  BY <1>7 DEF TheCall
<1>9. c \in ApiCall /\ ~ Refused(c)
  <2>1. /\ \A n \in Int : /\ [DefaultEntry EXCEPT !.commit_on_close_count = n] \in Entry
                          /\ [DefaultEntry EXCEPT !.directory_children_count = n] \in Entry
        /\ \A k \in AnyCommitRule : [DefaultEntry EXCEPT !.commit_rule = k] \in Entry
        /\ \A k \in AnyFireRule : [DefaultEntry EXCEPT !.fire_rule = k] \in Entry
        /\ \A l \in Seq(Path) : [DefaultEntry EXCEPT !.file_dependencies = l] \in Entry
        /\ DefaultEntry \in Entry
    BY DefaultEntryType, EntryFields
  <2>2. committed(x) \in AnyCommitRule /\ mode(x) \in AnyFireRule
    BY <1>6 DEF AnyCommitRule, AnyFireRule
  <2>3. RuleArg(a, x, prefix) \in Entry
    BY <1>6, <2>1, <2>2 DEF RuleArg, Aspects, RuleApi, Kinds
  <2>4. c \in ApiCall
    BY <1>7, <2>3 DEF TheCall, ApiCall, Aspects, RuleApi, Kinds, Api, Setters, Loops
  <2>5. a = "setFileDeps" => file_deps(x, prefix) # <<>>
    BY <1>4 DEF RulesAbout, Bears
  <2>6. /\ a = "setCommitRule" => c.arg.commit_rule = committed(x)
        /\ a = "setFireRule" => c.arg.fire_rule = mode(x)
        /\ a = "setFileDeps" => c.arg.file_dependencies = file_deps(x, prefix)
    BY <1>8, RuleArgs DEF DefaultEntry
  <2> QED
    BY <1>6, <1>8, <2>4, <2>5, <2>6 DEF Refused, EmptyGuard, BadRule, NothingToDo
<1>10. a \in Settings /\ a \notin Storage /\ a \notin Roles
  BY DEF Aspects, RuleApi, Kinds, Settings, Storage, Roles
<1>11. Outcome(a, p, x, prefix) = {c}
  <2>1. a = "setDirectory" => KindApi(x) = a
    BY <1>1 DEF KindApi
  <2> QED
    BY <1>1, <1>7, <2>1 DEF Outcome, Kinds, RuleArg
<1>12. Rivals(c) = Parts(a, p)
  <2>1. CASE a \notin Kinds
    BY <1>8, <1>10, <2>1 DEF Rivals, Parts, CallsOn, Storage, Kinds, NothingToDo
  <2>2. CASE a \in Kinds
    BY <1>8, <1>10, <2>2 DEF Rivals, Parts, CallsOn, Storage, Kinds, NothingToDo
  <2> QED
    BY <2>1, <2>2
<1>13. LastIn(f, Rivals(c), {c})
  BY <1>3, <1>4, <1>11, <1>12
<1>14. Heeds(entries[p], c) \/ Excused(c)
  BY <1>2, <1>3, <1>8, <1>9, <1>10, <1>13, Obeyed
<1> QED
  BY <1>1, <1>2, <1>4, <1>5, <1>7, <1>8, <1>10, <1>14

(* The rules of a path.                                                    *)
LEMMA LoadedRules ==
  ASSUME TypeOK, LoadInv, doc \in Document, Loaded, NEW p \in Path \ {EmptyPath}
  PROVE  /\ RulesOn(p) # {} =>
              /\ entries[p].commit_rule = committed(Latest(RulesOn(p)))
              /\ entries[p].fire_rule = mode(Latest(RulesOn(p)))
              /\ entries[p].commit_on_close_count = Latest(RulesOn(p)).n_close
              /\ Latest(RulesOn(p)).kind = "dirname" => ~ entries[p].is_file
              /\ /\ Latest(RulesOn(p) \cup CountRules).kind = "name"
                 /\ \A q \in Registered : Parent[q] # p
                 => entries[p].is_file
         /\ DepsRulesOn(p) # {} =>
              entries[p].file_dependencies = file_deps(Latest(DepsRulesOn(p)), prefix)
         /\ CountRulesOn(p) # {} =>
              /\ entries[p].directory_children_count = Latest(CountRulesOn(p)).n_files
              /\ ~ entries[p].enable_directory_count_update
<1> DEFINE Of(a) == {i \in DOMAIN Items(doc) : Items(doc)[i] \in RulesAbout(a, p, prefix)}
<1>1. /\ RulesOn(p) = Of("setCommitRule") /\ RulesOn(p) = Of("setFireRule")
      /\ RulesOn(p) = Of("setCommitedCloseNumber") /\ RulesOn(p) = Of("setDirectory")
      /\ DepsRulesOn(p) = Of("setFileDeps")
      /\ CountRulesOn(p) = Of("setDirectoryFileCount")
      /\ RulesOn(p) \cup CountRules = Of("setFile")
  BY RulePositions DEF RuleApi
<1>2. ASSUME NEW a \in Aspects, NEW I, I = Of(a), I # {},
             a = "setDirectory" => Latest(I).kind # "name",
             a = "setFile" => Latest(I).kind = "name" /\ ~ HasChild(p)
      PROVE  /\ a = "setCommitRule" => entries[p].commit_rule = committed(Latest(I))
             /\ a = "setFireRule" => entries[p].fire_rule = mode(Latest(I))
             /\ a = "setCommitedCloseNumber" =>
                  entries[p].commit_on_close_count = Latest(I).n_close
             /\ a = "setFileDeps" =>
                  entries[p].file_dependencies = file_deps(Latest(I), prefix)
             /\ a = "setDirectoryFileCount" =>
                  /\ entries[p].directory_children_count = Latest(I).n_files
                  /\ ~ entries[p].enable_directory_count_update
             /\ a = "setFile" => entries[p].is_file
             /\ a = "setDirectory" => ~ entries[p].is_file
  <2>1. PICK x, c : x = Latest(I) /\ c = TheCall(a, p, RuleArg(a, Latest(I), prefix))
    OBVIOUS
  <2>2. Heeds(entries[p], c)
    BY <1>2, <2>1, RuleObeyed
  <2>3. c = TheCall(a, p, RuleArg(a, x, prefix))
    BY <2>1
  <2> QED
    BY <2>1, <2>2, <2>3, HeedsRule
<1>3. Aspects = {"setCommitRule", "setFireRule", "setCommitedCloseNumber", "setFileDeps",
                 "setFile", "setDirectory", "setDirectoryFileCount"}
  BY DEF Aspects, RuleApi, Kinds
<1> HIDE DEF Of
<1>4. ASSUME RulesOn(p) # {}
      PROVE  /\ entries[p].commit_rule = committed(Latest(RulesOn(p)))
             /\ entries[p].fire_rule = mode(Latest(RulesOn(p)))
             /\ entries[p].commit_on_close_count = Latest(RulesOn(p)).n_close
  BY <1>1, <1>2, <1>3, <1>4
<1>5. ASSUME RulesOn(p) # {}, Latest(RulesOn(p)).kind = "dirname"
      PROVE  ~ entries[p].is_file
  BY <1>1, <1>2, <1>3, <1>5
<1>6. ASSUME RulesOn(p) # {}, Latest(RulesOn(p) \cup CountRules).kind = "name",
             \A q \in Registered : Parent[q] # p
      PROVE  entries[p].is_file
  <2>1. RulesOn(p) \cup CountRules # {} /\ ~ HasChild(p)
    BY <1>6 DEF HasChild
  <2> QED
    BY <1>1, <1>2, <1>3, <1>6, <2>1
<1>7. ASSUME DepsRulesOn(p) # {}
      PROVE  entries[p].file_dependencies = file_deps(Latest(DepsRulesOn(p)), prefix)
  BY <1>1, <1>2, <1>3, <1>7
<1>8. ASSUME CountRulesOn(p) # {}
      PROVE  /\ entries[p].directory_children_count = Latest(CountRulesOn(p)).n_files
             /\ ~ entries[p].enable_directory_count_update
  BY <1>1, <1>2, <1>3, <1>8
<1> QED
  BY <1>4, <1>5, <1>6, <1>7, <1>8

(* The flags of a path.                                                    *)
LEMMA LoadedFlags ==
  ASSUME TypeOK, LoadInv, doc \in Document, Loaded, NEW p \in Path \ {EmptyPath}
  PROVE  /\ p \in Named(doc.permanent, prefix) => entries[p].permanent
         /\ p \in Named(doc.exclude, prefix) => entries[p].excluded
<1>1. PICK f : f = AllCalls
  OBVIOUS
<1>2. /\ prefix \in Prefixes /\ memOnly \in BOOLEAN /\ validate_json(doc)
      /\ Heeded(f, Len(f))
  BY <1>1, AllCallsMade
<1>3. /\ f \in Seq(Says(doc, prefix))
      /\ \A q \in Named(doc.permanent, prefix) : ~ NoneIn(f, CallsOn("setPermanent", q))
      /\ \A q \in Named(doc.exclude, prefix) : ~ NoneIn(f, CallsOn("setExclude", q))
  BY <1>1, <1>2, DocumentCalls DEF AllCalls
<1>4. ASSUME NEW a \in {"setPermanent", "setExclude"}, ~ NoneIn(f, CallsOn(a, p))
      PROVE  \E c \in Says(doc, prefix) : c.api = a /\ Heeds(entries[p], c)
  <2>1. LastIn(f, CallsOn(a, p), CallsOn(a, p) \cap Says(doc, prefix))
    BY <1>3, <1>4, LastExists
  <2>2. PICK c \in CallsOn(a, p) \cap Says(doc, prefix) : LastIn(f, CallsOn(a, p), {c})
    BY <2>1 DEF LastIn
  <2>3. c \in ApiCall /\ c.api = a /\ c.path = p
    BY <2>2 DEF CallsOn
  <2>4. a \in Settings /\ a \notin Storage /\ a \notin Roles
    BY DEF Settings, Storage, Roles
  <2>5. Rivals(c) = CallsOn(a, p)
    BY <2>3, <2>4 DEF Rivals, CallsOn, Kinds, Storage, NothingToDo
  <2>6. ~ Refused(c)
    BY <2>3 DEF Refused, EmptyGuard, BadRule, NothingToDo
  <2>7. Heeds(entries[p], c)
    BY <1>2, <1>3, <2>2, <2>3, <2>4, <2>5, <2>6, Obeyed DEF Excused
  <2> QED
    BY <2>2, <2>3, <2>7
<1>5. ASSUME p \in Named(doc.permanent, prefix) PROVE entries[p].permanent
  <2>1. PICK c \in Says(doc, prefix) : c.api = "setPermanent" /\ Heeds(entries[p], c)
    BY <1>3, <1>4, <1>5
  <2>2. c.arg.permanent
    BY <2>1 DEF Says
  <2> QED
    BY <2>1, <2>2 DEF Heeds
<1>6. ASSUME p \in Named(doc.exclude, prefix) PROVE entries[p].excluded
  <2>1. PICK c \in Says(doc, prefix) : c.api = "setExclude" /\ Heeds(entries[p], c)
    BY <1>3, <1>4, <1>6
  <2>2. c.arg.excluded
    BY <2>1 DEF Says
  <2> QED
    BY <2>1, <2>2 DEF Heeds
<1> QED
  BY <1>5, <1>6

(* Where the path is kept.                                                 *)
LEMMA LoadedPlace ==
  ASSUME TypeOK, LoadInv, doc \in Document, Loaded, NEW p \in Path \ {EmptyPath}
  PROVE  /\ memOnly /\ p \in Registered => entries[p].store_in_memory
         /\ p \in Range(doc.memory) \cup Range(doc.fs) =>
              p \in Registered /\ (memOnly \/ (entries[p].store_in_memory <=>
                                                 p \notin Range(doc.fs)))
<1>1. PICK f : f = AllCalls
  OBVIOUS
<1>2. /\ prefix \in Prefixes /\ memOnly \in BOOLEAN /\ validate_json(doc)
      /\ Heeded(f, Len(f)) /\ AllMoved(f, Len(f)) /\ (store_all_in_memory => memOnly)
  BY <1>1, AllCallsMade
<1>3. /\ f \in Seq(Says(doc, prefix))
      /\ memOnly => Len(f) \in DOMAIN f /\ f[Len(f)].api = "setAllStoreInMemory"
      /\ p \in Range(doc.fs) =>
           LastIn(f, PlacesOf(p), {TheCall("setStoreFileInFileSystem", p, DefaultEntry)})
      /\ p \in Range(doc.memory) \ Range(doc.fs) =>
           LastIn(f, PlacesOf(p), {TheCall("setStoreFileInMemory", p, DefaultEntry)})
  BY <1>1, <1>2, DocumentCalls DEF AllCalls
<1>4. Len(f) \in Nat /\ DOMAIN f = 1 .. Len(f)
  BY <1>3
<1>5. ASSUME memOnly, p \in Registered PROVE entries[p].store_in_memory
  BY <1>2, <1>3, <1>4, <1>5 DEF AllMoved, InMemory
<1>6. ASSUME NEW a \in Storage, NEW c, c = TheCall(a, p, DefaultEntry),
             LastIn(f, PlacesOf(p), {c})
      PROVE  p \in Registered /\ (Heeds(entries[p], c) \/ memOnly)
  <2>1. c \in ApiCall /\ c.api = a /\ c.path = p
    BY <1>6, DefaultEntryType DEF TheCall, ApiCall, Storage, Api, Setters
  <2>2. a \in Settings /\ a \notin Roles
    BY DEF Settings, Storage, Roles
  <2>3. Rivals(c) = PlacesOf(p)
    BY <2>1, <2>2 DEF Rivals, PlacesOf, Kinds, Storage, NothingToDo
  <2>4. ~ Refused(c)
    BY <2>1 DEF Refused, EmptyGuard, BadRule, NothingToDo, Storage
  <2> QED
    BY <1>2, <1>3, <1>6, <2>1, <2>2, <2>3, <2>4, Obeyed DEF Excused, Storage
<1>7. ASSUME p \in Range(doc.fs)
      PROVE  p \in Registered /\ (memOnly \/ ~ entries[p].store_in_memory)
  <2>1. PICK c : c = TheCall("setStoreFileInFileSystem", p, DefaultEntry)
    OBVIOUS
  <2>2. c.api = "setStoreFileInFileSystem"
    BY <2>1 DEF TheCall
  <2> QED
    BY <1>3, <1>6, <1>7, <2>1, <2>2 DEF Storage, Heeds
<1>8. ASSUME p \in Range(doc.memory) \ Range(doc.fs)
      PROVE  p \in Registered /\ (memOnly \/ entries[p].store_in_memory)
  <2>1. PICK c : c = TheCall("setStoreFileInMemory", p, DefaultEntry)
    OBVIOUS
  <2>2. c.api = "setStoreFileInMemory"
    BY <2>1 DEF TheCall
  <2> QED
    BY <1>3, <1>6, <1>8, <2>1, <2>2 DEF Storage, Heeds
<1> QED
  BY <1>5, <1>7, <1>8

(* What the progress of the loading is for.                                *)
LEMMA LoadedSays == TypeOK /\ LoadInv /\ doc \in Document => LoadedAsWritten
<1> SUFFICES ASSUME TypeOK, LoadInv, doc \in Document, Loaded
             PROVE  LoadedAsWritten
  BY DEF LoadedAsWritten
<1>1. workflow_name = doc.name
  BY AllCallsMade
<1> QED
  BY <1>1, LoadedRoles, LoadedRules, LoadedFlags, LoadedPlace DEF LoadedAsWritten

(* The parser starts with a new engine and all its calls ahead of it.      *)
LEMMA ParseStep ==
  ASSUME TypeOK, LoadInv, doc \in Document, parse
  PROVE  TypeOK' /\ LoadInv'
<1>1. CASE phase' = "refused" /\ UNCHANGED <<engine, doc, script, prefix, memOnly, saved>>
  <2>1. TypeOK'
    BY <1>1 DEF engine, vars, TypeOK
  <2> QED
    BY <1>1, <2>1 DEF LoadInv
<1>2. CASE /\ ~ ParseThrows(doc) /\ phase' = "loading"
           /\ prefix' \in Prefixes /\ memOnly' \in BOOLEAN
           /\ script' = parse_calls(doc, prefix', memOnly')
           /\ entries' = NoTable /\ store_all_in_memory' = FALSE
           /\ frame' = [t \in Threads |-> NoFrame]
           /\ ret' = [t \in Threads |-> Void] /\ calls' = [t \in Threads |-> 0]
           /\ fsChoice' = {} /\ allInMemory' = FALSE
           /\ workflow_name' = doc.name
           /\ UNCHANGED <<doc, saved>>
  <2>1. TypeOK'
    <3>1. NoFrame \in ValidFrame
      BY DefaultEntryType, PathAssumption DEF NoFrame, ValidFrame, Frame, Label
    <3>2. 0 \in 0 .. MaxCalls
      BY ConstantsAssumption
    <3> QED
      BY <1>2, <3>1, <3>2, ValueType DEF NoTable, TypeOK
  <2>2. PICK f : f = script'
    OBVIOUS
  <2>3. f = AllCalls'
    BY <1>2, <2>2 DEF AllCalls
  <2>4. f \in Seq(Says(doc, prefix'))
    BY <1>2, <2>2, DocumentCalls DEF ParseThrows
  <2>5. f \in Seq(ApiCall)
    <3>1. Says(doc, prefix') \subseteq ApiCall
      BY DEF Says
    <3> QED
      BY <2>4, <3>1, KindOf
  <2>6. frame'[Me].at = "idle" /\ frame'[Me].api = "none"
    BY <1>2, OneThread DEF NoFrame
  <2>7. Pending(f, 0)'
    <3>1. Len(f) \in Nat /\ \A i \in 1 .. Len(f) : f[i] = f[0 + i]
      BY <2>5
    <3> QED
      BY <2>2, <2>5, <3>1 DEF Pending
  <2>8. Registered' = {}
    BY <1>2 DEF Registered, NoTable
  <2>9. Heeded(f, 0)' /\ Originates(f, 0)' /\ AllMoved(f, 0)'
    <3>1. \A c : ~ LastOf(f, 0, c)
      BY DEF LastOf
    <3>2. Heeded(f, 0)'
      BY <3>1 DEF Heeded, LastOf
    <3>3. Originates(f, 0)'
      BY <2>8 DEF Originates
    <3> QED
      BY <2>8, <3>2, <3>3 DEF AllMoved
  <2>10. Progress(f, 0)'
    BY <2>6, <2>7, <2>9 DEF Progress
  <2>11. MovingAll'
    BY <2>6 DEF MovingAll
  <2>12. ~ ParseThrows(doc)' /\ workflow_name' = doc'.name
    BY <1>2
  <2> QED
    BY <1>2, <2>1, <2>3, <2>10, <2>11, <2>12 DEF LoadInv
<1> QED
  BY <1>1, <1>2 DEF parse

-----------------------------------------------------------------------------
(* The document that the serializer writes.                                *)

(* What a function takes on on a finite set is a finite set.               *)
LEMMA FiniteRange ==
  ASSUME NEW D, IsFiniteSet(D), NEW g, g = [x \in D |-> g[x]]
  PROVE  IsFiniteSet(Range(g))
<1>1. g \in [D -> Range(g)] /\ \A y \in Range(g) : \E x \in D : g[x] = y
  BY DEF Range
<1>2. g \in Surjection(D, Range(g))
  BY <1>1 DEF Surjection
<1> QED
  BY <1>2, FS_Surjection

(* The applications of a table are finitely many.                          *)
LEMMA FinitelyMany ==
  ASSUME TypeOK
  PROVE  IsFiniteSet(Registered) /\ IsFiniteSet(Producing) /\ IsFiniteSet(Consuming)
<1>1. IsFiniteSet(Registered)
  BY ConstantsAssumption, FS_Subset DEF Registered
<1>2. \A s \in Seq(App) : IsFiniteSet(Range(s))
  <2> SUFFICES ASSUME NEW s \in Seq(App) PROVE IsFiniteSet(Range(s))
    OBVIOUS
  <2>1. Len(s) \in Nat /\ DOMAIN s = 1 .. Len(s) /\ s = [i \in 1 .. Len(s) |-> s[i]]
    OBVIOUS
  <2>2. IsFiniteSet(1 .. Len(s))
    <3>1. Len(s) \in Nat
      BY <2>1
    <3> QED
      BY <3>1, FS_Interval
  <2> QED
    BY <2>1, <2>2, FiniteRange
<1>3. \A p \in Registered : entries[p].producers \in Seq(App) /\ entries[p].consumers \in Seq(App)
  BY DEF Registered, TypeOK, Entry
<1>4. IsFiniteSet(Producing)
  <2> DEFINE g == [p \in Registered |-> Range(entries[p].producers)]
  <2>1. IsFiniteSet(Range(g))
    <3> HIDE DEF g
    <3>1. g = [p \in Registered |-> g[p]]
      BY DEF g
    <3> QED
      BY <1>1, <3>1, FiniteRange
  <2>2. Producing = UNION Range(g)
    BY DEF Producing, Range
  <2>3. \A T \in Range(g) : IsFiniteSet(T)
    <3>1. \A T \in Range(g) : \E p \in Registered : T = Range(entries[p].producers)
      BY DEF Range
    <3> HIDE DEF g
    <3> QED
      BY <1>2, <1>3, <3>1
  <2> HIDE DEF g
  <2> QED
    BY <2>1, <2>2, <2>3, FS_UNION
<1>5. IsFiniteSet(Consuming)
  <2> DEFINE g == [p \in Registered |-> Range(entries[p].consumers)]
  <2>1. IsFiniteSet(Range(g))
    <3> HIDE DEF g
    <3>1. g = [p \in Registered |-> g[p]]
      BY DEF g
    <3> QED
      BY <1>1, <3>1, FiniteRange
  <2>2. Consuming = UNION Range(g)
    BY DEF Consuming, Range
  <2>3. \A T \in Range(g) : IsFiniteSet(T)
    <3>1. \A T \in Range(g) : \E p \in Registered : T = Range(entries[p].consumers)
      BY DEF Range
    <3> HIDE DEF g
    <3> QED
      BY <1>2, <1>3, <3>1
  <2> HIDE DEF g
  <2> QED
    BY <2>1, <2>2, <2>3, FS_UNION
<1> QED
  BY <1>1, <1>4, <1>5

(* A listing of a finite set is a list of its members, all of them.        *)
LEMMA ListingOf ==
  ASSUME NEW D, IsFiniteSet(D), NEW s \in Listings(D)
  PROVE  s \in Seq(D) /\ Range(s) = D
<1>1. Cardinality(D) \in Nat
  BY FS_CardinalityType
<1> QED
  BY <1>1 DEF Listings

(* A list that was flattened holds what its parts hold.                    *)
LEMMA FlattenRange ==
  ASSUME NEW X, NEW ss, Lists(X, ss), NEW u, u = S!FlattenSeq(ss)
  PROVE  /\ u \in Seq(X)
         /\ \A x : x \in Range(u) <=> \E i \in DOMAIN ss : x \in Range(ss[i])
<1>1. u \in Seq(X) /\ \A C : NoneIn(u, C) <=> \A i \in DOMAIN ss : NoneIn(ss[i], C)
  BY FlattenIn
<1>2. \A s, x : x \in Range(s) <=> ~ NoneIn(s, {x})
  BY DEF Range, NoneIn
<1> QED
  BY <1>1, <1>2

(* The members of a list that are in T.                                    *)
Picked(s, T) == [i \in DOMAIN s |-> IF s[i] \in T THEN <<s[i]>> ELSE <<>>]
LEMMA ThoseIn ==
  ASSUME NEW X, NEW s \in Seq(X), NEW T, NEW u, u = S!FlattenSeq(Picked(s, T))
  PROVE  u \in Seq(X) /\ \A x : x \in Range(u) <=> x \in Range(s) /\ x \in T
<1>a. PICK ss : ss = Picked(s, T)
  OBVIOUS
<1>b. /\ DOMAIN ss = DOMAIN s /\ ss = [i \in DOMAIN ss |-> ss[i]]
      /\ \A i \in DOMAIN s : ss[i] = IF s[i] \in T THEN <<s[i]>> ELSE <<>>
  BY <1>a DEF Picked
<1>1. \A i \in DOMAIN s : s[i] \in X
  OBVIOUS
<1>2. \A x : /\ Range(<<x>>) = {x}
             /\ x \in X => <<x>> \in Seq(X)
  BY DEF Range
<1>3. Range(<<>>) = {} /\ <<>> \in Seq(X)
  BY DEF Range
<1>4. \A i \in DOMAIN s : /\ ss[i] \in Seq(X)
                          /\ \A x : x \in Range(ss[i]) <=> x = s[i] /\ x \in T
  BY <1>1, <1>2, <1>3, <1>b
<1>5. Lists(X, ss)
  BY <1>4, <1>b, ListsOf
<1>6. u \in Seq(X) /\ \A x : x \in Range(u) <=> \E i \in DOMAIN ss : x \in Range(ss[i])
  BY <1>5, <1>a, FlattenRange
<1>7. \A x : x \in Range(s) <=> \E i \in DOMAIN s : x = s[i]
  BY DEF Range
<1> QED
  BY <1>4, <1>6, <1>7, <1>b

(* A path as often as it names the application.                            *)
LEMMA TimesIn ==
  ASSUME NEW X, NEW p \in X, NEW s \in Seq(App), NEW a
  PROVE  /\ Times(s, a, p) \in Seq(X)
         /\ \A x : x \in Range(Times(s, a, p)) <=> x = p /\ a \in Range(s)
<1> DEFINE J == {j \in DOMAIN s : s[j] = a}
           n == Cardinality(J)
<1>1. Len(s) \in Nat /\ DOMAIN s = 1 .. Len(s)
  OBVIOUS
<1>2. IsFiniteSet(J)
  <2>1. IsFiniteSet(1 .. Len(s))
    BY <1>1, FS_Interval
  <2> QED
    BY <1>1, <2>1, FS_Subset
<1>3. J = {} <=> a \notin Range(s)
  BY DEF Range
<1> HIDE DEF J
<1>4. n \in Nat /\ (n = 0 <=> J = {})
  BY <1>2, FS_CardinalityType, FS_EmptySet
<1>5. Times(s, a, p) = [i \in 1 .. n |-> p]
  BY DEF Times, J
<1> HIDE DEF n
<1>6. [i \in 1 .. n |-> p] \in Seq(X)
  BY <1>4
<1>7. \A x : x \in Range([i \in 1 .. n |-> p]) <=> x = p /\ n # 0
  <2>1. n # 0 => 1 \in 1 .. n
    BY <1>4
  <2>2. n = 0 => 1 .. n = {}
    BY <1>4
  <2> QED
    BY <2>1, <2>2 DEF Range
<1> QED
  BY <1>3, <1>4, <1>5, <1>6, <1>7

(* The inputs and outputs of an application are the paths that name it.    *)
LEMMA AppLists ==
  ASSUME TypeOK, NEW L \in Seq(Path), Range(L) = Registered, NEW a
  PROVE  /\ app_outputs(L, a) \in Seq(Path)
         /\ \A x : x \in Range(app_outputs(L, a)) <=>
                     x \in Registered /\ a \in Range(entries[x].producers)
         /\ app_inputs(L, a) \in Seq(Path)
         /\ \A x : x \in Range(app_inputs(L, a)) <=>
                     x \in Registered /\ a \in Range(entries[x].consumers)
<1> DEFINE so == [i \in DOMAIN L |-> Times(entries[L[i]].producers, a, L[i])]
           si == [i \in DOMAIN L |-> Times(entries[L[i]].consumers, a, L[i])]
<1>1. /\ app_outputs(L, a) = S!FlattenSeq(so)
      /\ app_inputs(L, a) = S!FlattenSeq(si)
  BY DEF app_outputs, app_inputs, ForEach
<1>2. \A i \in DOMAIN L : L[i] \in Path /\ L[i] \in Registered
  BY DEF Range
<1>3. \A p \in Registered : /\ entries[p].producers \in Seq(App)
                            /\ entries[p].consumers \in Seq(App)
  BY DEF Registered, TypeOK, Entry
<1>4. ASSUME NEW i \in DOMAIN L
      PROVE  /\ so[i] \in Seq(Path) /\ si[i] \in Seq(Path)
             /\ \A x : /\ x \in Range(so[i]) <=>
                            x = L[i] /\ a \in Range(entries[L[i]].producers)
                       /\ x \in Range(si[i]) <=>
                            x = L[i] /\ a \in Range(entries[L[i]].consumers)
  <2>1. PICK p, s, r : /\ p = L[i] /\ s = entries[L[i]].producers
                       /\ r = entries[L[i]].consumers
    OBVIOUS
  <2>2. p \in Path /\ s \in Seq(App) /\ r \in Seq(App)
    BY <1>2, <1>3, <2>1
  <2>3. so[i] = Times(s, a, p) /\ si[i] = Times(r, a, p)
    BY <2>1
  <2>4. /\ Times(s, a, p) \in Seq(Path)
        /\ \A x : x \in Range(Times(s, a, p)) <=> x = p /\ a \in Range(s)
        /\ Times(r, a, p) \in Seq(Path)
        /\ \A x : x \in Range(Times(r, a, p)) <=> x = p /\ a \in Range(r)
    BY <2>2, TimesIn
  <2> HIDE DEF so, si
  <2> QED
    BY <2>1, <2>3, <2>4
<1>5. /\ DOMAIN so = DOMAIN L /\ so = [i \in DOMAIN so |-> so[i]]
      /\ DOMAIN si = DOMAIN L /\ si = [i \in DOMAIN si |-> si[i]]
  OBVIOUS
<1> HIDE DEF so, si
<1>6. Lists(Path, so) /\ Lists(Path, si)
  BY <1>4, <1>5, ListsOf
<1>7. PICK uo, ui : uo = S!FlattenSeq(so) /\ ui = S!FlattenSeq(si)
  OBVIOUS
<1>8. /\ uo \in Seq(Path)
      /\ \A x : x \in Range(uo) <=> \E i \in DOMAIN so : x \in Range(so[i])
      /\ ui \in Seq(Path)
      /\ \A x : x \in Range(ui) <=> \E i \in DOMAIN si : x \in Range(si[i])
  BY <1>6, <1>7, FlattenRange
<1>9. \A x : x \in Registered <=> \E i \in DOMAIN L : x = L[i]
  BY DEF Range
<1>10. \A x : /\ x \in Range(uo) <=> x \in Registered /\ a \in Range(entries[x].producers)
              /\ x \in Range(ui) <=> x \in Registered /\ a \in Range(entries[x].consumers)
  BY <1>4, <1>5, <1>8, <1>9
<1> QED
  BY <1>1, <1>7, <1>8, <1>10

(* The streaming rule that is written for entry e of p.                    *)
WrittenCount(e) == IF e.commit_on_close_count > 0 THEN e.commit_on_close_count ELSE 0
WrittenRule(p, e) ==
  [kind |-> IF e.is_file THEN "name" ELSE "dirname", paths |-> <<p>>,
   committed |-> IF WrittenCount(e) > 0 THEN "on_close" ELSE e.commit_rule,
   n_close |-> WrittenCount(e),
   file_deps |-> e.file_dependencies, mode |-> e.fire_rule,
   n_files |-> IF e.is_file THEN 0 ELSE e.directory_children_count]

(* It is what the schema knows.                                            *)
LEMMA WrittenRuleType ==
  ASSUME NEW p \in Path, NEW e \in Entry
  PROVE  WrittenRule(p, e) \in Item
<1>1. /\ e.commit_on_close_count \in Int /\ e.directory_children_count \in Int
      /\ e.commit_rule \in AnyCommitRule /\ e.fire_rule \in AnyFireRule
      /\ e.file_dependencies \in Seq(Path)
  BY DEF Entry
<1>2. WrittenCount(e) \in Int
  BY <1>1 DEF WrittenCount
<1>3. <<p>> \in Seq(Path)
  OBVIOUS
<1> QED
  BY <1>1, <1>2, <1>3 DEF WrittenRule, Item, AnyCommitRule, CommitRule

(* What is in a list of one.                                               *)
LEMMA ListOfOne ==
  ASSUME NEW X, NEW y \in X
  PROVE  <<y>> \in Seq(X) /\ \A x : x \in Range(<<y>>) <=> x = y
BY DEF Range

(* The rules that are written for a list of paths.                         *)
RuleLists(s) == [i \in DOMAIN s |-> <<streaming_item(s[i])>>]
LEMMA WrittenRules ==
  ASSUME TypeOK, NEW s \in Seq(Path), Range(s) \subseteq Registered,
         NEW u, u = S!FlattenSeq(RuleLists(s))
  PROVE  /\ u \in Seq(Item)
         /\ \A x : x \in Range(u) <=>
                     \E p \in Range(s) : x = WrittenRule(p, entries[p])
<1>1. PICK ss : ss = RuleLists(s)
  OBVIOUS
<1>2. \A p : streaming_item(p) = WrittenRule(p, entries[p])
  BY DEF streaming_item, WrittenRule, WrittenCount
<1>3. \A i \in DOMAIN s : s[i] \in Path /\ s[i] \in Range(s) /\ entries[s[i]] \in Entry
  BY DEF Range, Registered, TypeOK
<1>4. ASSUME NEW i \in DOMAIN s
      PROVE  /\ ss[i] \in Seq(Item)
             /\ \A x : x \in Range(ss[i]) <=> x = WrittenRule(s[i], entries[s[i]])
  <2>1. PICK y : y = WrittenRule(s[i], entries[s[i]])
    OBVIOUS
  <2>2. ss[i] = <<y>> /\ y \in Item
    BY <1>1, <1>2, <1>3, <2>1, WrittenRuleType DEF RuleLists
  <2>3. <<y>> \in Seq(Item) /\ \A x : x \in Range(<<y>>) <=> x = y
    BY <2>2, ListOfOne
  <2> QED
    BY <2>1, <2>2, <2>3
<1>5. DOMAIN ss = DOMAIN s /\ ss = [i \in DOMAIN ss |-> ss[i]]
  BY <1>1 DEF RuleLists
<1>6. Lists(Item, ss)
  BY <1>4, <1>5, ListsOf
<1>7. u \in Seq(Item) /\ \A x : x \in Range(u) <=> \E i \in DOMAIN ss : x \in Range(ss[i])
  BY <1>1, <1>6, FlattenRange
<1>8. ASSUME NEW x
      PROVE  x \in Range(u) <=> \E p \in Range(s) : x = WrittenRule(p, entries[p])
  <2>1. x \in Range(u) <=> \E i \in DOMAIN s : x = WrittenRule(s[i], entries[s[i]])
    BY <1>4, <1>5, <1>7
  <2> QED
    BY <2>1 DEF Range
<1> QED
  BY <1>7, <1>8

(* The items of the applications that produce, and of those that do not.   *)
ProducerItem(L, a) ==
  [name |-> a, input_stream |-> app_inputs(L, a), output_stream |-> app_outputs(L, a),
   streaming |-> ForEach(app_outputs(L, a), LAMBDA p : <<streaming_item(p)>>)]
ConsumerItem(L, a) ==
  [name |-> a, input_stream |-> app_inputs(L, a), output_stream |-> <<>>,
   streaming |-> <<>>]

(* What app says of the table.                                             *)
TruthOf(app) ==
  /\ \A p : p \in Range(app.output_stream) =>
              p \in Registered /\ app.name \in Range(entries[p].producers)
  /\ \A p : p \in Range(app.input_stream) <=>
              p \in Registered /\ app.name \in Range(entries[p].consumers)
  /\ \A x : x \in Range(app.streaming) <=>
              \E p \in Range(app.output_stream) : x = WrittenRule(p, entries[p])

(* Both kinds of items tell the truth, the first kind all of it.           *)
LEMMA AppItems ==
  ASSUME TypeOK, NEW L \in Seq(Path), Range(L) = Registered, NEW a \in App
  PROVE  /\ ProducerItem(L, a) \in AppItem /\ TruthOf(ProducerItem(L, a))
         /\ ProducerItem(L, a).name = a
         /\ \A p \in Registered : a \in Range(entries[p].producers) =>
              p \in Range(ProducerItem(L, a).output_stream)
         /\ ConsumerItem(L, a) \in AppItem /\ TruthOf(ConsumerItem(L, a))
         /\ ConsumerItem(L, a).name = a
<1>1. PICK o, i, u : /\ o = app_outputs(L, a) /\ i = app_inputs(L, a)
                     /\ u = S!FlattenSeq(RuleLists(o))
  OBVIOUS
<1>2. /\ o \in Seq(Path) /\ i \in Seq(Path)
      /\ \A x : x \in Range(o) <=> x \in Registered /\ a \in Range(entries[x].producers)
      /\ \A x : x \in Range(i) <=> x \in Registered /\ a \in Range(entries[x].consumers)
  BY <1>1, AppLists
<1>3. Range(o) \subseteq Registered
  BY <1>2
<1>4. /\ u \in Seq(Item)
      /\ \A x : x \in Range(u) <=> \E p \in Range(o) : x = WrittenRule(p, entries[p])
  BY <1>1, <1>2, <1>3, WrittenRules
<1>5. <<>> \in Seq(Path) /\ <<>> \in Seq(Item) /\ Range(<<>>) = {}
  BY DEF Range
<1>6. PICK c, d : c = ProducerItem(L, a) /\ d = ConsumerItem(L, a)
  OBVIOUS
<1>7. /\ c = [name |-> a, input_stream |-> i, output_stream |-> o, streaming |-> u]
      /\ d = [name |-> a, input_stream |-> i, output_stream |-> <<>>,
              streaming |-> <<>>]
  BY <1>1, <1>6 DEF ProducerItem, ConsumerItem, ForEach, RuleLists
<1>8. /\ c \in AppItem /\ c.name = a /\ c.input_stream = i /\ c.output_stream = o
      /\ c.streaming = u
      /\ d \in AppItem /\ d.name = a /\ d.input_stream = i /\ d.output_stream = <<>>
      /\ d.streaming = <<>>
  BY <1>2, <1>4, <1>5, <1>7 DEF AppItem
<1>9. TruthOf(c) /\ TruthOf(d)
  BY <1>2, <1>4, <1>5, <1>8 DEF TruthOf
<1> QED
  BY <1>2, <1>6, <1>8, <1>9

(* A function on the first numbers is a list.                              *)
LEMMA FunctionIsList ==
  ASSUME NEW X, NEW n \in Nat, NEW s \in [1 .. n -> X]
  PROVE  s \in Seq(X)
BY SeqDef

(* The list of all items.                                                  *)
LEMMA WrittenGraph ==
  ASSUME TypeOK, NEW L \in Seq(Path), Range(L) = Registered,
         NEW A \in Seq(App), Range(A) = Producing,
         NEW B \in Seq(App), Range(B) = Consuming \ Producing,
         NEW g, g = io_graph(L, A, B)
  PROVE  /\ g \in Seq(AppItem) /\ \A app \in Range(g) : TruthOf(app)
         /\ \A a \in Producing \cup Consuming : \E app \in Range(g) :
              /\ app.name = a
              /\ \A p \in Registered : a \in Range(entries[p].producers) =>
                   p \in Range(app.output_stream)
<1>1. PICK s, r : /\ s = [i \in DOMAIN A |-> ProducerItem(L, A[i])]
                  /\ r = [i \in DOMAIN B |-> ConsumerItem(L, B[i])]
  OBVIOUS
<1>2. g = s \o r
  BY <1>1 DEF io_graph, ProducerItem, ConsumerItem
<1>3. /\ Len(A) \in Nat /\ DOMAIN A = 1 .. Len(A) /\ \A i \in DOMAIN A : A[i] \in App
      /\ Len(B) \in Nat /\ DOMAIN B = 1 .. Len(B) /\ \A i \in DOMAIN B : B[i] \in App
  OBVIOUS
<1>4. /\ \A i \in DOMAIN A : ProducerItem(L, A[i]) \in AppItem
      /\ \A i \in DOMAIN B : ConsumerItem(L, B[i]) \in AppItem
  BY <1>3, AppItems
<1>5. s \in Seq(AppItem) /\ r \in Seq(AppItem)
  <2>1. PICK n, m : n = Len(A) /\ m = Len(B)
    OBVIOUS
  <2>2. s \in [1 .. n -> AppItem] /\ r \in [1 .. m -> AppItem]
    BY <1>1, <1>3, <1>4, <2>1
  <2>3. n \in Nat /\ m \in Nat
    BY <1>3, <2>1
  <2> QED
    BY <2>2, <2>3, FunctionIsList
<1>6. /\ g \in Seq(AppItem)
      /\ \A x : NoneIn(g, {x}) <=> NoneIn(s, {x}) /\ NoneIn(r, {x})
  <2>1. ASSUME NEW C PROVE NoneIn(s \o r, C) <=> NoneIn(s, C) /\ NoneIn(r, C)
    BY <1>5, ConcatIn
  <2>2. s \o r \in Seq(AppItem)
    BY <1>5
  <2> QED
    BY <1>2, <2>1, <2>2
<1>7. \A t, x : x \in Range(t) <=> ~ NoneIn(t, {x})
  BY DEF Range, NoneIn
<1>8. \A x : x \in Range(g) <=> x \in Range(s) \/ x \in Range(r)
  BY <1>6, <1>7
<1>9. \A x : /\ x \in Range(s) <=> \E a \in Producing : x = ProducerItem(L, a)
             /\ x \in Range(r) <=> \E a \in Consuming \ Producing : x = ConsumerItem(L, a)
  BY <1>1 DEF Range
<1>10. Producing \subseteq App /\ Consuming \subseteq App
  <2>1. \A p \in Registered : /\ entries[p].producers \in Seq(App)
                              /\ entries[p].consumers \in Seq(App)
    BY DEF Registered, TypeOK, Entry
  <2>2. \A t \in Seq(App) : Range(t) \subseteq App
    BY DEF Range
  <2> QED
    BY <2>1, <2>2 DEF Producing, Consuming
<1>11. \A app \in Range(g) : TruthOf(app)
  BY <1>8, <1>9, <1>10, AppItems
<1>12. ASSUME NEW a \in Producing \cup Consuming
       PROVE  \E app \in Range(g) :
                /\ app.name = a
                /\ \A p \in Registered : a \in Range(entries[p].producers) =>
                     p \in Range(app.output_stream)
  <2>1. CASE a \in Producing
    <3>1. PICK app : app = ProducerItem(L, a)
      OBVIOUS
    <3> QED
      BY <1>8, <1>9, <1>10, <2>1, <3>1, AppItems
  <2>2. CASE a \in Consuming \ Producing
    <3>1. PICK app : app = ConsumerItem(L, a)
      OBVIOUS
    <3>2. \A p \in Registered : a \notin Range(entries[p].producers)
      BY <2>2 DEF Producing
    <3> QED
      BY <1>8, <1>9, <1>10, <2>2, <3>1, <3>2, AppItems
  <2> QED
    BY <2>1, <2>2
<1> QED
  BY <1>6, <1>11, <1>12

(* Document d is one that is written for table m.                          *)
TellsLists(d, m, p) ==
  /\ p \in Range(d.memory) <=> m[p] # NoEntry /\ m[p].store_in_memory
  /\ p \in Range(d.fs) <=> m[p] # NoEntry /\ ~ m[p].store_in_memory
  /\ m[p] # NoEntry => /\ m[p].permanent => p \in Range(d.permanent)
                       /\ m[p].excluded => p \in Range(d.exclude)
TellsRoles(d, m, p) ==
  m[p] # NoEntry =>
    /\ \A a \in Range(m[p].producers) : \E app \in Range(d.IO_Graph) :
         app.name = a /\ p \in Range(app.output_stream)
    /\ \A a \in Range(m[p].consumers) : \E app \in Range(d.IO_Graph) :
         app.name = a /\ p \in Range(app.input_stream)
TellsRule(d, m, p) ==
  m[p] # NoEntry =>
    (m[p].producers # <<>> => WrittenRule(p, m[p]) \in Range(Items(d)))
Tells(d, m) ==
  /\ \A p \in Path : TellsLists(d, m, p) /\ TellsRoles(d, m, p) /\ TellsRule(d, m, p)
  /\ \A app \in Range(d.IO_Graph) :
       /\ \A p \in Range(app.output_stream) :
            p \in Path /\ m[p] # NoEntry /\ app.name \in Range(m[p].producers)
       /\ \A p \in Range(app.input_stream) :
            p \in Path /\ m[p] # NoEntry /\ app.name \in Range(m[p].consumers)
  /\ \A x \in Range(Items(d)) :
       \E p \in Path : m[p] # NoEntry /\ x = WrittenRule(p, m[p])

(* The serializer writes a document that the schema knows and that tells   *)
(* what is in the table.                                                   *)
LEMMA WrittenDocument ==
  ASSUME TypeOK, workflow_name \in Names, dump
  PROVE  doc' \in Document /\ Tells(doc', entries)
<1>1. PICK L \in Listings(Registered), A \in Listings(Producing),
           B \in Listings(Consuming \ Producing), v \in {"1", "1.1"} :
        doc' = serialize(L, A, B, v)
  BY DEF dump
<1>2. L \in Seq(Registered) /\ Range(L) = Registered
  BY FinitelyMany, ListingOf
<1>3. A \in Seq(Producing) /\ Range(A) = Producing
  BY FinitelyMany, ListingOf
<1>4. B \in Seq(Consuming \ Producing) /\ Range(B) = Consuming \ Producing
  <2>1. IsFiniteSet(Consuming \ Producing)
    BY FinitelyMany, FS_Difference
  <2> QED
    BY <2>1, ListingOf
<1>5. Producing \subseteq App /\ Consuming \subseteq App
  <2>1. \A p \in Registered : /\ entries[p].producers \in Seq(App)
                              /\ entries[p].consumers \in Seq(App)
    BY DEF Registered, TypeOK, Entry
  <2>2. \A t \in Seq(App) : Range(t) \subseteq App
    BY DEF Range
  <2> QED
    BY <2>1, <2>2 DEF Producing, Consuming
<1>6. L \in Seq(Path) /\ A \in Seq(App) /\ B \in Seq(App)
  <2>1. Registered \subseteq Path /\ Consuming \ Producing \subseteq App
    BY <1>5 DEF Registered
  <2> QED
    BY <1>2, <1>3, <1>4, <1>5, <2>1, KindOf
<1>7. PICK g : g = io_graph(L, A, B)
  OBVIOUS
<1>8. /\ g \in Seq(AppItem) /\ \A app \in Range(g) : TruthOf(app)
      /\ \A a \in Producing \cup Consuming : \E app \in Range(g) :
           /\ app.name = a
           /\ \A p \in Registered : a \in Range(entries[p].producers) =>
                p \in Range(app.output_stream)
  BY <1>2, <1>3, <1>4, <1>6, <1>7, WrittenGraph
<1> DEFINE P == {p \in Path : entries[p].permanent}
           E == {p \in Path : entries[p].excluded}
           M == {p \in Path : entries[p].store_in_memory}
           F == {p \in Path : ~ entries[p].store_in_memory}
<1>9. PICK lp, le, lm, lf : /\ lp = S!FlattenSeq(Picked(L, P))
                            /\ le = S!FlattenSeq(Picked(L, E))
                            /\ lm = S!FlattenSeq(Picked(L, M))
                            /\ lf = S!FlattenSeq(Picked(L, F))
  OBVIOUS
<1>10. /\ Those(L, LAMBDA p : entries[p].permanent) = lp
       /\ Those(L, LAMBDA p : entries[p].excluded) = le
       /\ Those(L, LAMBDA p : entries[p].store_in_memory) = lm
       /\ Those(L, LAMBDA p : ~ entries[p].store_in_memory) = lf
  <2>1. \A i \in DOMAIN L : L[i] \in Path
    BY <1>6
  <2>2. /\ Picked(L, P) = [i \in DOMAIN L |-> IF entries[L[i]].permanent
                                             THEN <<L[i]>> ELSE <<>>]
        /\ Picked(L, E) = [i \in DOMAIN L |-> IF entries[L[i]].excluded
                                             THEN <<L[i]>> ELSE <<>>]
        /\ Picked(L, M) = [i \in DOMAIN L |-> IF entries[L[i]].store_in_memory
                                             THEN <<L[i]>> ELSE <<>>]
        /\ Picked(L, F) = [i \in DOMAIN L |-> IF ~ entries[L[i]].store_in_memory
                                             THEN <<L[i]>> ELSE <<>>]
    BY <2>1 DEF Picked
  <2> HIDE DEF P, E, M, F
  <2> QED
    BY <1>9, <2>2 DEF Those, ForEach
<1>11. /\ lp \in Seq(Path) /\ \A x : x \in Range(lp) <=> x \in Registered /\ x \in P
       /\ le \in Seq(Path) /\ \A x : x \in Range(le) <=> x \in Registered /\ x \in E
       /\ lm \in Seq(Path) /\ \A x : x \in Range(lm) <=> x \in Registered /\ x \in M
       /\ lf \in Seq(Path) /\ \A x : x \in Range(lf) <=> x \in Registered /\ x \in F
  <2> HIDE DEF P, E, M, F
  <2> QED
    BY <1>2, <1>6, <1>9, ThoseIn
<1>12. PICK d : d = doc'
  OBVIOUS
<1>13. d = [version |-> v, name |-> workflow_name, IO_Graph |-> g, permanent |-> lp,
            exclude |-> le, memory |-> lm, fs |-> lf]
  BY <1>1, <1>7, <1>10, <1>12 DEF serialize
<1>14. d.IO_Graph = g /\ d.permanent = lp /\ d.exclude = le /\ d.memory = lm /\ d.fs = lf
  BY <1>13
<1>15. d \in Document
  BY <1>8, <1>11, <1>13 DEF Document
<1>16. \A x : x \in Range(Items(d)) <=> \E app \in Range(g) : x \in Range(app.streaming)
  <2>1. \A C : NoneIn(Items(d), C) <=> \A i \in DOMAIN g : NoneIn(g[i].streaming, C)
    BY <1>14, <1>15, ItemsFacts
  <2>2. \A t, x : x \in Range(t) <=> ~ NoneIn(t, {x})
    BY DEF Range, NoneIn
  <2>3. \A x : x \in Range(Items(d)) <=> \E i \in DOMAIN g : x \in Range(g[i].streaming)
    BY <2>1, <2>2
  <2> QED
    BY <2>3 DEF Range
<1>17. ASSUME NEW p \in Path
       PROVE  /\ TellsLists(d, entries, p) /\ TellsRoles(d, entries, p)
              /\ TellsRule(d, entries, p)
  <2>1. /\ p \in Range(lm) <=> entries[p] # NoEntry /\ entries[p].store_in_memory
        /\ p \in Range(lf) <=> entries[p] # NoEntry /\ ~ entries[p].store_in_memory
        /\ entries[p] # NoEntry =>
             /\ entries[p].permanent => p \in Range(lp)
             /\ entries[p].excluded => p \in Range(le)
    BY <1>11 DEF Registered
  <2>2. ASSUME entries[p] # NoEntry, NEW a \in Range(entries[p].producers)
        PROVE  \E app \in Range(g) : app.name = a /\ p \in Range(app.output_stream)
    <3>1. p \in Registered /\ a \in Producing
      BY <2>2 DEF Registered, Producing
    <3> QED
      BY <1>8, <3>1
  <2>3. ASSUME entries[p] # NoEntry, NEW a \in Range(entries[p].consumers)
        PROVE  \E app \in Range(g) : app.name = a /\ p \in Range(app.input_stream)
    <3>1. p \in Registered /\ a \in Consuming
      BY <2>3 DEF Registered, Consuming
    <3> QED
      BY <1>8, <3>1 DEF TruthOf
  <2>4. ASSUME entries[p] # NoEntry, entries[p].producers # <<>>
        PROVE  WrittenRule(p, entries[p]) \in Range(Items(d))
    <3>1. entries[p].producers \in Seq(App)
      BY <2>4 DEF TypeOK, Entry
    <3>2. PICK a : a \in Range(entries[p].producers)
      <4>1. PICK s : s = entries[p].producers
        OBVIOUS
      <4>2. s \in Seq(App) /\ s # <<>>
        BY <2>4, <3>1, <4>1
      <4>3. 1 \in DOMAIN s
        BY <4>2
      <4> QED
        BY <4>1, <4>3 DEF Range
    <3>3. PICK app \in Range(g) : p \in Range(app.output_stream)
      BY <2>2, <2>4, <3>2
    <3>4. WrittenRule(p, entries[p]) \in Range(app.streaming)
      BY <1>8, <3>3 DEF TruthOf
    <3> QED
      BY <1>16, <3>3, <3>4
  <2>5. TellsLists(d, entries, p)
    BY <1>14, <2>1 DEF TellsLists
  <2>6. TellsRoles(d, entries, p)
    BY <1>14, <2>2, <2>3 DEF TellsRoles
  <2>7. TellsRule(d, entries, p)
    BY <2>4 DEF TellsRule
  <2> QED
    BY <2>5, <2>6, <2>7
<1>18. ASSUME NEW app \in Range(g)
       PROVE  /\ \A p \in Range(app.output_stream) :
                   /\ p \in Path /\ entries[p] # NoEntry
                   /\ app.name \in Range(entries[p].producers)
              /\ \A p \in Range(app.input_stream) :
                   /\ p \in Path /\ entries[p] # NoEntry
                   /\ app.name \in Range(entries[p].consumers)
  BY <1>8 DEF TruthOf, Registered
<1>19. ASSUME NEW x \in Range(Items(d))
       PROVE  \E p \in Path : entries[p] # NoEntry /\ x = WrittenRule(p, entries[p])
  <2>1. PICK app \in Range(g) : x \in Range(app.streaming)
    BY <1>16
  <2>2. PICK p \in Range(app.output_stream) : x = WrittenRule(p, entries[p])
    BY <1>8, <2>1 DEF TruthOf
  <2> QED
    BY <1>18, <2>2
<1>20. Tells(d, entries)
  BY <1>14, <1>17, <1>18, <1>19 DEF Tells
<1> QED
  BY <1>12, <1>15, <1>20

-----------------------------------------------------------------------------
(* The specification.                                                      *)

(* What is on disk is a document, and the one of the table that was saved. *)
SaveInv ==
  /\ doc \in Document /\ workflow_name \in Names
  /\ saved \in [Path -> Entry \cup {NoEntry}]
  /\ phase = "edit" => saved = NoTable
  /\ saved # NoTable => Tells(doc, saved)

PInv == TypeOK /\ SaveInv /\ LoadInv

(* What the constants must give.                                           *)
LEMMA GivenDocuments == DefaultName \in Names /\ Documents \subseteq Document
BY PersistenceAssumption

(* It holds at the start.                                                  *)
LEMMA PInvInit == PInit => PInv
<1> SUFFICES ASSUME PInit PROVE PInv
  OBVIOUS
<1>1. Init /\ TypeOK
  BY TypeOKInit DEF PInit
<1>2. <<>> \in Seq(AppItem) /\ <<>> \in Seq(Path)
  OBVIOUS
<1>3. NoDocument \in Document
  BY <1>2, GivenDocuments DEF NoDocument, Document
<1>4. NoTable \in [Path -> Entry \cup {NoEntry}]
  BY DEF NoTable
<1>5. SaveInv
  BY <1>3, <1>4 DEF PInit, SaveInv
<1>6. LoadInv
  BY DEF PInit, LoadInv
<1> QED
  BY <1>1, <1>5, <1>6 DEF PInv

(* Every step keeps it.                                                    *)
LEMMA PInvStep == PInv /\ [PNext]_<<engine, parser>> => PInv'
<1> SUFFICES ASSUME TypeOK, SaveInv, LoadInv, [PNext]_<<engine, parser>>
             PROVE  TypeOK' /\ SaveInv' /\ LoadInv'
  BY DEF PInv
<1>1. doc \in Document /\ workflow_name \in Names
  BY DEF SaveInv
<1>2. Me \in Threads
  BY OneThread
<1>3. CASE UNCHANGED <<engine, parser>>
  <2>1. /\ UNCHANGED <<entries, store_all_in_memory, frame, ret, calls, fsChoice,
                       allInMemory>>
        /\ UNCHANGED <<workflow_name, phase, doc, script, prefix, memOnly, saved>>
    BY <1>3 DEF engine, parser, vars
  <2>2. TypeOK'
    BY <2>1 DEF TypeOK
  <2>3. SaveInv'
    BY <2>1 DEF SaveInv
  <2>4. LoadInv'
    <3>1. \A f, k : Progress(f, k) => Progress(f, k)'
      BY <2>1 DEF Progress, Pending, Heeded, Excused, HasChild, Originates, AllMoved,
         InMemory, Registered
    <3>2. MovingAll => MovingAll'
      BY <2>1 DEF MovingAll, InMemory, Registered, Todo
    <3>3. AllCalls' = AllCalls /\ (ParseThrows(doc)' <=> ParseThrows(doc))
      BY <2>1 DEF AllCalls
    <3> QED
      BY <2>1, <3>1, <3>2, <3>3 DEF LoadInv
  <2> QED
    BY <2>2, <2>3, <2>4
<1>4. CASE Edit
  <2>1. /\ phase = "edit" /\ Call(Me)
        /\ UNCHANGED <<workflow_name, phase, doc, saved>>
    BY <1>4 DEF Edit, parser
  <2>2. TypeOK'
    BY <1>2, <2>1, CallType
  <2> QED
    BY <2>1, <2>2 DEF SaveInv, LoadInv
<1>5. CASE EngineStep
  <2>1. Step(Me) /\ UNCHANGED <<workflow_name, phase, doc, saved>>
    BY <1>5 DEF EngineStep, parser
  <2>2. TypeOK'
    <3>1. Next
      BY <1>2, <2>1 DEF Next
    <3> QED
      BY <3>1, TypeOKStep
  <2>3. LoadInv'
    <3>1. CASE phase = "loading"
      BY <1>1, <1>5, <3>1, LoadEngineStep
    <3>2. CASE phase # "loading"
      BY <2>1, <3>2 DEF LoadInv
    <3> QED
      BY <3>1, <3>2
  <2> QED
    BY <2>1, <2>2, <2>3 DEF SaveInv
<1>6. CASE setWorkflowName
  <2>1. /\ phase = "edit" /\ workflow_name' \in Names
        /\ UNCHANGED <<entries, store_all_in_memory, frame, ret, calls, fsChoice,
                       allInMemory>>
        /\ UNCHANGED <<phase, doc, saved>>
    BY <1>6 DEF setWorkflowName, parser, vars
  <2>2. TypeOK'
    BY <2>1 DEF TypeOK
  <2> QED
    BY <2>1, <2>2 DEF SaveInv, LoadInv
<1>7. CASE dump
  <2>1. /\ phase' = "written" /\ saved' = entries
        /\ UNCHANGED <<entries, store_all_in_memory, frame, ret, calls, fsChoice,
                       allInMemory, workflow_name>>
    BY <1>7 DEF dump, engine, vars
  <2>2. doc' \in Document /\ Tells(doc', entries)
    BY <1>1, <1>7, WrittenDocument
  <2>3. TypeOK'
    BY <2>1 DEF TypeOK
  <2>4. saved' \in [Path -> Entry \cup {NoEntry}]
    BY <2>1 DEF TypeOK
  <2>5. SaveInv'
    BY <1>1, <2>1, <2>2, <2>4 DEF SaveInv
  <2> QED
    BY <2>1, <2>3, <2>5 DEF LoadInv
<1>8. CASE WriteByHand
  <2>1. /\ phase = "edit" /\ phase' = "written" /\ doc' \in Documents /\ saved' = saved
        /\ UNCHANGED <<entries, store_all_in_memory, frame, ret, calls, fsChoice,
                       allInMemory, workflow_name>>
    BY <1>8 DEF WriteByHand, engine, vars
  <2>2. doc' \in Document
    BY <2>1, GivenDocuments
  <2>3. TypeOK'
    BY <2>1 DEF TypeOK
  <2>4. SaveInv'
    BY <1>1, <2>1, <2>2 DEF SaveInv
  <2> QED
    BY <2>1, <2>3, <2>4 DEF LoadInv
<1>9. CASE parse
  <2>1. TypeOK' /\ LoadInv'
    BY <1>1, <1>9, ParseStep
  <2>2. /\ phase' # "edit" /\ UNCHANGED <<doc, saved>>
        /\ workflow_name' = workflow_name \/ workflow_name' = doc.name
    BY <1>9 DEF parse, engine
  <2>3. doc.name \in Names
    BY <1>1 DEF Document
  <2> QED
    BY <2>1, <2>2, <2>3 DEF SaveInv
<1>10. CASE ParserCall
  <2>1. TypeOK' /\ LoadInv'
    BY <1>1, <1>10, LoadCallStep
  <2>2. UNCHANGED <<workflow_name, phase, doc, saved>>
    BY <1>10 DEF ParserCall
  <2> QED
    BY <2>1, <2>2 DEF SaveInv
<1> QED
  BY <1>3, <1>4, <1>5, <1>6, <1>7, <1>8, <1>9, <1>10 DEF PNext

(* What a document makes of the engine (LoadedAsWritten lists it), for     *)
(* every document that passes the schema and every prefix: no setting of a *)
(* path is lost to what a pattern loaded earlier or later brings, the kind *)
(* and the number of files of a path are decided by the rules that say so, *)
(* and no application appears that no chain of patterns leads to           *)
(* (parse_calls, and the Engine methods it calls).                         *)
THEOREM DocumentsAreHeeded == PSpec => []LoadedAsWritten
<1>1. PInv => LoadedAsWritten
  BY LoadedSays DEF PInv, SaveInv
<1> QED
  BY <1>1, PInvInit, PInvStep, PTL DEF PSpec

(* What is written is what it is when no prefix is added.                  *)
LEMMA NoPrefix ==
  ASSUME prefix = EmptyPath
  PROVE  /\ \A s : Named(s, prefix) = Range(s)
         /\ \A p : resolve(p, prefix) = p
BY DEF Named, resolve

(* The roles that were saved are those of the document.                    *)
LEMMA SavedRolesTold ==
  ASSUME Tells(doc, saved), prefix = EmptyPath, NEW T \in SUBSET Path
  PROVE  /\ SavedRoles(T, "producers") = WritersOf(T)
         /\ SavedRoles(T, "consumers") = ReadersOf(T)
<1>1. \A q : saved[q]["producers"] = saved[q].producers
             /\ saved[q]["consumers"] = saved[q].consumers
  OBVIOUS
<1>2. \A q \in T \ {EmptyPath} : TellsRoles(doc, saved, q)
  BY DEF Tells
<1>3. \A app \in Range(doc.IO_Graph) :
        /\ \A p \in Range(app.output_stream) :
             p \in Path /\ saved[p] # NoEntry /\ app.name \in Range(saved[p].producers)
        /\ \A p \in Range(app.input_stream) :
             p \in Path /\ saved[p] # NoEntry /\ app.name \in Range(saved[p].consumers)
  BY DEF Tells
<1>4. \A s : Named(s, prefix) = Range(s)
  BY NoPrefix
<1>5. \A x : /\ x \in SavedRoles(T, "producers") <=>
                  \E q \in SavedPaths \cap T : \E a \in Range(saved[q].producers) :
                    x = Strip[a]
             /\ x \in SavedRoles(T, "consumers") <=>
                  \E q \in SavedPaths \cap T : \E a \in Range(saved[q].consumers) :
                    x = Strip[a]
  BY <1>1 DEF SavedRoles
<1>6. \A x : /\ x \in WritersOf(T) <=>
                  \E app \in Range(doc.IO_Graph) : \E q \in T \ {EmptyPath} :
                    x = Strip[app.name] /\ q \in Range(app.output_stream)
             /\ x \in ReadersOf(T) <=>
                  \E app \in Range(doc.IO_Graph) : \E q \in T \ {EmptyPath} :
                    x = Strip[app.name] /\ q \in Range(app.input_stream)
  BY <1>4 DEF WritersOf, ReadersOf
<1>7. \A q : q \in SavedPaths \cap T <=> q \in T \ {EmptyPath} /\ saved[q] # NoEntry
  BY DEF SavedPaths
<1>8. ASSUME NEW x
      PROVE  /\ x \in SavedRoles(T, "producers") <=> x \in WritersOf(T)
             /\ x \in SavedRoles(T, "consumers") <=> x \in ReadersOf(T)
  <2>1. ASSUME x \in SavedRoles(T, "producers") PROVE x \in WritersOf(T)
    <3>a. PICK q \in SavedPaths \cap T : \E a \in Range(saved[q].producers) : x = Strip[a]
      BY <1>5, <2>1
    <3>1. PICK a \in Range(saved[q].producers) : x = Strip[a]
      BY <3>a
    <3>2. PICK app \in Range(doc.IO_Graph) : app.name = a /\ q \in Range(app.output_stream)
      BY <1>2, <1>7, <3>1 DEF TellsRoles
    <3> QED
      BY <1>6, <1>7, <3>1, <3>2
  <2>2. ASSUME x \in WritersOf(T) PROVE x \in SavedRoles(T, "producers")
    <3>1. PICK app \in Range(doc.IO_Graph), q \in T \ {EmptyPath} :
            x = Strip[app.name] /\ q \in Range(app.output_stream)
      BY <1>6, <2>2
    <3> QED
      BY <1>3, <1>5, <1>7, <3>1
  <2>3. ASSUME x \in SavedRoles(T, "consumers") PROVE x \in ReadersOf(T)
    <3>a. PICK q \in SavedPaths \cap T : \E a \in Range(saved[q].consumers) : x = Strip[a]
      BY <1>5, <2>3
    <3>1. PICK a \in Range(saved[q].consumers) : x = Strip[a]
      BY <3>a
    <3>2. PICK app \in Range(doc.IO_Graph) : app.name = a /\ q \in Range(app.input_stream)
      BY <1>2, <1>7, <3>1 DEF TellsRoles
    <3> QED
      BY <1>6, <1>7, <3>1, <3>2
  <2>4. ASSUME x \in ReadersOf(T) PROVE x \in SavedRoles(T, "consumers")
    <3>1. PICK app \in Range(doc.IO_Graph), q \in T \ {EmptyPath} :
            x = Strip[app.name] /\ q \in Range(app.input_stream)
      BY <1>6, <2>4
    <3> QED
      BY <1>3, <1>5, <1>7, <3>1
  <2> QED
    BY <2>1, <2>2, <2>3, <2>4
<1> QED
  BY <1>8

(* The rules that were saved are those of the document.                    *)
LEMMA SavedRuleTold ==
  ASSUME SaveInv, LoadInv, Loaded, saved # NoTable, prefix = EmptyPath,
         NEW p \in SavedPaths, saved[p].producers # <<>>,
         NEW x, x = WrittenRule(p, saved[p])
  PROVE  /\ RulesOn(p) # {} /\ Latest(RulesOn(p)) = x
         /\ file_deps(x, prefix) # <<>> =>
              DepsRulesOn(p) # {} /\ Latest(DepsRulesOn(p)) = x
<1>1. /\ doc \in Document /\ Tells(doc, saved) /\ p \in Path /\ saved[p] # NoEntry
      /\ prefix \in Prefixes
  BY DEF SaveInv, SavedPaths, LoadInv, Loaded
<1>2. PICK k \in DOMAIN Items(doc) : Items(doc)[k] = x
  <2>1. x \in Range(Items(doc))
    BY <1>1 DEF Tells, TellsRule
  <2> QED
    BY <2>1 DEF Range
<1>3. \A q : /\ WrittenRule(q, saved[q]).paths = <<q>>
             /\ \A y : y \in Range(<<q>>) <=> y = q
  BY DEF WrittenRule, Range
<1>4. \A t : Named(t, prefix) = Range(t)
  BY NoPrefix
<1>5. k \in RulesOn(p)
  <2>1. x.paths = <<p>> /\ p \in Range(<<p>>)
    BY <1>3
  <2>2. p \in Range(x.paths)
    BY <2>1, Zenon
  <2> QED
    BY <1>2, <1>4, <2>2 DEF RulesOn
<1>6. ASSUME NEW a \in {"setCommitRule", "setFileDeps"}, NEW I, I # {},
             I = {i \in DOMAIN Items(doc) : Items(doc)[i] \in RulesAbout(a, p, prefix)}
      PROVE  Latest(I) = x
  <2>1. PICK y : y = Latest(I)
    OBVIOUS
  <2>2. y \in RulesAbout(a, p, prefix) /\ y \in Range(Items(doc))
    BY <1>1, <1>6, <2>1, LastRuleFacts
  <2>3. p \in Range(y.paths)
    <3>1. \E q \in Range(y.paths) : resolve(q, prefix) = p
      BY <2>2 DEF RulesAbout, Bears
    <3> QED
      BY <3>1, NoPrefix
  <2>4. PICK q \in Path : saved[q] # NoEntry /\ y = WrittenRule(q, saved[q])
    BY <1>1, <2>2 DEF Tells
  <2>5. p = q
    BY <1>3, <2>3, <2>4
  <2> QED
    BY <2>1, <2>4, <2>5
<1>7. /\ RulesOn(p) = {i \in DOMAIN Items(doc) :
                        Items(doc)[i] \in RulesAbout("setCommitRule", p, prefix)}
      /\ DepsRulesOn(p) = {i \in DOMAIN Items(doc) :
                            Items(doc)[i] \in RulesAbout("setFileDeps", p, prefix)}
  BY <1>1, RulePositions DEF RuleApi
<1>8. RulesOn(p) # {} /\ Latest(RulesOn(p)) = x
  BY <1>5, <1>6, <1>7
<1>9. ASSUME file_deps(x, prefix) # <<>>
      PROVE  DepsRulesOn(p) # {} /\ Latest(DepsRulesOn(p)) = x
  <2>1. k \in DepsRulesOn(p)
    BY <1>2, <1>5, <1>9 DEF DepsRulesOn
  <2> QED
    BY <1>6, <1>7, <2>1
<1> QED
  BY <1>8, <1>9

(* What a rule that was written asks for when it is read again.            *)
LEMMA WrittenRuleRead ==
  ASSUME NEW p \in Path, NEW e \in Entry, prefix = EmptyPath,
         NEW x, x = WrittenRule(p, e)
  PROVE  /\ mode(x) = e.fire_rule
         /\ committed(x) = IF e.commit_on_close_count > 0 THEN "on_close"
                           ELSE e.commit_rule
         /\ x.n_close = IF e.commit_on_close_count > 0 THEN e.commit_on_close_count ELSE 0
         /\ committed(x) = "on_file" =>
              /\ DOMAIN file_deps(x, prefix) = DOMAIN e.file_dependencies
              /\ Range(file_deps(x, prefix)) = Range(e.file_dependencies)
<1>1. /\ x.n_close = WrittenCount(e) /\ x.mode = e.fire_rule
      /\ x.committed = IF WrittenCount(e) > 0 THEN "on_close" ELSE e.commit_rule
      /\ x.file_deps = e.file_dependencies
  BY DEF WrittenRule
<1>2. /\ e.commit_on_close_count \in Int /\ e.commit_rule \in AnyCommitRule
      /\ e.fire_rule \in AnyFireRule
  BY DEF Entry
<1>3. WrittenCount(e) > 0 <=> e.commit_on_close_count > 0
  BY <1>2 DEF WrittenCount
<1>4. e.commit_rule # "absent" /\ e.fire_rule # "absent"
  BY <1>2 DEF AnyCommitRule, AnyFireRule, CommitRule, FireRule
<1>5. mode(x) = e.fire_rule /\ committed(x) = x.committed
  BY <1>1, <1>4 DEF mode, committed
<1>6. ASSUME committed(x) = "on_file"
      PROVE  /\ DOMAIN file_deps(x, prefix) = DOMAIN e.file_dependencies
             /\ Range(file_deps(x, prefix)) = Range(e.file_dependencies)
  <2>1. \A q : resolve(q, prefix) = q
    BY NoPrefix
  <2>2. PICK s : s = e.file_dependencies
    OBVIOUS
  <2>3. file_deps(x, prefix) = [i \in DOMAIN s |-> resolve(s[i], prefix)]
    BY <1>1, <1>6, <2>2 DEF file_deps
  <2>4. PICK u : u = file_deps(x, prefix)
    OBVIOUS
  <2>5. DOMAIN u = DOMAIN s /\ \A i \in DOMAIN s : u[i] = s[i]
    BY <2>1, <2>3, <2>4
  <2>6. Range(u) = Range(s)
    BY <2>5 DEF Range
  <2> QED
    BY <2>2, <2>4, <2>5, <2>6
<1>7. x.n_close = IF e.commit_on_close_count > 0 THEN e.commit_on_close_count ELSE 0
  BY <1>1 DEF WrittenCount
<1> QED
  BY <1>1, <1>3, <1>5, <1>6, <1>7

(* What the invariant says of a table that was saved and loaded.           *)
LEMMA SavedComesBack == PInv => SavedIsKept
<1> SUFFICES ASSUME TypeOK, SaveInv, LoadInv, Loaded, saved # NoTable,
                    prefix = EmptyPath
             PROVE  SavedIsKept
  BY DEF PInv, SavedIsKept
<1>1. doc \in Document /\ Tells(doc, saved) /\ saved \in [Path -> Entry \cup {NoEntry}]
  BY DEF SaveInv
<1>2. ASSUME NEW p \in SavedPaths
      PROVE  /\ p \in Path \ {EmptyPath} /\ saved[p] \in Entry /\ saved[p] # NoEntry
             /\ TellsLists(doc, saved, p)
  BY <1>1 DEF SavedPaths, Tells
<1>3. ASSUME NEW p \in SavedPaths
      PROVE  /\ p \in Registered
             /\ ~ memOnly => entries[p].store_in_memory = saved[p].store_in_memory
             /\ saved[p].permanent => entries[p].permanent
             /\ saved[p].excluded => entries[p].excluded
  <2>1. /\ p \in Range(doc.memory) <=> saved[p].store_in_memory
        /\ p \in Range(doc.fs) <=> ~ saved[p].store_in_memory
        /\ saved[p].permanent => p \in Range(doc.permanent)
        /\ saved[p].excluded => p \in Range(doc.exclude)
    BY <1>2 DEF TellsLists
  <2>2. p \in Registered /\ (memOnly \/ (entries[p].store_in_memory <=>
                                           p \notin Range(doc.fs)))
    BY <1>1, <1>2, <2>1, LoadedPlace
  <2>3. entries[p].store_in_memory \in BOOLEAN /\ saved[p].store_in_memory \in BOOLEAN
    <3>1. entries[p] \in Entry
      BY <2>2 DEF Registered, TypeOK
    <3> QED
      BY <1>2, <3>1 DEF Entry
  <2>4. \A s : Named(s, prefix) = Range(s)
    BY NoPrefix
  <2>5. /\ p \in Range(doc.permanent) => entries[p].permanent
        /\ p \in Range(doc.exclude) => entries[p].excluded
    BY <1>1, <1>2, <2>4, LoadedFlags
  <2> QED
    BY <2>1, <2>2, <2>3, <2>5
<1>4. ASSUME NEW p \in SavedPaths, saved[p].producers # <<>>
      PROVE  /\ entries[p].fire_rule = saved[p].fire_rule
             /\ entries[p].commit_rule =
                  IF saved[p].commit_on_close_count > 0 THEN "on_close"
                  ELSE saved[p].commit_rule
             /\ entries[p].commit_on_close_count =
                  IF saved[p].commit_on_close_count > 0
                  THEN saved[p].commit_on_close_count ELSE 0
             /\ entries[p].commit_rule = "on_file" =>
                  Range(saved[p].file_dependencies)
                    \subseteq Range(entries[p].file_dependencies)
  <2>1. PICK x, e, u : /\ e = saved[p] /\ x = WrittenRule(p, saved[p])
                       /\ u = file_deps(WrittenRule(p, saved[p]), prefix)
    OBVIOUS
  <2>2. /\ RulesOn(p) # {} /\ x = Latest(RulesOn(p))
        /\ u # <<>> => DepsRulesOn(p) # {} /\ u = file_deps(Latest(DepsRulesOn(p)), prefix)
    BY <1>4, <2>1, SavedRuleTold
  <2>3. p \in Path \ {EmptyPath} /\ e \in Entry
    BY <1>2, <2>1
  <2>4. /\ entries[p].commit_rule = committed(x) /\ entries[p].fire_rule = mode(x)
        /\ entries[p].commit_on_close_count = x.n_close
        /\ u # <<>> => entries[p].file_dependencies = u
    <3>1. /\ entries[p].commit_rule = committed(Latest(RulesOn(p)))
          /\ entries[p].fire_rule = mode(Latest(RulesOn(p)))
          /\ entries[p].commit_on_close_count = Latest(RulesOn(p)).n_close
      BY <1>1, <2>2, <2>3, LoadedRules
    <3>2. DepsRulesOn(p) # {} =>
            entries[p].file_dependencies = file_deps(Latest(DepsRulesOn(p)), prefix)
      BY <1>1, <2>3, LoadedRules
    <3> QED
      BY <2>2, <3>1, <3>2
  <2>5. /\ mode(x) = e.fire_rule
        /\ committed(x) = IF e.commit_on_close_count > 0 THEN "on_close"
                          ELSE e.commit_rule
        /\ x.n_close = IF e.commit_on_close_count > 0 THEN e.commit_on_close_count
                       ELSE 0
        /\ committed(x) = "on_file" =>
             DOMAIN u = DOMAIN e.file_dependencies /\ Range(u) = Range(e.file_dependencies)
    BY <2>1, <2>2, <2>3, WrittenRuleRead
  <2>6. ASSUME entries[p].commit_rule = "on_file"
        PROVE  Range(e.file_dependencies) \subseteq Range(entries[p].file_dependencies)
    <3>1. Range(u) = Range(e.file_dependencies)
      BY <2>4, <2>5, <2>6
    <3>2. u = <<>> => Range(u) = {}
      BY DEF Range
    <3> QED
      BY <2>4, <3>1, <3>2
  <2> QED
    BY <2>1, <2>4, <2>5, <2>6
<1>5. ASSUME NEW p \in Path \ {EmptyPath}
      PROVE  /\ SavedRoles(Patterns(p), "producers") \subseteq ProducersOf(p)
             /\ SavedRoles(Patterns(p), "consumers") \subseteq ConsumersOf(p)
             /\ \A T \in Closed : p \in T =>
                  /\ ProducersOf(p) \subseteq SavedRoles(T, "producers")
                  /\ ConsumersOf(p) \subseteq SavedRoles(T, "consumers")
  <2>1. /\ WritersOf(Patterns(p)) \subseteq ProducersOf(p)
        /\ ReadersOf(Patterns(p)) \subseteq ConsumersOf(p)
        /\ \A T \in Closed : p \in T => /\ ProducersOf(p) \subseteq WritersOf(T)
                                        /\ ConsumersOf(p) \subseteq ReadersOf(T)
    BY <1>1, LoadedRoles
  <2>2. \A T \in SUBSET Path : /\ SavedRoles(T, "producers") = WritersOf(T)
                               /\ SavedRoles(T, "consumers") = ReadersOf(T)
    BY <1>1, SavedRolesTold
  <2>3. Patterns(p) \in SUBSET Path /\ \A T \in Closed : T \in SUBSET Path
    BY DEF Patterns, Closed
  <2> QED
    BY <2>1, <2>2, <2>3
<1> QED
  BY <1>3, <1>4, <1>5 DEF SavedIsKept

(* What was saved comes back, for every table an engine can get into and   *)
(* every order in which its maps list paths and applications: dump and     *)
(* parse keep every path with its placement, roles and flags, and the rules*)
(* of the paths with a producer (Serializer::dump, Parser::parse).         *)
THEOREM SavedTablesComeBack == PSpec => []SavedIsKept
BY SavedComesBack, PInvInit, PInvStep, PTL DEF PSpec

=============================================================================
