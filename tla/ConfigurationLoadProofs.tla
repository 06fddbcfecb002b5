----------------------- MODULE ConfigurationLoadProofs -----------------------
(***************************************************************************)
(* Proofs about ConfigurationLoad, for any file, any environment in any    *)
(* order, any types of the fields and any limits.                          *)
(*                                                                         *)
(* _set_nested is a loop over the segments of a path.  Loop(t, path, i) is *)
(* the dictionary that i iterations leave; one iteration makes it          *)
(* Loop(t, path, i + 1), and a least iteration at which the recursive      *)
(* function and Loop differ does not exist.                                *)
(***************************************************************************)
EXTENDS ConfigurationLoad, SequenceTheorems, FiniteSetTheorems, WellFoundedInduction, TLAPS

-----------------------------------------------------------------------------
(* Paths.                                                                  *)

Paths == Seq(STRING)

\* A path is a sequence of names.
LEMMA PathValues ==
    ASSUME NEW p \in Paths
    PROVE  /\ Len(p) \in Nat /\ DOMAIN p = 1..Len(p)
           /\ \A i \in DOMAIN p : p[i] \in STRING
           /\ Len(p) = 0 <=> p = <<>>
BY EmptySeq, LenProperties DEF Paths

\* Paths of one length that agree everywhere are the same.
LEMMA PathsEqual ==
    ASSUME NEW p \in Paths, NEW q \in Paths, Len(p) = Len(q),
           \A i \in DOMAIN p : p[i] = q[i]
    PROVE  p = q
BY SeqEqual, PathValues DEF Paths

\* Prefix is a partial order.
LEMMA PrefixOrder ==
    /\ <<>> \in Paths
    /\ \A p \in Paths : Prefix(p, p) /\ Prefix(<<>>, p)
    /\ \A p, q \in Paths : Prefix(p, q) /\ Prefix(q, p) => p = q
    /\ \A p, q, r \in Paths : Prefix(p, q) /\ Prefix(q, r) => Prefix(p, r)
<1>1. <<>> \in Paths  BY EmptySeq DEF Paths
<1>2. \A p \in Paths : Prefix(p, p) /\ Prefix(<<>>, p)
  BY <1>1, PathValues DEF Prefix
<1>3. ASSUME NEW p \in Paths, NEW q \in Paths, Prefix(p, q), Prefix(q, p)
      PROVE  p = q
  <2>1. Len(p) = Len(q)  BY <1>3, PathValues DEF Prefix
  <2>2. QED  BY <1>3, <2>1, PathsEqual DEF Prefix
<1>4. ASSUME NEW p \in Paths, NEW q \in Paths, NEW r \in Paths, Prefix(p, q), Prefix(q, r)
      PROVE  Prefix(p, r)
  BY <1>4, PathValues DEF Prefix
<1>5. QED  BY <1>1, <1>2, <1>3, <1>4

\* Of two beginnings of a path one begins the other.
LEMMA PrefixesRelated ==
    ASSUME NEW p \in Paths, NEW q \in Paths, NEW r \in Paths, Prefix(p, r), Prefix(q, r)
    PROVE  Related(p, q)
BY PathValues DEF Prefix, Related

\* Joining paths.
LEMMA Joined ==
    ASSUME NEW p \in Paths, NEW s \in Paths
    PROVE  /\ p \o s \in Paths
           /\ Prefix(p, p \o s)
           /\ Suffix(p, p \o s) = s
           /\ p \o s = p => s = <<>>
           /\ p \o <<>> = p
<1>1. /\ p \o s \in Paths /\ Len(p \o s) = Len(p) + Len(s)
      /\ \A i \in 1..(Len(p) + Len(s)) :
            (p \o s)[i] = IF i <= Len(p) THEN p[i] ELSE s[i - Len(p)]
  BY ConcatProperties DEF Paths
<1>2. Prefix(p, p \o s)  BY <1>1, PathValues DEF Prefix
<1>3. Suffix(p, p \o s) = s
  <2>1. PICK w : w = p \o s  OBVIOUS
  <2> DEFINE m == Len(p) + 1
             n == Len(w)
             u == SubSeq(w, m, n)
  <2>2. m \in Int /\ n \in Int /\ n - m + 1 = Len(s) /\ Len(s) \in Nat
    BY <1>1, <2>1, PathValues
  <2>3. \A i \in m..n : w[i] \in STRING  BY <1>1, <2>1, PathValues
  <2>4. \A i \in 1..Len(s) : w[m + i - 1] = s[i]  BY <1>1, <2>1, PathValues
  <2> HIDE DEF m, n
  <2>5. /\ u \in Paths
        /\ Len(u) = IF m <= n THEN n - m + 1 ELSE 0
        /\ \A i \in 1..(n - m + 1) : u[i] = w[m + i - 1]
    BY <2>2, <2>3, SubSeqProperties DEF Paths
  <2>6. Len(u) = Len(s)  BY <2>2, <2>5
  <2>7. \A i \in 1..Len(s) : u[i] = s[i]  BY <2>2, <2>4, <2>5
  <2>8. u = s  BY <2>5, <2>6, <2>7, PathsEqual, PathValues
  <2>9. QED  BY <2>1, <2>8 DEF Suffix, m, n
<1>4. p \o s = p => s = <<>>  BY <1>1, PathValues
<1>5. p \o <<>> = p  BY ConcatEmptySeq DEF Paths
<1>6. QED  BY <1>1, <1>2, <1>3, <1>4, <1>5

\* A path that begins with p is p and a rest.
LEMMA Split ==
    ASSUME NEW p \in Paths, NEW q \in Paths, Prefix(p, q)
    PROVE  Suffix(p, q) \in Paths /\ q = p \o Suffix(p, q)
<1> DEFINE s == Suffix(p, q)
           m == Len(p) + 1
           n == Len(q)
<1>1. /\ m \in Int /\ n \in Int /\ Len(p) <= n /\ Len(p) \in Nat
      /\ \A i \in m..n : q[i] \in STRING
  BY PathValues DEF Prefix
<1>2. /\ s \in Paths
      /\ Len(s) = IF m <= n THEN n - m + 1 ELSE 0
      /\ \A i \in 1..(n - m + 1) : s[i] = q[m + i - 1]
  BY <1>1, SubSeqProperties DEF Paths, Suffix
<1>3. Len(s) = n - Len(p)  BY <1>1, <1>2
<1> HIDE DEF s
<1>4. /\ p \o s \in Paths /\ Len(p \o s) = Len(p) + Len(s)
      /\ \A i \in 1..(Len(p) + Len(s)) :
            (p \o s)[i] = IF i <= Len(p) THEN p[i] ELSE s[i - Len(p)]
  BY <1>2, ConcatProperties DEF Paths
<1>5. Len(p \o s) = Len(q)  BY <1>1, <1>3, <1>4
<1>6. ASSUME NEW i \in 1..Len(q)
      PROVE  (p \o s)[i] = q[i]
  <2>1. CASE i <= Len(p)  BY <1>1, <1>3, <1>4, <2>1, PathValues DEF Prefix
  <2>2. CASE ~(i <= Len(p))
    <3>1. i - Len(p) \in 1..(n - m + 1) /\ m + (i - Len(p)) - 1 = i
      BY <1>1, <2>2, PathValues
    <3>2. s[i - Len(p)] = q[i]  BY <1>2, <3>1
    <3>3. QED  BY <1>1, <1>3, <1>4, <2>2, <3>2
  <2>3. QED  BY <2>1, <2>2
<1>7. p \o s = q  BY <1>4, <1>5, <1>6, PathsEqual, PathValues
<1>8. QED  BY <1>2, <1>7 DEF s

\* What follows a common beginning decides which path begins which.
LEMMA JoinedPrefixes ==
    ASSUME NEW p \in Paths, NEW s \in Paths, NEW u \in Paths
    PROVE  /\ Prefix(p \o s, p \o u) <=> Prefix(s, u)
           /\ p \o s = p \o u => s = u
<1>1. /\ Len(p \o s) = Len(p) + Len(s)
      /\ \A i \in 1..(Len(p) + Len(s)) :
            (p \o s)[i] = IF i <= Len(p) THEN p[i] ELSE s[i - Len(p)]
      /\ p \o s \in Paths
  BY ConcatProperties DEF Paths
<1>2. /\ Len(p \o u) = Len(p) + Len(u)
      /\ \A i \in 1..(Len(p) + Len(u)) :
            (p \o u)[i] = IF i <= Len(p) THEN p[i] ELSE u[i - Len(p)]
  BY ConcatProperties DEF Paths
<1>3. Len(p) \in Nat /\ Len(s) \in Nat /\ Len(u) \in Nat  BY PathValues
<1>4. DOMAIN (p \o s) = 1..(Len(p) + Len(s)) /\ DOMAIN s = 1..Len(s)
  BY <1>1, PathValues
<1>5. ASSUME Prefix(p \o s, p \o u)  PROVE Prefix(s, u)
  <2>1. Len(s) <= Len(u)  BY <1>1, <1>2, <1>3, <1>5 DEF Prefix
  <2>2. ASSUME NEW i \in 1..Len(s)  PROVE s[i] = u[i]
    <3>1. /\ i + Len(p) \in 1..(Len(p) + Len(s)) /\ i + Len(p) \in 1..(Len(p) + Len(u))
          /\ (i + Len(p)) - Len(p) = i /\ ~(i + Len(p) <= Len(p))
      BY <1>3, <2>1
    <3>2. (p \o s)[i + Len(p)] = s[i] /\ (p \o u)[i + Len(p)] = u[i]
      BY <1>1, <1>2, <3>1
    <3>3. QED  BY <1>4, <1>5, <3>1, <3>2 DEF Prefix
  <2>3. QED  BY <1>4, <2>1, <2>2 DEF Prefix
<1>6. ASSUME Prefix(s, u)  PROVE Prefix(p \o s, p \o u)
  <2>1. Len(s) <= Len(u)  BY <1>6 DEF Prefix
  <2>2. ASSUME NEW i \in 1..(Len(p) + Len(s))  PROVE (p \o s)[i] = (p \o u)[i]
    <3>1. i \in 1..(Len(p) + Len(u))  BY <1>3, <2>1
    <3>2. ~(i <= Len(p)) => i - Len(p) \in 1..Len(s)  BY <1>3
    <3>3. ~(i <= Len(p)) => s[i - Len(p)] = u[i - Len(p)]  BY <1>4, <1>6, <3>2 DEF Prefix
    <3>4. QED  BY <1>1, <1>2, <3>1, <3>3
  <2>3. QED  BY <1>1, <1>2, <1>3, <1>4, <2>1, <2>2 DEF Prefix
<1>7. ASSUME p \o s = p \o u  PROVE s = u
  <2>1. Suffix(p, p \o s) = s /\ Suffix(p, p \o u) = u  BY Joined
  <2>2. QED  BY <1>7, <2>1
<1>8. QED  BY <1>5, <1>6, <1>7

\* The beginnings of a path, by their length.
LEMMA Beginnings ==
    ASSUME NEW p \in Paths, NEW i \in 0..Len(p)
    PROVE  /\ SubSeq(p, 1, i) \in Paths
           /\ Len(SubSeq(p, 1, i)) = i
           /\ Prefix(SubSeq(p, 1, i), p)
           /\ \A q \in Paths : Prefix(q, p) /\ Len(q) = i => q = SubSeq(p, 1, i)
<1> DEFINE s == SubSeq(p, 1, i)
<1>1. i \in Int /\ i >= 0 /\ i <= Len(p) /\ \A j \in 1..i : p[j] \in STRING
  BY PathValues
<1>2. /\ s \in Paths
      /\ Len(s) = IF 1 <= i THEN i - 1 + 1 ELSE 0
      /\ \A j \in 1..(i - 1 + 1) : s[j] = p[1 + j - 1]
  BY <1>1, SubSeqProperties DEF Paths
<1> HIDE DEF s
<1>3. Len(s) = i /\ \A j \in 1..i : s[j] = p[j]  BY <1>1, <1>2
<1>4. Prefix(s, p)  BY <1>1, <1>2, <1>3, PathValues DEF Prefix
<1>5. ASSUME NEW q \in Paths, Prefix(q, p), Len(q) = i
      PROVE  q = s
  BY <1>2, <1>3, <1>5, PathsEqual, PathValues DEF Prefix
<1>6. QED  BY <1>2, <1>3, <1>4, <1>5 DEF s

-----------------------------------------------------------------------------
(* Dictionaries and _set_nested.                                           *)

\* Above an entry are dictionaries.
LEMMA TreeAbove ==
    ASSUME NEW t, IsTree(t)
    PROVE  /\ DOMAIN t \subseteq Paths
           /\ \A q \in DOMAIN t : \A p \in Paths :
                 Prefix(p, q) /\ p # q => p \in DOMAIN t /\ t[p] = Folder
<1>1. DOMAIN t \subseteq Paths  BY DEF IsTree, Paths
<1>2. ASSUME NEW q \in DOMAIN t, NEW p \in Paths, Prefix(p, q), p # q
      PROVE  p \in DOMAIN t /\ t[p] = Folder
  <2>1. q \in Paths  BY <1>1
  <2>2. Len(p) <= Len(q) /\ Len(p) \in Nat /\ Len(q) \in Nat
    BY <1>2, <2>1, PathValues DEF Prefix
  <2>3. Len(p) # Len(q)  BY <1>2, <2>1, PathsEqual DEF Prefix
  <2>4. p = SubSeq(q, 1, Len(p))  BY <1>2, <2>1, <2>2, Beginnings
  <2>5. Len(p) \in 0..(Len(q) - 1)  BY <2>2, <2>3
  <2>6. QED  BY <2>4, <2>5 DEF IsTree
<1>3. QED  BY <1>1, <1>2

\* A function of paths in which that is so is a tree.
LEMMA TreeMade ==
    ASSUME NEW t, t = [p \in DOMAIN t |-> t[p]], DOMAIN t \subseteq Paths, <<>> \in DOMAIN t,
           \A q \in DOMAIN t : \A p \in Paths :
              Prefix(p, q) /\ p # q => p \in DOMAIN t /\ t[p] = Folder
    PROVE  IsTree(t)
<1>1. ASSUME NEW q \in DOMAIN t, NEW i \in 0..(Len(q) - 1)
      PROVE  SubSeq(q, 1, i) \in DOMAIN t /\ t[SubSeq(q, 1, i)] = Folder
  <2>1. q \in Paths /\ i \in 0..Len(q) /\ i # Len(q)  BY PathValues
  <2>2. /\ SubSeq(q, 1, i) \in Paths /\ Prefix(SubSeq(q, 1, i), q)
        /\ Len(SubSeq(q, 1, i)) = i
    BY <2>1, Beginnings
  <2>3. SubSeq(q, 1, i) # q  BY <2>1, <2>2
  <2>4. QED  BY <2>2, <2>3
<1>2. QED  BY <1>1 DEF IsTree, Paths

\* A set of numbers that is not empty has a least one.
LEMMA LeastExists ==
    ASSUME NEW S \in SUBSET Nat, S # {}
    PROVE  \E m \in S : \A n \in S : m <= n
<1> DEFINE Less == {p \in Nat \X Nat : p[1] < p[2]}
<1>1. IsWellFoundedOn(Less, Nat)  BY NatLessThanWellFounded DEF OpToRel
<1>2. PICK m \in S : \A n \in S : <<n, m>> \notin Less  BY <1>1, WFMin
<1>3. ASSUME NEW n \in S  PROVE m <= n
  <2>1. m \in Nat /\ n \in Nat /\ <<n, m>> \notin Less  BY <1>2
  <2>2. ~(n < m)  BY <2>1
  <2>3. QED  BY <2>1, <2>2
<1>4. QED  BY <1>3

\* The beginnings of a path, but for the path itself, that are at most so long.
Above(path, i) == {q \in Paths : Prefix(q, path) /\ Len(q) <= i}

\* A dictionary after i iterations of the loop of _set_nested.
Loop(t, path, i) ==
    [q \in DOMAIN t \union Above(path, i) |-> IF q \in Above(path, i) THEN Folder ELSE t[q]]

\* An iteration makes a dictionary of one more beginning of the path.
LEMMA LoopStep ==
    ASSUME NEW t, IsDict(t), NEW path \in Paths, NEW i \in 1..(Len(path) - 1)
    PROVE  LET at == SubSeq(path, 1, i) IN
           Loop(t, path, i) =
             IF at \in DOMAIN Loop(t, path, i - 1) /\ Loop(t, path, i - 1)[at] = Folder
             THEN Loop(t, path, i - 1) ELSE Put(Loop(t, path, i - 1), at, EmptyDict)
<1> DEFINE at == SubSeq(path, 1, i)
           before == Loop(t, path, i - 1)
           after == Loop(t, path, i)
<1>1. Len(path) \in Nat /\ i \in Nat /\ i \in 0..Len(path)  BY PathValues
<1>2. /\ at \in Paths /\ Len(at) = i /\ Prefix(at, path)
      /\ \A q \in Paths : Prefix(q, path) /\ Len(q) = i => q = at
  BY <1>1, Beginnings
<1> HIDE DEF at
<1>3. Above(path, i) = Above(path, i - 1) \union {at} /\ at \notin Above(path, i - 1)
  BY <1>1, <1>2, PathValues DEF Above
<1>4. /\ DOMAIN before = DOMAIN t \union Above(path, i - 1)
      /\ DOMAIN after = DOMAIN t \union Above(path, i)
  BY DEF Loop
<1>5. CASE at \in DOMAIN before /\ before[at] = Folder
  <2>1. at \in DOMAIN t /\ t[at] = Folder  BY <1>3, <1>4, <1>5 DEF Loop
  <2>2. DOMAIN before = DOMAIN after  BY <1>3, <1>4, <2>1
  <2>3. after = before  BY <1>3, <1>4, <2>1, <2>2 DEF Loop
  <2>4. QED  BY <1>5, <2>3 DEF at
<1>6. CASE ~(at \in DOMAIN before /\ before[at] = Folder)
  <2>1. ASSUME NEW q \in DOMAIN before, Prefix(at, q)
        PROVE  q = at
    <3>1. CASE q \in Above(path, i - 1)
      <4>1. Len(q) <= i - 1 /\ q \in Paths  BY <3>1 DEF Above
      <4>2. QED  BY <1>1, <1>2, <2>1, <4>1, PathValues DEF Prefix
    <3>2. CASE q \in DOMAIN t
      <4>1. q # at => at \in DOMAIN t /\ t[at] = Folder
        BY <1>2, <2>1, <3>2, TreeAbove DEF IsDict
      <4>2. at \in DOMAIN t /\ t[at] = Folder => before[at] = Folder  BY <1>3 DEF Loop
      <4>3. QED  BY <1>4, <1>6, <4>1, <4>2
    <3>3. QED  BY <1>4, <2>1, <3>1, <3>2
  <2> DEFINE put == Put(before, at, EmptyDict)
  <2>2. /\ DOMAIN EmptyDict = {<<>>} /\ EmptyDict[<<>>] = Folder
        /\ at \o <<>> = at /\ Suffix(at, at) = <<>> /\ Prefix(at, at)
    BY <1>2, Joined, PrefixOrder DEF EmptyDict, Leaf
  <2>3. {at \o s : s \in DOMAIN EmptyDict} = {at}  BY <2>2
  <2>4. {q \in DOMAIN before : ~Prefix(at, q)} \union {at} = DOMAIN before \union {at}
    BY <2>1, <2>2
  <2>5. put = [q \in DOMAIN before \union {at} |->
                 IF Prefix(at, q) THEN EmptyDict[Suffix(at, q)] ELSE before[q]]
    BY <2>3, <2>4 DEF Put
  <2>6. DOMAIN after = DOMAIN before \union {at}  BY <1>3, <1>4
  <2>7. ASSUME NEW q \in DOMAIN before \union {at}
        PROVE  after[q] = IF Prefix(at, q) THEN EmptyDict[Suffix(at, q)] ELSE before[q]
    <3>1. CASE q = at
      <4>1. after[at] = Folder  BY <1>3, <1>4 DEF Loop
      <4>2. QED  BY <2>2, <3>1, <4>1
    <3>2. CASE q # at
      <4>1. q \in DOMAIN before /\ ~Prefix(at, q)  BY <2>1, <3>2
      <4>2. after[q] = before[q]  BY <1>3, <1>4, <3>2, <4>1 DEF Loop
      <4>3. QED  BY <4>1, <4>2
    <3>3. QED  BY <3>1, <3>2
  <2>8. after = [q \in DOMAIN before \union {at} |-> after[q]]  BY <2>6 DEF Loop
  <2> HIDE DEF before, after, put
  <2>9. after = put  BY <2>5, <2>7, <2>8
  <2>10. QED  BY <1>6, <2>9 DEF at, before, after, put
<1>7. QED  BY <1>5, <1>6 DEF at

\* The loop makes a dictionary of every beginning of the path, and leaves the rest.
LEMMA OpenedShape ==
    ASSUME NEW t, IsDict(t), NEW path \in Paths, path # <<>>
    PROVE  Opened(t, path) = Loop(t, path, Len(path) - 1)
<1> DEFINE n == Len(path) - 1
           Body(f, i) == IF i = 0 THEN t
                         ELSE LET at == SubSeq(path, 1, i) IN
                              IF at \in DOMAIN f[i - 1] /\ f[i - 1][at] = Folder THEN f[i - 1]
                              ELSE Put(f[i - 1], at, EmptyDict)
           opened == CHOOSE f : f = [i \in 0..n |-> Body(f, i)]
           loop == [i \in 0..n |-> Loop(t, path, i)]
<1>1. n \in Nat  BY PathValues
<1>2. Loop(t, path, 0) = t
  <2>1. Above(path, 0) = {<<>>}  BY PrefixOrder, PathValues DEF Above
  <2>2. QED  BY <2>1 DEF Loop, IsDict, IsTree
<1>3. \A i \in 1..n : i - 1 \in 0..n /\ loop[i - 1] = Loop(t, path, i - 1)  BY <1>1
<1>4. ASSUME NEW i \in 0..n  PROVE Loop(t, path, i) = Body(loop, i)
  <2>1. CASE i = 0  BY <1>2, <2>1
  <2>2. CASE i # 0
    <3>1. i \in 1..(Len(path) - 1)  BY <1>1, <2>2
    <3>2. QED  BY <1>3, <2>2, <3>1, LoopStep
  <2>3. QED  BY <2>1, <2>2
<1> HIDE DEF loop
<1>5. loop = [i \in 0..n |-> Body(loop, i)]  BY <1>4 DEF loop
<1>6. opened = [i \in 0..n |-> Body(opened, i)]
  <2> HIDE DEF Body
  <2>1. \E f : f = [i \in 0..n |-> Body(f, i)]  BY <1>5
  <2>2. QED  BY <2>1
<1> HIDE DEF opened
<1>7. \A i \in 0..n : opened[i] = loop[i]
  <2> DEFINE Wrong == {i \in 0..n : opened[i] # loop[i]}
  <2>1. SUFFICES ASSUME Wrong # {}  PROVE FALSE  OBVIOUS
  <2>2. PICK m \in Wrong : \A k \in Wrong : m <= k
    <3>1. Wrong \subseteq Nat  BY <1>1
    <3> HIDE DEF Wrong
    <3>2. QED  BY <2>1, <3>1, LeastExists
  <2>3. opened[m] = Body(opened, m) /\ loop[m] = Body(loop, m)  BY <1>5, <1>6, <2>2
  <2>4. m # 0 => opened[m - 1] = loop[m - 1]
    <3>1. m # 0 => m - 1 \in 0..n /\ ~(m <= m - 1)  BY <1>1, <2>2
    <3>2. QED  BY <2>2, <3>1
  <2>5. opened[m] = loop[m]  BY <2>3, <2>4
  <2>6. QED  BY <2>2, <2>5
<1>8. n \in 0..n  BY <1>1
<1>9. opened[n] = Loop(t, path, n)  BY <1>7, <1>8 DEF loop
<1>10. Opened(t, path) = opened[n]  BY DEF Opened, opened
<1>11. QED  BY <1>9, <1>10

\* The entries of a dictionary in which a value was set.
Entries(t, path, v) ==
    {q \in DOMAIN t : ~Related(path, q)} \union {q \in Paths : Prefix(q, path) /\ q # path}
    \union {path \o s : s \in DOMAIN v}

\* They are paths, and the path is one of them.
LEMMA EntriesArePaths ==
    ASSUME NEW t, IsDict(t), NEW path \in Paths, NEW v, IsTree(v)
    PROVE  Entries(t, path, v) \subseteq Paths /\ path \in Entries(t, path, v)
<1>1. DOMAIN t \subseteq Paths /\ DOMAIN v \subseteq Paths /\ <<>> \in DOMAIN v
  BY TreeAbove DEF IsDict, IsTree
<1>2. \A s \in DOMAIN v : path \o s \in Paths  BY <1>1, Joined
<1>3. path \o <<>> = path  BY <1>1, Joined
<1>4. path \in {path \o s : s \in DOMAIN v}  BY <1>1, <1>3
<1>5. QED  BY <1>1, <1>2, <1>4 DEF Entries

\* What _set_nested leaves: above the path dictionaries, at and below it what was set,
\* elsewhere what there was.
LEMMA SetNestedShape ==
    ASSUME NEW t, IsDict(t), NEW path \in Paths, path # <<>>, NEW v, IsTree(v)
    PROVE  LET r == SetNested(t, path, v) IN
           /\ r = [q \in Entries(t, path, v) |-> r[q]]
           /\ \A q \in Paths : Prefix(q, path) /\ q # path => r[q] = Folder
           /\ \A s \in DOMAIN v : r[path \o s] = v[s]
           /\ \A q \in DOMAIN t : ~Related(path, q) => r[q] = t[q]
<1> DEFINE r == SetNested(t, path, v)
           above == {q \in Paths : Prefix(q, path) /\ q # path}
           o == Loop(t, path, Len(path) - 1)
           kept == {q \in DOMAIN o : ~Prefix(path, q)}
           new == {path \o s : s \in DOMAIN v}
<1>1. Above(path, Len(path) - 1) = above
  <2>1. ASSUME NEW q \in Paths, Prefix(q, path)
        PROVE  Len(q) <= Len(path) - 1 <=> q # path
    <3>1. Len(q) <= Len(path) /\ Len(q) \in Nat /\ Len(path) \in Nat
      BY <2>1, PathValues DEF Prefix
    <3>2. Len(q) = Len(path) => q = path  BY <2>1, PathsEqual DEF Prefix
    <3>3. QED  BY <3>1, <3>2
  <2>2. QED  BY <2>1 DEF Above
<1>2. r = [q \in kept \union new |-> IF Prefix(path, q) THEN v[Suffix(path, q)] ELSE o[q]]
  BY OpenedShape DEF SetNested, Put
<1>3. /\ DOMAIN o = DOMAIN t \union above
      /\ \A q \in above : o[q] = Folder
      /\ \A q \in DOMAIN t : q \notin above => o[q] = t[q]
  BY <1>1 DEF Loop
<1>4. DOMAIN t \subseteq Paths /\ DOMAIN v \subseteq Paths  BY TreeAbove DEF IsDict
<1>5. kept = {q \in DOMAIN t : ~Related(path, q)} \union above
  <2>1. ASSUME NEW q \in above  PROVE ~Prefix(path, q)  BY PrefixOrder
  <2>2. ASSUME NEW q \in DOMAIN t, ~Prefix(path, q), q \notin above
        PROVE  ~Related(path, q)
    BY <1>4, <2>2, PrefixOrder DEF Related
  <2>3. QED  BY <1>3, <2>1, <2>2 DEF Related
<1>6. kept \union new = Entries(t, path, v)  BY <1>5 DEF Entries
<1>7. ASSUME NEW q \in Paths, Prefix(q, path), q # path
      PROVE  r[q] = Folder
  <2>1. q \in above /\ ~Prefix(path, q)  BY <1>7, PrefixOrder
  <2>2. q \in kept  BY <1>3, <2>1
  <2>3. QED  BY <1>2, <1>3, <2>1, <2>2
<1>8. ASSUME NEW s \in DOMAIN v
      PROVE  r[path \o s] = v[s]
  <2>1. Prefix(path, path \o s) /\ Suffix(path, path \o s) = s  BY <1>4, Joined
  <2>2. path \o s \in new  OBVIOUS
  <2>3. QED  BY <1>2, <2>1, <2>2
<1>9. ASSUME NEW q \in DOMAIN t, ~Related(path, q)
      PROVE  r[q] = t[q]
  <2>1. ~Prefix(path, q) /\ q \notin above /\ q \in kept  BY <1>3, <1>9 DEF Related
  <2>2. QED  BY <1>2, <1>3, <2>1
<1> HIDE DEF r, kept, new, o
<1>10. r = [q \in Entries(t, path, v) |-> r[q]]  BY <1>2, <1>6
<1>11. QED  BY <1>7, <1>8, <1>9, <1>10 DEF r

\* _set_nested makes a dictionary of a dictionary.
LEMMA SetNestedDict ==
    ASSUME NEW t, IsDict(t), NEW path \in Paths, path # <<>>, NEW v, IsTree(v)
    PROVE  IsDict(SetNested(t, path, v))
<1> DEFINE r == SetNested(t, path, v)
<1>1. /\ r = [q \in Entries(t, path, v) |-> r[q]]
      /\ \A q \in Paths : Prefix(q, path) /\ q # path => r[q] = Folder
      /\ \A s \in DOMAIN v : r[path \o s] = v[s]
      /\ \A q \in DOMAIN t : ~Related(path, q) => r[q] = t[q]
  BY SetNestedShape
<1> HIDE DEF r
<1>2. DOMAIN r = Entries(t, path, v)  BY <1>1
<1>3. /\ DOMAIN t \subseteq Paths /\ DOMAIN v \subseteq Paths
      /\ IsTree(t)
  BY TreeAbove DEF IsDict
<1>4. DOMAIN r \subseteq Paths  BY <1>2, EntriesArePaths
<1>5. <<>> \in DOMAIN r /\ r[<<>>] = Folder  BY <1>1, <1>2, PrefixOrder DEF Entries
<1>6. ASSUME NEW q \in DOMAIN r, NEW p \in Paths, Prefix(p, q), p # q
      PROVE  p \in DOMAIN r /\ r[p] = Folder
  <2>1. CASE Prefix(p, path) /\ p # path  BY <1>1, <1>2, <2>1 DEF Entries
  <2>2. CASE ~(Prefix(p, path) /\ p # path) /\ q \in DOMAIN t /\ ~Related(path, q)
    <3>1. p \in DOMAIN t /\ t[p] = Folder  BY <1>3, <1>6, <2>2, TreeAbove
    <3>2. ~Related(path, p)
      <4>1. ~Prefix(path, p)  BY <1>3, <1>6, <2>2, PrefixOrder DEF Related
      <4>2. QED  BY <2>2, <4>1, PrefixOrder DEF Related
    <3>3. QED  BY <1>1, <1>2, <3>1, <3>2 DEF Entries
  <2>3. CASE ~(Prefix(p, path) /\ p # path) /\ Prefix(q, path)
    <3>1. Prefix(p, path)  BY <1>4, <1>6, <2>3, PrefixOrder
    <3>2. p = path  BY <2>3, <3>1
    <3>3. QED  BY <1>4, <1>6, <2>3, <3>2, PrefixOrder
  <2>4. ASSUME ~(Prefix(p, path) /\ p # path), NEW s \in DOMAIN v, q = path \o s
        PROVE  p \in DOMAIN r /\ r[p] = Folder
    <3>1. Prefix(path, q)  BY <1>3, <2>4, Joined
    <3>2. Prefix(path, p)
      BY <1>4, <1>6, <2>4, <3>1, PrefixesRelated, PrefixOrder DEF Related
    <3>3. PICK u \in Paths : p = path \o u  BY <3>2, Split
    <3>4. Prefix(u, s) /\ u # s  BY <1>3, <1>6, <2>4, <3>3, JoinedPrefixes
    <3>5. u \in DOMAIN v /\ v[u] = Folder  BY <3>4, TreeAbove
    <3>6. QED  BY <1>1, <1>2, <3>3, <3>5 DEF Entries
  <2>5. QED  BY <1>2, <2>1, <2>2, <2>3, <2>4 DEF Entries
<1>7. IsTree(r)  BY <1>1, <1>2, <1>4, <1>5, <1>6, TreeMade
<1>8. QED  BY <1>5, <1>7 DEF IsDict, r

\* What _set_nested makes of the settings of a dictionary, however deep the path and
\* whatever stands in its way: those that were there and are neither above nor below the
\* path stay, and the new ones are added.
THEOREM SetNestedLeaves ==
    ASSUME NEW t, IsDict(t), NEW path \in Paths, path # <<>>, NEW v, IsTree(v)
    PROVE  Leaves(SetNested(t, path, v)) =
             {s \in Leaves(t) : ~Related(path, s[1])}
             \union {<<path \o leaf[1], leaf[2]>> : leaf \in Leaves(v)}
<1> DEFINE r == SetNested(t, path, v)
           IsLeaf(f, p) == f[p] = Folder => \A q \in DOMAIN f : Prefix(p, q) => q = p
<1>1. /\ r = [q \in Entries(t, path, v) |-> r[q]]
      /\ \A q \in Paths : Prefix(q, path) /\ q # path => r[q] = Folder
      /\ \A s \in DOMAIN v : r[path \o s] = v[s]
      /\ \A q \in DOMAIN t : ~Related(path, q) => r[q] = t[q]
  BY SetNestedShape
<1>2. /\ Leaves(r) = {<<p, r[p]>> : p \in {p \in DOMAIN r : IsLeaf(r, p)}}
      /\ Leaves(t) = {<<p, t[p]>> : p \in {p \in DOMAIN t : IsLeaf(t, p)}}
      /\ Leaves(v) = {<<p, v[p]>> : p \in {p \in DOMAIN v : IsLeaf(v, p)}}
  BY DEF Leaves
<1> HIDE DEF r
<1>3. DOMAIN r = Entries(t, path, v)  BY <1>1
<1>4. DOMAIN t \subseteq Paths /\ DOMAIN v \subseteq Paths /\ <<>> \in DOMAIN v
  BY TreeAbove DEF IsDict, IsTree
<1>5. DOMAIN r \subseteq Paths  BY <1>3, EntriesArePaths
<1>6. ASSUME NEW q \in Paths, Prefix(q, path), q # path
      PROVE  ~IsLeaf(r, q)
  <2>1. path \in DOMAIN r  BY <1>3, EntriesArePaths
  <2>2. QED  BY <1>1, <1>6, <2>1
<1>7. ASSUME NEW q \in DOMAIN t, ~Related(path, q)
      PROVE  q \in DOMAIN r /\ r[q] = t[q] /\ (IsLeaf(r, q) <=> IsLeaf(t, q))
  <2>1. q \in DOMAIN r /\ r[q] = t[q]  BY <1>1, <1>3, <1>7 DEF Entries
  <2>2. ASSUME NEW u \in Paths, Prefix(q, u)
        PROVE  u \in DOMAIN r <=> u \in DOMAIN t
    <3>1. ~Related(path, u)
      BY <1>4, <1>7, <2>2, PrefixesRelated, PrefixOrder DEF Related
    <3>2. \A s \in DOMAIN v : u # path \o s  BY <1>4, <3>1, Joined DEF Related
    <3>3. QED  BY <1>3, <3>1, <3>2 DEF Entries, Related
  <2>3. QED  BY <1>4, <1>5, <2>1, <2>2
<1>8. ASSUME NEW s \in DOMAIN v
      PROVE  /\ path \o s \in DOMAIN r /\ r[path \o s] = v[s]
             /\ IsLeaf(r, path \o s) <=> IsLeaf(v, s)
  <2>1. path \o s \in DOMAIN r /\ r[path \o s] = v[s]  BY <1>1, <1>3 DEF Entries
  <2>2. ASSUME NEW u \in DOMAIN r, Prefix(path \o s, u)
        PROVE  \E x \in DOMAIN v : u = path \o x
    <3>1. Prefix(path, u)  BY <1>4, <1>5, <2>2, Joined, PrefixOrder
    <3>2. ~(Prefix(u, path) /\ u # path) /\ Related(path, u)
      BY <1>5, <3>1, PrefixOrder DEF Related
    <3>3. QED  BY <1>3, <3>2 DEF Entries
  <2>3. ASSUME NEW x \in DOMAIN v
        PROVE  /\ path \o x \in DOMAIN r
               /\ Prefix(path \o s, path \o x) <=> Prefix(s, x)
               /\ path \o x = path \o s <=> x = s
    BY <1>3, <1>4, JoinedPrefixes DEF Entries
  <2>4. QED  BY <2>1, <2>2, <2>3
<1> HIDE DEF IsLeaf
<1>9. ASSUME NEW q \in DOMAIN r, IsLeaf(r, q)
      PROVE  \/ <<q, r[q]>> \in {s \in Leaves(t) : ~Related(path, s[1])}
             \/ <<q, r[q]>> \in {<<path \o leaf[1], leaf[2]>> : leaf \in Leaves(v)}
  <2>1. CASE q \in DOMAIN t /\ ~Related(path, q)
    <3>1. <<q, r[q]>> \in Leaves(t)  BY <1>2, <1>7, <1>9, <2>1
    <3>2. QED  BY <2>1, <3>1
  <2>2. ASSUME NEW s \in DOMAIN v, q = path \o s
        PROVE  <<q, r[q]>> \in {<<path \o leaf[1], leaf[2]>> : leaf \in Leaves(v)}
    <3>1. <<s, v[s]>> \in Leaves(v)  BY <1>2, <1>8, <1>9, <2>2
    <3>2. QED  BY <1>8, <2>2, <3>1
  <2>3. QED  BY <1>3, <1>6, <1>9, <2>1, <2>2 DEF Entries
<1>10. ASSUME NEW s \in Leaves(t), ~Related(path, s[1])
       PROVE  s \in Leaves(r)
  <2>1. PICK q \in DOMAIN t : IsLeaf(t, q) /\ s = <<q, t[q]>>  BY <1>2
  <2>2. QED  BY <1>2, <1>7, <1>10, <2>1
<1>11. ASSUME NEW leaf \in Leaves(v)
       PROVE  <<path \o leaf[1], leaf[2]>> \in Leaves(r)
  <2>1. PICK s \in DOMAIN v : IsLeaf(v, s) /\ leaf = <<s, v[s]>>  BY <1>2
  <2>2. QED  BY <1>2, <1>8, <2>1
<1>12. QED  BY <1>2, <1>9, <1>10, <1>11 DEF r

-----------------------------------------------------------------------------
(* What load_config makes of the environment.                              *)

\* A value by itself is a tree.
LEMMA LeafIsTree == \A node : IsTree(Leaf(node))
<1>1. ASSUME NEW node  PROVE IsTree(Leaf(node))
  <2>1. DOMAIN Leaf(node) = {<<>>} /\ Leaf(node) = [p \in DOMAIN Leaf(node) |-> Leaf(node)[p]]
    BY DEF Leaf
  <2>2. \A q \in {<<>>} : \A p \in Paths : Prefix(p, q) => p = q  BY PrefixOrder
  <2> HIDE DEF Leaf
  <2>3. QED  BY <2>1, <2>2, PrefixOrder, TreeMade
<1>2. QED  BY <1>1

\* Parsing gives a tree, whatever the type of the field is.
LEMMA ParsedIsTree ==
    ASSUME NEW path, NEW v, IsTree(v.json), IsTree(v.items)
    PROVE  IsTree(Parsed(path, v))
<1>1. \A x : IsTree(Text(x)) /\ IsTree(Leaf(Number(x)))  BY LeafIsTree DEF Text
<1>2. \A t : IsTree(t) => IsTree(Json(v, t))  BY <1>1 DEF Json, TooLarge
<1> DEFINE type == ResolveFieldType(path)
<1> HIDE DEF type
<1>3. IsTree(CoerceToType(v, type))  BY <1>1, <1>2 DEF CoerceToType
<1>4. IsTree(ParseEnvValue(v, type))  BY <1>1, <1>2, <1>3 DEF ParseEnvValue
<1>5. QED  BY <1>4 DEF Parsed, type

\* A path in lower case is a path.
LEMMA LoweredIsPath ==
    ASSUME NEW x \in Variables
    PROVE  Lowered(x) \in Paths \ {<<>>}
<1>1. /\ x.path \in Seq(DOMAIN Lower) /\ x.path # <<>>
      /\ \A k \in DOMAIN Lower : Lower[k] \in STRING
  BY LoadAssumption
<1>2. PICK n \in Nat : x.path \in [1..n -> DOMAIN Lower]  BY <1>1, SeqDef
<1>3. Lowered(x) \in [1..n -> STRING]  BY <1>1, <1>2 DEF Lowered
<1>4. Lowered(x) \in Paths  BY <1>3, SeqDef DEF Paths
<1>5. n # 0
  <2>1. Len(x.path) = n  BY <1>1, <1>2
  <2>2. QED  BY <1>1, <2>1, EmptySeq
<1>6. DOMAIN Lowered(x) # {}  BY <1>3, <1>5
<1>7. QED  BY <1>4, <1>6

-----------------------------------------------------------------------------
(* The invariant.                                                          *)

\* The variables that have been read.
Read == environ \ unread

\* The types of what the steps go by.
LoadTypes ==
    /\ phase \in {"start", "collecting", "merging", "done"}
    /\ file \in Files
    /\ environ \subseteq Variables /\ IsFiniteSet(environ)
    /\ unread \subseteq environ
    /\ paths \in Seq(Paths \ {<<>>})
    /\ applied \in 0..Len(paths)
    /\ IsDict(merged)

\* The overrides are those of the variables that have been read, each at one place.
Collected ==
    /\ \A i, j \in DOMAIN paths : paths[i] = paths[j] => i = j
    /\ DOMAIN overrides = {paths[i] : i \in DOMAIN paths}
    /\ \A x \in Read : Lowered(x) \in DOMAIN overrides /\ ~Malformed(x)
    /\ \A p \in DOMAIN overrides : \E x \in Read : p = Lowered(x) /\ overrides[p] = x.value
    /\ Len(paths) <= MaxOverrides /\ Len(paths) <= Cardinality(Read)
    /\ CasesApart => Len(paths) = Cardinality(Read)

\* Why _collect_env_overrides may stop, whatever the order is.
Stopped == Cardinality(environ) > MaxOverrides \/ \E x \in environ : Malformed(x)

\* The first overrides are merged, and none of them was too large.
Merging ==
    /\ unread = {}
    /\ Layered
    /\ \A i \in 1..applied : Parsed(paths[i], overrides[paths[i]]) # TooLarge

LoadInv ==
    /\ LoadTypes
    /\ Collected
    /\ phase = "start" => paths = <<>> /\ overrides = <<>> /\ unread = environ
    /\ phase \in {"start", "collecting"} => applied = 0
    /\ phase = "collecting" => Loaded /\ Settings(merged) = Base
    /\ phase = "merging" => Loaded /\ Merging
    /\ phase = "done" /\ Loaded =>
          \/ error = "ConfigLoadingError" /\ (CasesApart => Refused) /\ (Stopped \/ unread = {})
          \/ Merging /\ applied = Len(paths)

-----------------------------------------------------------------------------
(* Facts that the steps share.                                             *)

\* The paths of the overrides, and what they are parsed to.
LEMMA OverrideValues ==
    ASSUME LoadTypes, Collected
    PROVE  /\ Len(paths) \in Nat /\ DOMAIN paths = 1..Len(paths)
           /\ \A i \in DOMAIN paths :
                 /\ paths[i] \in Paths /\ paths[i] # <<>>
                 /\ paths[i] \in DOMAIN overrides
                 /\ IsTree(Parsed(paths[i], overrides[paths[i]]))
                 /\ \E x \in Read : paths[i] = Lowered(x) /\ overrides[paths[i]] = x.value
<1>1. Len(paths) \in Nat /\ DOMAIN paths = 1..Len(paths)
  BY LenProperties DEF LoadTypes
<1>2. ASSUME NEW i \in DOMAIN paths
      PROVE  /\ paths[i] \in Paths /\ paths[i] # <<>>
             /\ paths[i] \in DOMAIN overrides
             /\ IsTree(Parsed(paths[i], overrides[paths[i]]))
             /\ \E x \in Read : paths[i] = Lowered(x) /\ overrides[paths[i]] = x.value
  <2>1. paths[i] \in Paths \ {<<>>}  BY <1>1, <1>2, ElementOfSeq DEF LoadTypes
  <2>2. paths[i] \in DOMAIN overrides  BY DEF Collected
  <2>3. PICK x \in Read : paths[i] = Lowered(x) /\ overrides[paths[i]] = x.value
    BY <2>2 DEF Collected
  <2>4. x \in Variables  BY <2>3 DEF Read, LoadTypes
  <2>5. IsTree(x.value.json) /\ IsTree(x.value.items)  BY <2>4, LoadAssumption
  <2>6. QED  BY <2>1, <2>2, <2>3, <2>5, ParsedIsTree
<1>3. QED  BY <1>1, <1>2

\* How many variables have been read.
LEMMA Counting ==
    ASSUME LoadTypes
    PROVE  /\ IsFiniteSet(Read) /\ Cardinality(Read) \in Nat /\ Cardinality(environ) \in Nat
           /\ unread # {} => Cardinality(Read) < Cardinality(environ)
           /\ unread = {} => Read = environ
<1>1. Read \subseteq environ /\ IsFiniteSet(environ)  BY DEF Read, LoadTypes
<1>2. /\ IsFiniteSet(Read) /\ Cardinality(Read) <= Cardinality(environ)
      /\ Cardinality(Read) = Cardinality(environ) => Read = environ
  BY <1>1, FS_Subset
<1>3. Cardinality(Read) \in Nat /\ Cardinality(environ) \in Nat
  BY <1>1, <1>2, FS_CardinalityType
<1>4. unread # {} => Read # environ  BY DEF Read, LoadTypes
<1>5. unread = {} => Read = environ  BY DEF Read
<1>6. QED  BY <1>2, <1>3, <1>4, <1>5

\* A step that changes nothing of what was read.
Unchanged == UNCHANGED <<file, environ, unread, paths, overrides>>

\* What was collected does not depend on what is merged.
LEMMA CollectedKept ==
    ASSUME Collected, Unchanged
    PROVE  Collected'
BY DEF Collected, Unchanged, Read, CasesApart

\* Neither does what is merged on the phase and the error.
LEMMA MergingKept ==
    ASSUME Merging, Unchanged, UNCHANGED <<merged, applied>>
    PROVE  Merging'
BY DEF Merging, Unchanged, Layered, Settings, Base

\* Whether a load is refused, and the settings of the file, depend on what was read.
LEMMA RefusedKept ==
    ASSUME Unchanged
    PROVE  /\ Refused' <=> Refused
           /\ Stopped' <=> Stopped
           /\ CasesApart' <=> CasesApart
           /\ Loaded' <=> Loaded
           /\ Base' = Base
BY DEF Unchanged, Refused, Stopped, Malformed, CasesApart, Loaded, Base

-----------------------------------------------------------------------------
(* The steps.                                                              *)

\* Nothing is read and nothing merged.
LEMMA InitHolds == Init => LoadInv
<1> SUFFICES ASSUME Init  PROVE LoadInv
  OBVIOUS
<1>1. IsDict(EmptyDict)
  BY LeafIsTree DEF IsDict, EmptyDict, Leaf
<1>2. Read = {} /\ paths = <<>> /\ overrides = <<>>  BY DEF Init, Read
<1>3. Len(<<>>) = 0 /\ DOMAIN <<>> = {} /\ Cardinality({}) = 0 /\ <<>> \in Seq(Paths \ {<<>>})
  BY FS_EmptySet, EmptySeq
<1>4. LoadTypes  BY <1>1, <1>3 DEF LoadTypes, Init
<1>5. Collected
  <2>1. 0 <= MaxOverrides  BY LoadAssumption
  <2>2. QED  BY <1>2, <1>3, <2>1 DEF Collected
<1>6. QED  BY <1>4, <1>5 DEF LoadInv, Init

\* _load_yaml: the file is the lowest layer.
LEMMA LoadYamlKeeps == LoadInv /\ LoadYaml => LoadInv'
<1> SUFFICES ASSUME LoadInv, LoadYaml  PROVE LoadInv'
  OBVIOUS
<1>1. Unchanged /\ applied' = applied /\ applied = 0
  BY DEF LoadYaml, Unchanged, LoadInv
<1>2. Collected'  BY <1>1, CollectedKept DEF LoadInv
<1>3. CASE ~Loaded
  <2>1. phase' = "done" /\ merged' = merged /\ ~Loaded'
    BY <1>1, <1>3, RefusedKept DEF LoadYaml, Fail
  <2>2. LoadTypes'  BY <1>1, <2>1 DEF LoadInv, LoadTypes, Unchanged
  <2>3. QED  BY <1>1, <1>2, <2>1, <2>2 DEF LoadInv
<1>4. CASE Loaded
  <2>1. /\ phase' = "collecting"
        /\ merged' = IF file.kind = "empty" THEN EmptyDict ELSE file.tree
    BY <1>4 DEF LoadYaml, Loaded
  <2>2. IsDict(merged')
    <3>1. IsDict(EmptyDict)  BY LeafIsTree DEF IsDict, EmptyDict, Leaf
    <3>2. file.kind = "mapping" => IsDict(file.tree)
      BY LoadAssumption DEF LoadInv, LoadTypes
    <3>3. QED  BY <1>4, <2>1, <3>1, <3>2 DEF Loaded
  <2>3. Settings(EmptyDict) = {}
    <3>1. DOMAIN EmptyDict = {<<>>} /\ EmptyDict[<<>>] = Folder  BY DEF EmptyDict, Leaf
    <3>2. QED  BY <3>1 DEF Settings, Leaves
  <2>4. Settings(merged') = Base'
    BY <1>1, <1>4, <2>1, <2>3 DEF Base, Loaded, Unchanged
  <2>5. LoadTypes'  BY <1>1, <2>1, <2>2 DEF LoadInv, LoadTypes, Unchanged
  <2>6. Loaded'  BY <1>1, <1>4, RefusedKept
  <2>7. (Settings(merged) = Base)'  BY <2>4 DEF Settings
  <2>8. QED  BY <1>1, <1>2, <2>1, <2>5, <2>6, <2>7 DEF LoadInv
<1>5. QED  BY <1>3, <1>4

\* _collect_env_overrides stops at a variable: then it would in any order.
LEMMA CollectFails ==
    ASSUME LoadInv, phase = "collecting", NEW x \in unread, Full(x) \/ Malformed(x),
           Fail("ConfigLoadingError"), Unchanged, UNCHANGED <<merged, applied>>
    PROVE  LoadInv'
<1>1. ASSUME CasesApart  PROVE Refused
  <2>1. x \in environ  BY DEF LoadInv, LoadTypes
  <2>2. CASE Malformed(x)  BY <2>1, <2>2 DEF Refused
  <2>3. CASE Full(x)
    <3>1. Len(paths) = Cardinality(Read) /\ Len(paths) >= MaxOverrides
      BY <1>1, <2>3 DEF LoadInv, Collected, Full
    <3>2. Cardinality(Read) < Cardinality(environ)  BY Counting DEF LoadInv
    <3>3. Cardinality(environ) > MaxOverrides
      BY <3>1, <3>2, Counting, LoadAssumption DEF LoadInv
    <3>4. QED  BY <3>3 DEF Refused
  <2>4. QED  BY <2>2, <2>3
<1>2. Stopped
  <2>1. x \in environ  BY DEF LoadInv, LoadTypes
  <2>2. CASE Malformed(x)  BY <2>1, <2>2 DEF Stopped
  <2>3. CASE Full(x)
    <3>1. Len(paths) <= Cardinality(Read) /\ Len(paths) >= MaxOverrides /\ Len(paths) \in Nat
      BY <2>3, LenProperties DEF LoadInv, LoadTypes, Collected, Full
    <3>2. Cardinality(Read) < Cardinality(environ)  BY Counting DEF LoadInv
    <3>3. Cardinality(environ) > MaxOverrides
      BY <3>1, <3>2, Counting, LoadAssumption DEF LoadInv
    <3>4. QED  BY <3>3 DEF Stopped
  <2>4. QED  BY <2>2, <2>3
<1>3. Collected'  BY CollectedKept DEF LoadInv
<1>4. LoadTypes'  BY DEF LoadInv, LoadTypes, Unchanged, Fail
<1>5. QED  BY <1>1, <1>2, <1>3, <1>4, RefusedKept DEF LoadInv, Fail

\* _collect_env_overrides enters a variable.
LEMMA CollectEnters ==
    ASSUME LoadInv, phase = "collecting", NEW x \in unread, ~Full(x), ~Malformed(x),
           unread' = unread \ {x},
           paths' = IF Lowered(x) \in DOMAIN overrides THEN paths ELSE Append(paths, Lowered(x)),
           overrides' = [p \in DOMAIN overrides \union {Lowered(x)} |->
                           IF p = Lowered(x) THEN x.value ELSE overrides[p]],
           UNCHANGED <<phase, error, file, environ, merged, applied>>
    PROVE  LoadInv'
<1> DEFINE path == Lowered(x)
<1>1. x \in Variables /\ x \in environ /\ x \notin Read  BY DEF LoadInv, LoadTypes, Read
<1>2. path \in Paths \ {<<>>}  BY <1>1, LoweredIsPath
<1>3. Read' = Read \union {x}  BY <1>1 DEF Read
<1>4. CasesApart' <=> CasesApart  BY DEF CasesApart
<1>5. Cardinality(Read') = Cardinality(Read) + 1
  BY <1>1, <1>3, FS_AddElement, Counting DEF LoadInv
<1>6. CasesApart => path \notin DOMAIN overrides
  <2>1. ASSUME CasesApart, path \in DOMAIN overrides  PROVE FALSE
    <3>1. PICK y \in Read : path = Lowered(y)  BY <2>1 DEF LoadInv, Collected
    <3>2. y \in environ  BY <3>1 DEF Read
    <3>3. y = x  BY <1>1, <2>1, <3>1, <3>2 DEF CasesApart
    <3>4. QED  BY <1>1, <3>1, <3>3
  <2>2. QED  BY <2>1
<1>7. Len(paths) \in Nat /\ DOMAIN paths = 1..Len(paths)
  BY LenProperties DEF LoadInv, LoadTypes
<1>8. /\ applied = 0 /\ paths \in Seq(Paths \ {<<>>})
      /\ \A i, j \in DOMAIN paths : paths[i] = paths[j] => i = j
      /\ DOMAIN overrides = {paths[i] : i \in DOMAIN paths}
      /\ Len(paths) < MaxOverrides /\ Len(paths) <= Cardinality(Read)
      /\ CasesApart => Len(paths) = Cardinality(Read)
  BY <1>7, LoadAssumption DEF LoadInv, LoadTypes, Collected, Full
<1>9. DOMAIN overrides' = DOMAIN overrides \union {path}  OBVIOUS
<1>10. /\ \A i, j \in DOMAIN paths' : paths'[i] = paths'[j] => i = j
       /\ DOMAIN overrides' = {paths'[i] : i \in DOMAIN paths'}
       /\ Len(paths') <= MaxOverrides /\ Len(paths') <= Cardinality(Read')
       /\ CasesApart => Len(paths') = Cardinality(Read')
       /\ paths' \in Seq(Paths \ {<<>>})
       /\ 0 \in 0..Len(paths')
  <2>1. CASE path \in DOMAIN overrides
    <3>1. paths' = paths /\ ~CasesApart  BY <1>6, <2>1
    <3>2. Cardinality(Read) \in Nat  BY Counting DEF LoadInv
    <3>3. QED  BY <1>5, <1>7, <1>8, <1>9, <2>1, <3>1, <3>2, LoadAssumption
  <2>2. CASE path \notin DOMAIN overrides
    <3>1. paths' = Append(paths, path)  BY <2>2
    <3>2. /\ paths' \in Seq(Paths \ {<<>>}) /\ Len(paths') = Len(paths) + 1
          /\ DOMAIN paths' = 1..(Len(paths) + 1)
          /\ \A i \in 1..Len(paths) : paths'[i] = paths[i]
          /\ paths'[Len(paths) + 1] = path
      BY <1>2, <1>7, <1>8, <3>1
    <3> HIDE DEF path
    <3>3. \A i \in 1..Len(paths) : paths[i] # path  BY <1>7, <1>8, <2>2
    <3>4. ASSUME NEW i \in DOMAIN paths', NEW j \in DOMAIN paths', paths'[i] = paths'[j]
          PROVE  i = j
      <4>1. \A k \in DOMAIN paths' : k \in 1..Len(paths) \/ k = Len(paths) + 1
        BY <1>7, <3>2
      <4>2. QED  BY <1>7, <1>8, <3>2, <3>3, <3>4, <4>1
    <3>5. {paths'[i] : i \in DOMAIN paths'} = {paths[i] : i \in DOMAIN paths} \union {path}
      <4>1. DOMAIN paths' = DOMAIN paths \union {Len(paths) + 1}  BY <1>7, <3>2
      <4>2. \A i \in DOMAIN paths : paths'[i] = paths[i]  BY <1>7, <3>2
      <4>3. QED  BY <3>2, <4>1, <4>2
    <3>6. /\ Len(paths') <= MaxOverrides /\ Len(paths') <= Cardinality(Read') /\ 0 \in 0..Len(paths')
          /\ CasesApart => Len(paths') = Cardinality(Read')
      BY <1>5, <1>7, <1>8, <3>2, Counting, LoadAssumption DEF LoadInv
    <3>7. QED  BY <1>8, <1>9, <3>2, <3>4, <3>5, <3>6
  <2>3. QED  BY <2>1, <2>2
<1>11. ASSUME NEW y \in Read'
       PROVE  Lowered(y) \in DOMAIN overrides' /\ ~Malformed(y)
  BY <1>3, <1>9 DEF LoadInv, Collected
<1>12. ASSUME NEW p \in DOMAIN overrides'
       PROVE  \E y \in Read' : p = Lowered(y) /\ overrides'[p] = y.value
  <2>1. CASE p = path
    <3>1. overrides'[p] = x.value  BY <1>9, <2>1
    <3>2. QED  BY <1>3, <2>1, <3>1
  <2>2. CASE p # path
    <3>1. p \in DOMAIN overrides /\ overrides'[p] = overrides[p]  BY <1>9, <2>2
    <3>2. PICK y \in Read : p = Lowered(y) /\ overrides[p] = y.value
      BY <3>1 DEF LoadInv, Collected
    <3>3. QED  BY <1>3, <3>1, <3>2
  <2>3. QED  BY <2>1, <2>2
<1>13. Collected'
  BY <1>4, <1>10, <1>11, <1>12 DEF Collected, Malformed
<1>14. LoadTypes'
  BY <1>8, <1>10 DEF LoadInv, LoadTypes
<1>15. (Settings(merged) = Base)' /\ Loaded'
  BY DEF LoadInv, Settings, Base, Loaded
<1>16. QED  BY <1>8, <1>13, <1>14, <1>15 DEF LoadInv

LEMMA CollectKeeps == LoadInv /\ Collect => LoadInv'
<1> SUFFICES ASSUME LoadInv, Collect  PROVE LoadInv'
  OBVIOUS
<1>1. phase = "collecting" /\ UNCHANGED <<file, environ, merged, applied>>  BY DEF Collect
<1>2. PICK x \in unread :
          \/ /\ Full(x) \/ Malformed(x)
             /\ Fail("ConfigLoadingError")
             /\ UNCHANGED <<unread, paths, overrides>>
          \/ /\ ~Full(x) /\ ~Malformed(x)
             /\ unread' = unread \ {x}
             /\ paths' = IF Lowered(x) \in DOMAIN overrides THEN paths
                         ELSE Append(paths, Lowered(x))
             /\ overrides' = [p \in DOMAIN overrides \union {Lowered(x)} |->
                                IF p = Lowered(x) THEN x.value ELSE overrides[p]]
             /\ UNCHANGED <<phase, error>>
  BY DEF Collect
<1>3. CASE Full(x) \/ Malformed(x)
  <2>1. Fail("ConfigLoadingError") /\ Unchanged  BY <1>1, <1>2, <1>3 DEF Unchanged
  <2>2. QED  BY <1>1, <1>3, <2>1, CollectFails
<1>4. CASE ~(Full(x) \/ Malformed(x))  BY <1>1, <1>2, <1>4, CollectEnters
<1>5. QED  BY <1>3, <1>4

\* Nothing is merged yet.
LEMMA EndCollectKeeps == LoadInv /\ EndCollect => LoadInv'
<1> SUFFICES ASSUME LoadInv, EndCollect  PROVE LoadInv'
  OBVIOUS
<1>1. /\ Unchanged /\ UNCHANGED <<merged, applied>> /\ phase' = "merging"
      /\ applied = 0 /\ unread = {} /\ Loaded /\ Settings(merged) = Base
  BY DEF EndCollect, Unchanged, LoadInv
<1>2. Collected'  BY <1>1, CollectedKept DEF LoadInv
<1>3. Layered
  <2>1. 1..applied = {}  BY <1>1
  <2>2. QED  BY <1>1, <2>1 DEF Layered
<1>4. Merging
  <2>1. 1..applied = {}  BY <1>1
  <2>2. QED  BY <1>1, <1>3, <2>1 DEF Merging
<1>5. Merging' /\ Loaded'  BY <1>1, <1>4, MergingKept, RefusedKept
<1>6. LoadTypes'  BY <1>1 DEF LoadInv, LoadTypes, Unchanged
<1>7. QED  BY <1>1, <1>2, <1>5, <1>6 DEF LoadInv

\* _set_nested, seen from the settings: an override takes away what is above and below.
LEMMA MergedSettings ==
    ASSUME NEW t, IsDict(t), NEW path \in Paths \ {<<>>}, NEW v, IsTree(v)
    PROVE  Settings(SetNested(t, path, v)) =
             {s \in Settings(t) : ~Related(path, s[1])}
             \union {<<path \o leaf[1], leaf[2]>> : leaf \in Leaves(v)}
<1> DEFINE new == {<<path \o leaf[1], leaf[2]>> : leaf \in Leaves(v)}
           none == << <<>>, Folder >>
<1>1. Leaves(SetNested(t, path, v)) = {s \in Leaves(t) : ~Related(path, s[1])} \union new
  BY SetNestedLeaves
<1>2. Related(path, none[1])  BY PrefixOrder DEF Related
<1>3. none \notin new
  <2>1. ASSUME NEW leaf \in Leaves(v)  PROVE path \o leaf[1] # <<>>
    <3>1. leaf[1] \in Paths  BY TreeAbove DEF Leaves
    <3>2. Prefix(path, path \o leaf[1])  BY <3>1, Joined
    <3>3. QED  BY <3>2, PrefixOrder
  <2>2. QED  BY <2>1
<1> HIDE DEF new, none
<1>4. {s \in Leaves(t) : ~Related(path, s[1])} \ {none} = {s \in Settings(t) : ~Related(path, s[1])}
  BY <1>2 DEF Settings, none
<1>5. Settings(SetNested(t, path, v)) = Leaves(SetNested(t, path, v)) \ {none}
  BY DEF Settings, none
<1>6. QED  BY <1>1, <1>3, <1>4, <1>5 DEF new

\* _merge_overrides merges one more override into what there is.
LEMMA MergeAdds ==
    ASSUME LoadInv, phase = "merging", applied < Len(paths), Unchanged, applied' = applied + 1,
           merged' = SetNested(merged, paths[applied + 1],
                               Parsed(paths[applied + 1], overrides[paths[applied + 1]]))
    PROVE  Layered' /\ IsDict(merged')
<1> DEFINE k == applied + 1
           path == paths[k]
           Of(i) == Layer(paths[i], overrides[paths[i]])
           Left(i, n) == {s \in Of(i) : \A j \in (i + 1)..n : ~Related(paths[j], s[1])}
           Kept(n) == {s \in Base : \A i \in 1..n : ~Related(paths[i], s[1])}
           Sum(n) == Kept(n) \union UNION {Left(i, n) : i \in 1..n}
<1>1. LoadTypes /\ Collected /\ Layered /\ applied \in Nat
  BY DEF LoadInv, Merging, LoadTypes
<1>2. /\ k \in Nat /\ applied = k - 1 /\ k \in DOMAIN paths
      /\ path \in Paths \ {<<>>} /\ IsTree(Parsed(path, overrides[path]))
  BY <1>1, OverrideValues
<1>3. Settings(merged) = Sum(applied)  BY <1>1 DEF Layered
<1>4. Settings(merged') = {s \in Settings(merged) : ~Related(path, s[1])} \union Of(k)
  BY <1>1, <1>2, MergedSettings DEF Layer, LoadTypes
<1>5. IsDict(merged')  BY <1>1, <1>2, SetNestedDict DEF LoadTypes
<1> HIDE DEF Of
<1>6. {s \in Kept(applied) : ~Related(path, s[1])} = Kept(k)
  <2>1. 1..k = 1..applied \union {k}  BY <1>1, <1>2
  <2>2. QED  BY <2>1
<1>7. ASSUME NEW i \in 1..applied
      PROVE  {s \in Left(i, applied) : ~Related(path, s[1])} = Left(i, k)
  <2>1. (i + 1)..k = (i + 1)..applied \union {k}  BY <1>1, <1>2, <1>7
  <2>2. QED  BY <2>1
<1>8. Left(k, k) = Of(k)
  <2>1. (k + 1)..k = {}  BY <1>2
  <2>2. QED  BY <2>1
<1>9. 1..k = 1..applied \union {k}  BY <1>1, <1>2
<1> HIDE DEF Left, Kept, path, k
<1>10. {s \in Sum(applied) : ~Related(path, s[1])} \union Of(k) = Sum(k)
  BY <1>6, <1>7, <1>8, <1>9
<1>11. Settings(merged') = Sum(k)  BY <1>3, <1>4, <1>10
<1>12. k = applied' /\ paths' = paths /\ overrides' = overrides /\ Base' = Base
  BY RefusedKept DEF k, Unchanged
<1>13. Layered'
  <2>1. Settings(merged)' = Settings(merged')  BY DEF Settings
  <2>2. Layered' <=>
          Settings(merged)' =
            {s \in Base' : \A i \in 1..applied' : ~Related(paths'[i], s[1])}
            \union UNION {{s \in Layer(paths'[i], overrides'[paths'[i]]) :
                             \A j \in (i + 1)..applied' : ~Related(paths'[j], s[1])} :
                          i \in 1..applied'}
    BY DEF Layered, Layer
  <2>3. Layered' <=> Settings(merged)' = Sum(k)
    BY <1>12, <2>2 DEF Of, Left, Kept
  <2>4. QED  BY <1>11, <2>1, <2>3
<1>14. QED  BY <1>5, <1>13

\* _merge_overrides merges an override, or one is too large: then it would be in any order.
LEMMA MergeKeeps == LoadInv /\ Merge => LoadInv'
<1> SUFFICES ASSUME LoadInv, Merge  PROVE LoadInv'
  OBVIOUS
<1> DEFINE path == paths[applied + 1]
           value == Parsed(path, overrides[path])
<1>1. /\ phase = "merging" /\ applied < Len(paths) /\ Unchanged
      /\ LoadTypes /\ Collected /\ Merging /\ Loaded
  BY DEF Merge, Unchanged, LoadInv
<1>2. applied \in Nat /\ applied + 1 \in DOMAIN paths /\ Len(paths) \in Nat
  BY <1>1, OverrideValues DEF LoadTypes
<1>3. Collected' /\ Loaded'  BY <1>1, CollectedKept, RefusedKept
<1>4. CASE value = TooLarge
  <2>1. Fail("ConfigLoadingError") /\ UNCHANGED <<merged, applied>>  BY <1>4 DEF Merge
  <2>2. Refused
    <3>1. PICK x \in Read : path = Lowered(x) /\ overrides[path] = x.value
      BY <1>1, <1>2, OverrideValues
    <3>2. QED  BY <1>4, <3>1 DEF Read, Refused
  <2>3. LoadTypes'  BY <1>1, <2>1 DEF LoadTypes, Unchanged, Fail
  <2>4. unread' = {}  BY <1>1 DEF Merging, Unchanged
  <2>5. QED  BY <1>1, <1>3, <2>1, <2>2, <2>3, <2>4, RefusedKept DEF LoadInv, Fail
<1>5. CASE value # TooLarge
  <2>1. /\ merged' = SetNested(merged, path, value) /\ applied' = applied + 1
        /\ phase' = "merging"
    BY <1>1, <1>5 DEF Merge
  <2>2. Layered' /\ IsDict(merged')  BY <1>1, <2>1, MergeAdds
  <2>3. LoadTypes'  BY <1>1, <1>2, <2>1, <2>2 DEF LoadTypes, Unchanged
  <2>4. 1..applied' = 1..applied \union {applied + 1}  BY <1>2, <2>1
  <2>5. \A i \in 1..applied' : Parsed(paths'[i], overrides'[paths'[i]]) # TooLarge
    BY <1>1, <1>5, <2>4 DEF Merging, Unchanged
  <2>6. Merging'  BY <1>1, <2>2, <2>5 DEF Merging, Unchanged
  <2>7. QED  BY <1>3, <2>1, <2>3, <2>6 DEF LoadInv
<1>6. QED  BY <1>4, <1>5

\* Validation changes nothing of what was merged.
LEMMA ValidateKeeps == LoadInv /\ Validate => LoadInv'
<1> SUFFICES ASSUME LoadInv, Validate  PROVE LoadInv'
  OBVIOUS
<1>1. /\ phase = "merging" /\ phase' = "done" /\ applied = Len(paths)
      /\ Unchanged /\ UNCHANGED <<merged, applied>>
      /\ LoadTypes /\ Collected /\ Merging
  BY DEF Validate, Unchanged, LoadInv
<1>2. Collected' /\ Merging'  BY <1>1, CollectedKept, MergingKept
<1>3. LoadTypes' /\ applied' = Len(paths')  BY <1>1 DEF LoadTypes, Unchanged
<1>4. QED  BY <1>1, <1>2, <1>3 DEF LoadInv

\* Every step keeps the invariant.
LEMMA LoadStep == LoadInv /\ [Next]_vars => LoadInv'
<1> SUFFICES ASSUME LoadInv, [Next]_vars  PROVE LoadInv'
  OBVIOUS
<1>1. CASE LoadYaml  BY <1>1, LoadYamlKeeps
<1>2. CASE Collect  BY <1>2, CollectKeeps
<1>3. CASE EndCollect  BY <1>3, EndCollectKeeps
<1>4. CASE Merge  BY <1>4, MergeKeeps
<1>5. CASE Validate  BY <1>5, ValidateKeeps
<1>6. CASE UNCHANGED vars
  <2>1. Unchanged /\ UNCHANGED <<phase, merged, applied, error>>  BY <1>6 DEF vars, Unchanged
  <2>2. Collected' /\ (Merging => Merging')
    BY <2>1, CollectedKept, MergingKept DEF LoadInv
  <2>3. LoadTypes'  BY <2>1 DEF LoadInv, LoadTypes, Unchanged
  <2>4. Settings(merged') = Settings(merged)  BY <2>1
  <2>5. (Settings(merged) = Base)' <=> Settings(merged) = Base
    BY <2>1, <2>4, RefusedKept DEF Settings
  <2>6. QED  BY <2>1, <2>2, <2>3, <2>5, RefusedKept DEF LoadInv, Unchanged
<1>7. QED  BY <1>1, <1>2, <1>3, <1>4, <1>5, <1>6 DEF Next

\* It holds at every step of every load.
LEMMA LoadInvariant == Spec => []LoadInv
BY InitHolds, LoadStep, PTL DEF Spec

-----------------------------------------------------------------------------
(* The properties.                                                         *)

\* The merged configuration is what the file and the overrides give, each setting from
\* the last layer that sets it or something above or below it: at every override of
\* _merge_overrides, for any file and any environment in any order.
THEOREM LayersAlwaysHold == Spec => []LayersHold
<1>1. LoadInv => LayersHold  BY DEF LoadInv, Merging, LayersHold
<1>2. QED  BY <1>1, LoadInvariant, PTL

\* A load that could be refused in one order is refused in all.
LEMMA RefusalFails ==
    ASSUME LoadInv, phase = "done", Loaded, CasesApart, Refused
    PROVE  error = "ConfigLoadingError"
<1> SUFFICES ASSUME Merging, applied = Len(paths)  PROVE FALSE
  BY DEF LoadInv
<1>1. Read = environ  BY Counting DEF LoadInv, Merging
<1>2. LoadTypes /\ Collected  BY DEF LoadInv
<1>3. Cardinality(environ) <= MaxOverrides  BY <1>1, <1>2 DEF Collected
<1>4. ~(Cardinality(environ) > MaxOverrides)
  BY <1>2, <1>3, Counting, LoadAssumption
<1>5. ASSUME NEW x \in environ
      PROVE  ~Malformed(x) /\ Parsed(Lowered(x), x.value) # TooLarge
  <2>1. ~Malformed(x) /\ Lowered(x) \in DOMAIN overrides  BY <1>1, <1>2 DEF Collected
  <2>2. PICK y \in Read : Lowered(x) = Lowered(y) /\ overrides[Lowered(x)] = y.value
    BY <1>2, <2>1 DEF Collected
  <2>3. x = y  BY <1>1, <2>2 DEF CasesApart
  <2>4. PICK i \in DOMAIN paths : Lowered(x) = paths[i]  BY <1>2, <2>1 DEF Collected
  <2>5. i \in 1..applied  BY <1>2, OverrideValues
  <2>6. Parsed(paths[i], overrides[paths[i]]) # TooLarge  BY <2>5 DEF Merging
  <2>7. QED  BY <2>1, <2>2, <2>3, <2>4, <2>6
<1>6. QED  BY <1>4, <1>5 DEF Refused

\* Of variables that are apart no override takes away what another sets.
LEMMA ApartAllStay ==
    ASSUME LoadInv, Merging, applied = Len(paths), CasesApart, Apart
    PROVE  Settings(merged) =
             {s \in Base : \A x \in environ : ~Related(Lowered(x), s[1])}
             \union UNION {Layer(Lowered(x), x.value) : x \in environ}
<1>1. Read = environ  BY Counting DEF LoadInv, Merging
<1>2. LoadTypes /\ Collected  BY DEF LoadInv
<1>3. /\ Len(paths) \in Nat /\ DOMAIN paths = 1..applied
      /\ \A i \in 1..applied : /\ paths[i] \in Paths
                               /\ IsTree(Parsed(paths[i], overrides[paths[i]]))
                               /\ \E x \in environ : /\ paths[i] = Lowered(x)
                                                     /\ overrides[paths[i]] = x.value
  BY <1>1, <1>2, OverrideValues
<1>4. ASSUME NEW x \in environ
      PROVE  \E i \in 1..applied : paths[i] = Lowered(x) /\ overrides[paths[i]] = x.value
  <2>1. Lowered(x) \in DOMAIN overrides  BY <1>1, <1>2 DEF Collected
  <2>2. PICK i \in 1..applied : paths[i] = Lowered(x)  BY <1>2, <1>3, <2>1 DEF Collected
  <2>3. PICK y \in environ : paths[i] = Lowered(y) /\ overrides[paths[i]] = y.value
    BY <1>3
  <2>4. x = y  BY <2>2, <2>3 DEF CasesApart
  <2>5. QED  BY <2>2, <2>3, <2>4
<1>5. ASSUME NEW i \in 1..applied, NEW s \in Layer(paths[i], overrides[paths[i]]),
             NEW j \in (i + 1)..applied
      PROVE  ~Related(paths[j], s[1])
  <2>1. i \in Nat /\ j \in 1..applied /\ j # i  BY <1>3
  <2>2. PICK leaf \in Leaves(Parsed(paths[i], overrides[paths[i]])) :
            s = <<paths[i] \o leaf[1], leaf[2]>>
    BY DEF Layer
  <2>3. leaf[1] \in Paths  BY <1>3, TreeAbove DEF Leaves
  <2>4. paths[i] \in Paths /\ paths[j] \in Paths /\ paths[i] \o leaf[1] \in Paths
        /\ Prefix(paths[i], paths[i] \o leaf[1])
    BY <1>3, <2>1, <2>3, Joined
  <2>5. ASSUME Related(paths[j], paths[i] \o leaf[1])  PROVE Related(paths[j], paths[i])
    <3>1. CASE Prefix(paths[j], paths[i] \o leaf[1])
      BY <2>4, <3>1, PrefixesRelated
    <3>2. CASE Prefix(paths[i] \o leaf[1], paths[j])
      BY <2>4, <3>2, PrefixOrder DEF Related
    <3>3. QED  BY <2>5, <3>1, <3>2 DEF Related
  <2>6. ~Related(paths[j], paths[i])
    <3>1. PICK x \in environ, y \in environ : paths[j] = Lowered(x) /\ paths[i] = Lowered(y)
      BY <1>3, <2>1
    <3>2. paths[j] # paths[i]  BY <1>2, <1>3, <2>1 DEF Collected
    <3>3. QED  BY <3>1, <3>2 DEF Apart
  <2>7. QED  BY <2>2, <2>5, <2>6
<1> DEFINE Of(i) == Layer(paths[i], overrides[paths[i]])
           Left(i) == {s \in Of(i) : \A j \in (i + 1)..applied : ~Related(paths[j], s[1])}
<1>6. \A i \in 1..applied : Left(i) = Of(i)  BY <1>5
<1>7. UNION {Left(i) : i \in 1..applied} = UNION {Layer(Lowered(x), x.value) : x \in environ}
  <2> HIDE DEF Left
  <2>1. \A i \in 1..applied : \E x \in environ : Of(i) = Layer(Lowered(x), x.value)
    BY <1>3
  <2>2. \A x \in environ : \E i \in 1..applied : Of(i) = Layer(Lowered(x), x.value)
    BY <1>4
  <2> HIDE DEF Of
  <2>3. QED  BY <1>6, <2>1, <2>2
<1>8. \A s \in Base : (\A i \in 1..applied : ~Related(paths[i], s[1]))
                      <=> (\A x \in environ : ~Related(Lowered(x), s[1]))
  BY <1>3, <1>4
<1>9. Settings(merged) =
        {s \in Base : \A i \in 1..applied : ~Related(paths[i], s[1])}
        \union UNION {Left(i) : i \in 1..applied}
  BY DEF Merging, Layered
<1> HIDE DEF Left
<1>10. QED  BY <1>7, <1>8, <1>9

\* The order of os.environ decides neither whether a load is refused nor, of variables
\* that are apart, what the configuration is.
THEOREM OrderIsNoAccident == Spec => []OrderDecidesNothing
<1>1. ASSUME LoadInv  PROVE OrderDecidesNothing
  <2> SUFFICES ASSUME phase = "done", CasesApart, Loaded
               PROVE  /\ Refused => error = "ConfigLoadingError"
                      /\ ~Refused => Len(paths) = Cardinality(environ)
                      /\ ~Refused /\ Apart =>
                            Settings(merged) =
                              {s \in Base : \A x \in environ : ~Related(Lowered(x), s[1])}
                              \union UNION {Layer(Lowered(x), x.value) : x \in environ}
    BY DEF OrderDecidesNothing
  <2>1. ASSUME Refused  PROVE error = "ConfigLoadingError"
    BY <1>1, <2>1, RefusalFails
  <2>2. ASSUME ~Refused
        PROVE  /\ Len(paths) = Cardinality(environ)
               /\ Apart =>
                     Settings(merged) =
                       {s \in Base : \A x \in environ : ~Related(Lowered(x), s[1])}
                       \union UNION {Layer(Lowered(x), x.value) : x \in environ}
    <3>1. Merging /\ applied = Len(paths)  BY <1>1, <2>2 DEF LoadInv
    <3>2. Read = environ  BY <1>1, <3>1, Counting DEF LoadInv, Merging
    <3>3. Len(paths) = Cardinality(environ)  BY <1>1, <3>2 DEF LoadInv, Collected
    <3>4. QED  BY <1>1, <3>1, <3>3, ApartAllStay
  <2>3. QED  BY <2>1, <2>2
<1>2. QED  BY <1>1, LoadInvariant, PTL

\* However many variables differ in case only, a load whose environment names too many
\* settings is refused, and none is refused for the number of its variables if there are
\* no more of them than settings allowed (_collect_env_overrides).
THEOREM LimitIsOfNames == Spec => []LimitCountsNames
<1>1. ASSUME LoadInv, phase = "done", Loaded, unread = {}
      PROVE  DOMAIN overrides = Named
  <2>1. Read = environ /\ Collected  BY <1>1, Counting DEF LoadInv
  <2>2. QED  BY <2>1 DEF Collected, Named
<1>2. ASSUME LoadInv, phase = "done", Loaded, Merging
      PROVE  ~(Cardinality(Named) > MaxOverrides)
  <2>1. LoadTypes /\ Collected /\ DOMAIN overrides = Named  BY <1>1, <1>2 DEF LoadInv, Merging
  <2>2. Len(paths) \in Nat /\ DOMAIN paths = 1..Len(paths)  BY <2>1, OverrideValues
  <2>3. paths \in Surjection(1..Len(paths), Named)
    <3>1. Named = {paths[i] : i \in 1..Len(paths)}  BY <2>1, <2>2 DEF Collected
    <3>2. paths \in [1..Len(paths) -> Named]
      <4>1. paths = [i \in DOMAIN paths |-> paths[i]]  BY <2>1 DEF LoadTypes
      <4>2. QED  BY <2>2, <3>1, <4>1
    <3>3. QED  BY <3>1, <3>2 DEF Surjection
  <2>4. IsFiniteSet(1..Len(paths)) /\ Cardinality(1..Len(paths)) = Len(paths)
    <3>1. Len(paths) \in Int /\ 1 \in Int  BY <2>2
    <3>2. /\ IsFiniteSet(1..Len(paths))
          /\ Cardinality(1..Len(paths)) = IF 1 > Len(paths) THEN 0 ELSE Len(paths) - 1 + 1
      BY <3>1, FS_Interval
    <3>3. QED  BY <2>2, <3>2
  <2>5. IsFiniteSet(Named) /\ Cardinality(Named) <= Len(paths)
    BY <2>3, <2>4, FS_Surjection
  <2>6. Cardinality(Named) \in Nat  BY <2>5, FS_CardinalityType
  <2>7. QED  BY <2>1, <2>2, <2>5, <2>6, LoadAssumption DEF Collected
<1>3. ASSUME LoadInv  PROVE LimitCountsNames
  <2> SUFFICES ASSUME phase = "done", Loaded
               PROVE  /\ Cardinality(Named) > MaxOverrides => error = "ConfigLoadingError"
                      /\ ~Stopped => DOMAIN overrides = Named
    <3>1. /\ IsFiniteSet(environ) /\ Cardinality(environ) \in Nat
          /\ MaxOverrides \in Nat
      BY <1>3, Counting, LoadAssumption DEF LoadInv, LoadTypes
    <3>2. QED  BY <3>1 DEF LimitCountsNames, Stopped
  <2>1. CASE error = "ConfigLoadingError" /\ (Stopped \/ unread = {})
    BY <1>1, <1>3, <2>1
  <2>2. CASE Merging
    <3>1. ~(Cardinality(Named) > MaxOverrides) /\ unread = {}
      BY <1>2, <1>3, <2>2 DEF Merging
    <3>2. QED  BY <1>1, <1>3, <3>1
  <2>3. QED  BY <1>3, <2>1, <2>2 DEF LoadInv
<1>4. QED  BY <1>3, LoadInvariant, PTL

=============================================================================
